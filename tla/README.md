# P4DRA: formal specification

P4DRA is remote attestation of many devices with a programmable switch as the
verifier. A device proves itself by computing Forro14, keyed with a secret only
its trusted application (TA) and the verifier know, over its identity and the
round's identifier. The verifier recomputes the value *inside the switch's
packet pipelines* and lets the reply out by the CPU port only if it matches.

This directory holds TLA+ modules of the attestation path, the TLC
configurations that model-check them and TLAPS proofs of their safety properties.
Definitions keep the names of the code (Portuguese), comments are in English.

## 1. Inventory

| Component | Code | State | Operations |
|---|---|---|---|
| Forro14 and the proof | `optee_dra/dra/ta/forro.c`, `reply_proof` in `dra_ta.c` | none (pure) | `Q`, seven double rounds, final addition; key and configuration layout |
| Packet program | `TNA/p4src` | headers and metadata of each packet, no registers | ingress and egress traversal: load state, one QR, finalise, compare, forward, drop, recirculate |
| Control plane | `TNA/bfrt_python/setup.py` | match-action tables | clear all tables, install 56 x 12 Forro rules, two rules per device, defaults |
| TA and its storage | `optee_dra/dra/ta/dra_ta.c` | three persistent objects, one session | create/write, read, delete, reply_proof |
| `optee_dra` | `optee_dra/dra/host/main.c` | a process: command, buffers, session | READ, WRITE (three writes in turn), DELETE (no effect), REQUEST_PROOF |
| `dra_service` | `optee_dra/dra_service/host/main.c` | global id, open streams, child processes | packet handler for requests (oper 1) and setups (oper 5) |
| x86 verifier | `tools/src/verifica_p4dra_rede.c` | arrival counter, file of keys | capture a reply, fetch a key, run `forro-args-dra2`, send the result beside the proof |
| Senders | `tools/src/envia_*` | loop counter, file contents (reversed in place) | send setups, requests, prerecorded proofs |
| Receivers | `tools/src/le_*` | packet counts | print packets; `le_p4dra_rede_optee.c` is `dra_service` again |
| Reference cipher | `forro_cipher/` | none | the same permutation behind a command line, installed as `forro-args-dra2` |
| Capture (vendored libpcap) | `dra_service/host/include/libpcap1.10.4`: `pcap-linux.c`, `pcap.c` | ring of frames shared with the kernel, filter, break flag | set filter, read, wait, break |
| Scripts, container, data, the rest of libpcap | `TNA/*.sh,*.py`, `optee_dra/scripts_auxiliares`, `data` | none of the protocol's | environment |

**Interaction.** A start packet (oper 0) becomes a request (oper 1) in the
switch and goes to the device. `dra_service` captures it and runs
`optee_dra 3 <id_rodada> <nonce>` as a child; the child opens the TA's only
session, the TA reads the secrets object and answers the proof; the service
sends a reply (oper 2) with its global `id_dispositivo_hex`. The switch loads
the device's state (oper 3), recirculates the packet with one QR per traversal,
then finalises and compares it (oper 4). A setup packet (oper 5) passes the
switch and makes the service set its global id and run
`optee_dra 1 <key> <id>` without waiting for it. In the experiments without a
switch, programs of `tools/` send setups, requests or prerecorded proofs, and
the x86 verifier answers each reply it captures with an `oper` 4 packet that holds
the proof received and the one `forro-args-dra2` computes. Every receiving
program gets its packets from `pcap_loop`. `setup.py` fills the switch's tables
and may be run again at any time.

**What is hard.** A verification is spread over 59 traversals of table-driven
stages with the state in the packet, interleaved with other packets; the
comparison is split between pipelines; the byte order is reversed in many
places. On the device a setup's writes run beside later packets, a session is
refused instead of queued, errors of children are not read, and the storage is
changed in six steps any of which may fail or be the last before power is lost.
Running `setup.py` again changes the tables rule by rule under packets in
recirculation. The x86 verifier pairs replies with keys by counting, a sender
reverses its table in place, and the capture ring is shared with the kernel
without a lock.
`PROJECT.json` lists these hazards with their lines.

**What makes each part correct.** Switch: it accepts exactly the proofs the TA
would compute, for every packet however they interleave, and every packet is
decided. TA and `optee_dra`: a WRITE reported as successful stays, proofs use
one device's key *and* id, nobody waits forever. Service: the id it announces
is the one it proves with once a setup was saved by itself, and whatever else it
sends can be told from a proof; it never hangs. Control plane: no intermediate table
contents attest a wrong reply, and packets caught by the change still leave.
x86 verifier: it compares a reply with the proof of that reply's device.
Capture: a bounded first-in first-out queue that forgets nothing.

## 2. Modules

| Module | What it is |
|---|---|
| `Forro` | Forro14 and `reply_proof` over an abstract word: a set with `Add`, `Xor`, `Rotl` and byte reversal, and the algebra the argument needs (`WordAssumption`). No RECURSIVE operators. |
| `Words32` | uint32_t as four bytes, for TLC (whose integers end at 2^31). |
| `P4Switch` | The packet program with the tables of `setup.py`. One variable, `pkt`; one action per traversal: `Chega` (arrival), `Ingress`, `Egress`. |
| `Verificador` | Abstract specification: a packet arrives and is decided once. |
| `ForroProofs`, `P4SwitchProofs` | TLAPS proofs about the cipher (the TA's and the command line's) and the switch. |
| `OpteeDra`, `OpteeDraProofs` | Persistent objects, the session and `optee_dra` processes. |
| `DraService`, `DraServiceProofs` | The service; EXTENDS `OpteeDra` and drives its processes, and its proofs use those of `OpteeDraProofs`. |
| `SwitchSetup`, `SwitchSetupProofs` | `setup.py` run on a switch in service, over an abstraction of the packet program. |
| `SwitchPronto`, `SwitchProntoProofs` | The mapping from `P4Switch` to `SwitchSetup` with complete tables, and the proof that the one implements the other: the abstraction is sound. |
| `ForroArgs` | `forro-args-dra` over the reference `forro.c`; that it computes what the TA does is proved in `ForroProofs`. |
| `Hexa` | Hexstrings and packet fields by value and byte order; proofs as terms. |
| `Experimento`, `ExperimentoProofs` | Senders, devices, capture queue and x86 verifier of the experiments. |
| `FilaCaptura` | Abstract specification of what the programs expect of `pcap_loop`: a bounded queue. |
| `Captura`, `CapturaProofs` | libpcap's TPACKET_V2 ring and the loop over it, shown to implement `FilaCaptura`. |
| `MCSwitch`, `MCSwitch32`, `MCOptee`, `MCService`, `MCSetup`, `MCCaptura`, `MCExperimento` | Instances for TLC. |

### How the models correspond to the code

*P4Switch.* A packet record holds the header fields the pipelines read, the
port and where the packet is (`rede`, `ingress`, `egress`, `saida`,
`descarte`). A QR action file is its operands and port (`i_qr0`, `e_qr1`, ...):
all eight files have the same twelve single-operation stages (`Estagio`), and
`Travessia` applies the twelve tables in order. Misses are modelled as declared:
in the ingress stage 0 does nothing and stages 1-11 fall to the actions of qr0
(which also count and choose port 68), in the egress nothing happens. The state
header becomes the cipher header and the proof behind it the payload when `fin`
changes `oper` to 4 and removes `forro_rodada`; `v` and `payload` stand for both.
`rodada` is 8 bits wide and wraps. `setup.py` gives the setup rule no port, so
`forward` uses the default 0, the client's port. The rules for `oper` 0 and 5
are installed for id 0, which is what the field of an unparsed header reads as.

*OpteeDra.* A process is a slot with a control point. Creating an object and
writing it are two steps (`cria`, `grava`) because they are two storage calls,
each atomic in OP-TEE's storage and each able to fail; power can be lost between
any two steps (`TAQueda`). `TA_FLAGS` has no `TA_FLAG_MULTI_SESSION`, so opening
a session while one is open fails and the process exits, as it does when there is
no context or the session fails for any other reason (`prepare_tee_session`).
READ prints an object that was never written from an uninitialised buffer
(`Lixo`). The TA's instance ends
with its session, which is why the `TEE_Free` calls commented out in
`reply_proof` accumulate nothing. A hexstring is a model value and a proof is the
triple (key, id, round) it was computed from. `gravado` is an auxiliary variable:
the arguments of the last WRITE that ended well.

*DraService.* `pcap_loop` calls the handler for one packet at a time. A request
blocks in `getline` until its child ends (`RecebePedido`, `Responde`); a setup
returns at once (`RecebeSetup`). Packets carry hexstrings with their words
reversed; `swapEndian` toggles that. Any request or setup of the instance may
arrive at any time, any number of times or never, which covers loss, duplication
and reordering. A child that had no session, for whatever reason, prints nothing on
stdout: what `getline` leaves is `Lixo`, never a proof. `popen` needs two
descriptors and keeps one, which `pclose` gives back; it returns NULL when they
are not there and may do so at any time, and then the service exits (`Morre`), as it
does when `socket` or `sendto` fails; and it dies when it must copy a NULL id.
`duvida` is auxiliary: the last setup was handled while the child of an earlier one
was alive, or its own child failed. The device is `Quieto` when there is no such
doubt and no setup is being saved; a reply carries, as an auxiliary field, whether
it was when the request came.

*SwitchSetup.* What is installed is a function of how far the script is: during
`clear_all` the old rules of the tables not yet reached, then the new rules up
to a position in the order the script adds them. A packet under computation
is the key it was loaded with and whether its state still is the TA's (`exato`):
`SwitchProntoProofs` shows that a traversal with all its rules keeps it so and
compares what `SwitchSetup` says it compares. A packet that misses any of its
stages is no longer counted as exact. The model is stricter there than the code:
the state may be right all the same, when the default action that runs instead is
the very one the rule would have run (at a rodada of qr0) or the missing action
would have added or XORed a zero. What it calls exact is exact, which is what the properties about attestation need. Otherwise misses
follow the declared default actions, as in `P4Switch`. The script may end in an exception after any
number of devices, and a run may bring a file with other keys.

*Captura.* From the return of `pcap_activate`: `pcap_setfilter_linux` (a
filter that lets nothing in, then the new one, then the backward walk that counts
the frames still to be filtered in user space), `pcap_loop`, the read of the
ring frame by frame, and the wait with its handling of `ENETDOWN`. The kernel
takes three steps for a packet, per processor: it runs the filter (`Chega`), takes the
next frame or counts a loss under the socket's lock (`Reserva`), and sets the
frame's status when the packet has been copied (`Publica`). Between the last two
the frame is neither free nor to be read (`Copiando`), and two processors may
publish in the other order. `poll` looks at the frame taken last, the library at its
own next one. Every error that ends the capture is there: of the filter's
installation (`SemFiltro`: the drain of the socket meets a pending `ENETDOWN`, or
`fcntl` or the detaching fails), of the wait (`EsperaFalha`) and a corrupted frame
(`TrataCorrompido`). Every handler of the repository looks at the Ethertype itself; the
packets that reach it although the filter rejects them are counted in `intrusos`.

*Experimento.* A program of the script of the instance (`Roteiros`) runs after
the other and may exit early. The data file has one record per line; programs
that reverse records do so in their own copy. `mac` computes the address from
the loop index in a byte arithmetic of base `Base`. The verifier's ring is the
queue of `FilaCaptura`: a packet stays in it while its handler runs, and one
that finds it full is lost. The verifier captures on the interface it sends
on, so setups, requests and its own packets pass through its ring too. The
bridge delivers a setup or request to the device with that address, and the
device's reply to the verifier (the `ebtables` rules printed for Experiment 1
accept frames toward the devices only; the model takes the way back as open,
as the rules of Experiment 2 make it). A device is the service of `DraService` with its children
reduced to outcomes: a setup sets the announced record at once (`disp`) and starts
a child (`filhos`) that ends some time later, in any order, having written,
changed nothing or emptied the storage (`Grava`, `guardado`); a request's child
prints the proof of what is stored, or nothing, and the service sends what it has;
it may exit at any packet (`mortos`). `forro-args-dra2`, too, may print nothing: the
verification sent is then `ProvaLixo`. `origem`, `reg` and `volta` are auxiliary
fields: who sent a reply, for which line, in which pass over the file.

## 3. Runs

| Run | Instance | Checks |
|---|---|---|
| `switch32` | 32-bit words, one packet, key/id/round/proof of `optee_dra/README-en.md`, and seven wrong proofs | `AceitaSoOVetorDoReadme`: model of TA, service, control plane and P4 agree bit by bit with the documented output |
| `switch_par` | 4-bit words, two packets interleaving | `TypeOK`, refinement `ImplementaVerificador` |
| `switch_palavras` | 4-bit words, 22 kinds of packet, one at a time | `SoAceitaProvaCorreta`, `SoDescartaProvaErrada`, `EstadoSegueProva`, `NenhumMiss`, liveness `TodoPacoteDecidido`, action property `TravessiasContadas`, refinement `ImplementaSetup` |
| `optee` | two process slots, two devices' data, one round, reads may fail | `TATypeOK`, `ConteudoGravado`, `EscritaExclusiva`, `SessaoTemDono`, `ProvaNaoMistura`, liveness `ProcessoTermina` |
| `optee_prova` | the same, reads do not fail | **violated**: `ProvaUsaOGravado` |
| `service` | two child slots, two setups' data, one round, three descriptors, any child and any read may fail | `TypeOK`, `RespostaExplicada`, `IdAcompanhaStorage`, liveness `ServicoNaoTrava` |
| `setup` | eight rodadas, 4-bit counter, two devices, one packet of nine kinds, `setup.py` run twice more | `TypeOK`, `SetupNaoAtestaErrado`, `SetupRestauraServico`, liveness `RecirculacaoTermina`, action property `RecirculacaoAvanca` |
| `captura` | ring of two frames, two processors, four packets, one failure of the interface, break after two packets | `TypeOK`, `PoucosIntrusos`, `DespertaExato`, refinement `ImplementaFila`, liveness `TodoQuadroSolto` |
| `captura_conta` | ring of three frames, two processors, five packets, `pcap_loop` with a count of three | `ContagemExata`, `PoucosIntrusos` |
| `experimentos` | file of four lines, table of two, MAC bytes of three values, two devices, ring of three, four scripts | `TypeOK`, `VeredictoExato`, `RespostasValidas`, `CadaUmComOSeu`, `FimNoTotal`, action property `RespostaNaoSome`, liveness `VerificadorTermina` |
| `experimento1` | one device asked for two rounds | **violated**: `VerificaODispositivo` |
| `experimento4` | proofs of the file sent with a 16-digit round | **violated**: `RespostasValidas` |

**Bounds and why they are enough.** *Words:* 4-bit words of two 2-bit bytes keep
addition, XOR, rotation (10, 27, 8 become 2, 3, 0 modulo 4) and byte reversal
distinct from each other; `switch32` uses the real width, and the theorems hold
for every word type. *Packets:* the program shares nothing between packets, so
two suffice to show interleaving; the proofs cover any number. *`Procs`:* two
slots allow a writer and a competitor, or two writers. *`MaxAbertos` = 3* lets a request follow one leaked
stream and puts exhaustion within reach after two. *Arguments:* two, so that old and new data differ.
*Setup:* eight rodadas and a 4-bit counter keep what matters: rules for less than
the counter's range, so that a packet that misses goes past them and wraps; two
clearing orders, each the other's reverse, stand for whatever `p4.info` returns;
three runs (`MaxSetups`) allow an aborted one before a complete one. *Ring:* two
processors publish two frames in either order, race each other for the last free one,
and fill a ring of two; four packets (`MaxChegadas`) go round it twice. With the
count, three frames tell full, empty and partly filled apart at every position and
five packets pass the count of three; there the interface does not fail (`MaxQuedas`
= 0), which the first run covers. *Experiments:* `Modulo` = 2 and five proofs
pass the table twice and begin a third pass; four setups with bytes of three
values carry into the next byte; a ring of three overflows; a device is asked
before its setup, after it and between two setups, with every outcome of the
children.

**Deadlock** checking is off where the system really ends: in the switch, setup,
capture and experiment runs the packets of the instance are finite and, once all
are decided or the programs have ended, nothing remains to do.

**Fairness.** `TASpec` and `DraService!Spec` assume weak fairness of each
child's steps and of the handler's continuation: the operating system schedules
runnable processes, and every TEE call returns. Nothing is assumed of arrivals,
restarts or the starting of processes. `FairSpec` of the switch assumes that a
packet in a pipeline is eventually processed, i.e. recirculation ports are not
overloaded; it is weak fairness of the traversals, written without ENABLED.
`SwitchSetup` adds that a script once started goes on (it may end in an
exception, and nobody has to run it again: `RecirculacaoTermina` speaks of tables
that end up complete). `Captura` assumes that the capturing thread is scheduled
and the kernel finishes what it began to receive (`Reserva`, `Publica`), and nothing of
failures, which may come at any time or never; `Experimento` assumes that the verifier
runs and its child ends; senders, devices and interfaces owe nothing.

**What the service promises.** Not that a reply is right: a child that fails by
itself, or loses the TA's only session to another, leaves the service with garbage to
send, and a setup whose child fails leaves it announcing the new id over the old key;
nobody reads either exit code. `RespostaExplicada` says what is left, with no
hypothesis: a reply is valid, or garbage, or the proof *for the round asked* of
another setup (or of an emptied object), the last only when the request came while the last setup was
in doubt. `IdAcompanhaStorage` says how doubt ends: one setup that is handled beside
no other and ends well, whatever requests run beside it. Both conditions are tight:
TLC shows a wrong id without either.

**Findings.** 1. `optee_prova` (source `dra_ta.c:149`): `create_raw_object` replaces
an object by an empty one and then writes it. When power is lost between the
two for the secrets object, `reply_proof` finds an object of size 0, accepts a
read of 0 bytes and proves with an all-zero key and id, while
`optee_dra/README-en.md:81` says "Request proof using written key and Device_id".

2. `experimento1` (`verifica_p4dra_rede.c:350`): the key is the one of the line
whose number is the count of replies handled, through a function named "search
by id"; Experiment 1 (`README-en.md:74-83`) asks one device a hundred times, and
from the second reply on the verification is another device's. `VeredictoExato`
says exactly when a verification that was computed agrees with the proof received.

3. `experimento4` (`envia_provas_arquivo.c:140`): the program reads a round of 32
digits (`:17`), `README-en.md:168` and `:179` give it 16. The second half of the
round is what follows the argument in memory, so that no proof of the file is
one for the round its packet names.

libpcap's own comment at `pcap-linux.c:4524` asks whether its count of frames
to filter again can miss a packet. TLC answers that it can, with a full ring, and
`PoucosIntrusos` bounds it by one per processor; the programs here are not
affected beyond a `le_provas_rede` that ends one packet early (`ContagemExata`).

## 4. Proofs

Every theorem holds for all values of the constants that satisfy the named
assumptions; TLC evaluates those on each run.

| Theorem | States | Module |
|---|---|---|
| `TipoCorreto` | `Spec => []TypeOK` | `P4SwitchProofs` |
| `SegueProva` | `Spec => []EstadoSegueProva` | |
| `Aceitacao` | `Spec => []SoAceitaProvaCorreta` | |
| `Descarte` | `Spec => []SoDescartaProvaErrada` | |
| `SemMiss` | `Spec => []NenhumMiss` | |
| `TravessiaPorTravessia` | `Spec => TravessiasContadas` | |
| `Refinamento` | `Spec => ImplementaVerificador` | |
| `ImplementaTabelas` | `Spec => ImplementaSetup` | `SwitchProntoProofs` |
| `LinhaDeComandoIgualTA` | `forro-args-dra2` prints the proof of `reply_proof` | `ForroProofs` |
| `TipoCorretoTA` | `TASpec => []TATypeOK` | `OpteeDraProofs` |
| `GravadoFica` | `TASpec => []ConteudoGravado` | |
| `EscritaSozinha` | `TASpec => []EscritaExclusiva` | |
| `SessaoSoDeVivos` | `TASpec => []SessaoTemDono` | |
| `ProvaDeUmPar` | `TASpec => []ProvaNaoMistura` | |
| `TipoCorretoServico` | `Spec => []TypeOK` | `DraServiceProofs` |
| `IdESecretsJuntos` | `Spec => []IdAcompanhaStorage` | |
| `RespostaSempreExplicada` | `Spec => []RespostaExplicada` | |
| `TipoCorretoSetup` | `Spec => []TypeOK` | `SwitchSetupProofs` |
| `SemAtestadoErrado` | `Spec => []SetupNaoAtestaErrado` | |
| `ServicoRestaurado` | `Spec => []SetupRestauraServico` | |
| `RecirculacaoProgride` | `Spec => RecirculacaoAvanca` | |
| `TipoCorretoCaptura` | `Spec => []TypeOK` | `CapturaProofs` |
| `AnelImplementaFila` | `Spec => ImplementaFila` | |
| `ContagemDoLaco` | `Quebra = 0 => (Spec => []ContagemExata)` | |
| `PoucosEscapam` | `Spec => []PoucosIntrusos` | |
| `PollAcorda` | `Spec => []DespertaExato` | |
| `TipoCorretoExperimento` | `Spec => []TypeOK` | `ExperimentoProofs` |
| `TerminaNoTotal` | `Spec => []FimNoTotal` | |
| `RespostasFicam` | `Spec => RespostaNaoSome` | |
| `CadaDispositivoSuaLinha` | `Spec => []CadaUmComOSeu` | |
| `RespostasSaoProvas` | `ProvasDaRodada => (Spec => []RespostasValidas)` | |
| `VeredictoPelaPosicao` | `ProvasDaRodada => (Spec => []VeredictoExato)` | |

### The switch

For every word type satisfying `WordAssumption`, every set of packets, devices,
keys and inputs satisfying `SwitchAssumption`.

`SoAceitaProvaCorreta` speaks only of packets that left; it is not inductive,
because it does not say why the words compared at the end are the TA's. The
inductive invariant is `IInv == TypeOK /\ EstadoSegueProva`: a packet that meets
rodada *r* holds the TA's state after *r-1* QRs of the initial state for its id
and round; one with `oper` 4 in the ingress holds the state after all 56; one
with `oper` 4 in the egress the finalised state, with words 5 to 15 already
equal to the proof. The argument:

1. `EstagiosSaoQ`, `DozeEhQR`: twelve table stages on five distinct words are one `Q`.
2. `TravessiaIngress`, `TravessiaEgress`: with a rule for the rodada, a traversal is that QR.
3. `ParcialPasso`: one QR takes the partial computation from *n* to *n+1*, across iterations.
4. `RegraDoDispositivo`, `EstadoCarregado`: what the control plane installs and
   the packet program loads is `EstadoInicial` of the TA (byte reversal is an involution).
5. `FinalizarEhForro`, `ComparaPalavras`: the recomputed initial state added at
   the end gives `forro`, and XOR with zero result means equal words.
6. `PassoTravessia` and `PassoChega` put these together per action, `NextIInv` per step.
7. `NextDecide`: each step maps to a step of `Verificador` or a stutter.
8. `Contada`, a part of what each `Passo` lemma shows: every traversal of a reply
   is one of the 59 between its arrival and its verdict.

The assumptions on the word are closure, commutativity of addition, that byte
reversal is an involution, that zero is neutral for XOR, and that XOR is zero
exactly for equal words. TLC evaluates them on the 4-bit words of `MCSwitch`.

`LinhaDeComandoIgualTA` is about pure functions: the reference `forro_keysetup`
writes the constant SIGMA into words 6, 7, 14 and 15, which `forro_versetup` then
overwrites, so whatever the context held the state entering the permutation is
`EstadoInicial`, and encrypting zeros returns the key stream. It assumes that the
message and configuration buffers, which the program never writes, are zero; in
the build they are, and `MCSwitch32` evaluates the program on the documented
vector with real words (`VetorNaLinhaDeComando`).

`SwitchSetup` replaces the words of a packet by whether its state is exact and
which groups of its proof are wrong. `ImplementaTabelas` justifies that: under
the mapping of `SwitchPronto` (a device is its line in the file, a state under
computation is exact if it is the TA's after as many QRs, a wrong word counts for
the table that compares it) every traversal of `P4Switch` is the traversal of
`SwitchSetup` with complete tables. Besides `IInv` it needs `Conversando`: a
packet in the switch carries an id and a round some host sent, so that the
mapping has the TA's states for it. `ProntoAssumption` says the file is finite
(and, for the provers, that 2^8 is 256). What `SwitchSetup` says of *missing*
rules has no counterpart in `P4Switch`, whose tables are always complete, and
rests on the reading of the default actions.

### The trusted application and the service

`ConteudoGravado` (what a WRITE reported stays) says nothing of a WRITE that is
half done, and the last of its steps is the one that sets `gravado`. `TAInd` adds
what each process has achieved: one between its six steps holds the session and
the objects it has saved already hold its argument (`JaGravou`); from its first
change on nothing counts as saved (`Alterando`); an open session belongs to a
process that is using it, and whoever is in the TA holds it (which is
`SessaoTemDono`: mutual exclusion, and no session lost by an exit that does not
close it; that the driver closes it when the process ends is OP-TEE's part).
`ProvaNaoMistura` needs that the secrets object itself
always holds the pair of one WRITE, or zeros (`Par`): key and id are in *one*
object, written in one call. The step lemmas are about `Passo`, `TAQueda` and the
start of a process, not about `TASpec`, so that `DraServiceProofs` reuses them
for the children of the service.

The invariant of the service is `TAInd` and: it waits for the child it started,
for the round asked, and what that child prints is garbage or a proof of that round
(`EsperaFilho`); every other live child is of a setup (`SoUmPedido`); while there is
no `duvida`, at most one child writes, and it writes the id announced (`EscritorSo`);
`IdAcompanhaStorage` itself; and a request that came when the device was quiet has a
child beside which nobody writes, on a storage that holds the announced pair
(`PedidoQuieto`: the service handles no packet while it waits, so no setup can start).
`EfeitoDePasso` is the interface to the TA: whichever step a child takes, only its own
process moves, only a WRITE changes the storage, and a REQUEST ends with an error,
garbage or the proof. `RespostaExplicada` then is about one action, `Responde`.
`HexAssumption` says that the instance's keys, ids and rounds are hexstrings, so that
two reversals cancel.

### setup.py on a switch in service

`Seguro` is what holds of a packet whatever is missing in the tables: only a
packet with an intact proof of the key it was loaded with can be in the egress
with `oper` 4 and an exact state, or leave. `EmServico` is what holds of one that
met complete tables only: its state is exact, its key is that of the file in use,
its rodada is odd in the ingress and even in the egress, and if it was dropped
it was not a right reply. That second part is what makes
`SetupRestauraServico` inductive. `RecirculacaoAvanca` needs only what
`PacoteOK` says of a packet by itself: its measure is twice
the distance of the counter to the fin rule, counted around its width, since a
packet that missed may have to wrap, and an egress traversal that finds no rule
does not count up but the next ingress one does. `SetupAssumption` says that the rodadas fit the
counter and the devices are numbered; it repeats `2^LarguraRodada \in Nat`, which
the provers cannot compute. `EntradasAssumption` bounds what hosts send.

### The capture

One invariant for the ring, two more on top of it. `Ind`: the frames taken and not
given back are an interval of the ring from the library's position to the kernel's
(`AnelOK`), the frame in the handler is not free, a processor copies into a frame it
has taken and the library does not work on (`CopiaOK`), and after `pcap_breakloop`
the handler is not called again. The refinement maps that interval, read in order,
to the queue: taking a frame is an arrival, finding the ring full a loss, the
call of the handler the delivery, giving the frame back the removal, and every
other step, the publication of a frame included, stutters: a queue whose head is not
published yet is one that does not deliver yet.
`IndConta` relates the calls of the handler, the count still to go and the calls
of the current read, control point by control point; the hypothesis
`Quebra = 0` is the handler of `le_provas_rede`, which never breaks the loop.
`IndIntrusos` has three phases (before the change of filter, filter refused by
the kernel, filter taken); in the last the intruders handled, the processors that
hold or copy a packet let in under the old filter (`Velhos`) and the published frames
with such a packet that will not be filtered again (`Escapados`) are together at most
the number of processors (`Limite`). There is one exception: a walk that began on a
full ring passes only frames that are being copied, while the frame behind which it
began may hold an old packet (`Lotado`, with `Ativos` and `Andados`); as the library takes
one off the frames it passed, the last of them is filtered again, and the processor
that was copying into it pays for that packet (`FimDoPasso`). `DespertaExato` follows
from `Ind`: the frame taken last and the library's next are the two ends of an
interval of frames that are not free, so one is free exactly when the other is
(`UltimoOcupado`), and a frame that is neither free nor readable is being copied.
`CapturaAssumption` asks for finitely many processors and that a frame number is not
the value for none.

### The experiments

`Ind` writes everything that travels as a function of the line of the file it is
about: setups (`SetupDe`), configurations (`CfgDe`), replies of the file after *w*
passes (`DoArquivo`) and of a device (`DoDisp`, with one of the proofs `ProvasDisp`: its
record's, an empty storage's, or garbage), verifications
(`Verificacao`, with the number of the reply, computed or garbage). `DadosOK` says how often each
record has been reversed by the running program (`Passagens`), `GuardaOK` that what a
device stores, and what its children are about to, is of its own line, `VerifOK` that the
count of replies is the length of the output and the reply under verification is
still the head of the ring. `CadaUmComOSeu` then is arithmetic: `MacDaLinha`
shows that below `Base`^3 lines the address of device *i* is that of line *i-1*
alone, so late or failing children of one device can mix no two records.
`RespostaNaoSome` counts: `NoAnelChega` and `NoAnelSai` say what an
arrival and a removal do to the number of replies in the ring.
The verdict follows from `RespostaDaLinha` and from proofs of different
inputs being different terms (`ProvaNomeiaChave`). `ExperimentoAssumption` bounds the file (the
programs' `ID_MAX` is far below 256^3), and `RoteirosAssumption` says that a
setup has a line for every packet and a round is a hexstring.
`ProvasDaRodada`, the hypothesis of the last two theorems, is that
`envia_provas_arquivo` is given the round the file was computed for; it holds for
the scripts of `experimentos` and fails for that of `experimento4`, where
`RespostasValidas` is violated.

**Only model-checked.** The liveness properties `TodoPacoteDecidido`,
`ProcessoTermina`, `ServicoNaoTrava`, `RecirculacaoTermina`, `TodoQuadroSolto`
and `VerificadorTermina`: fairness is out of the prover's reach. For four of them
the step argument is proved and only the appeal to fairness is left to TLC:
`TravessiasContadas` and `RecirculacaoAvanca` (a measure goes down with every
traversal), `DespertaExato` (the library sleeps on a packet only while a publication is to come),
`RespostaNaoSome` (no reply is lost on its way to the count). The agreement with
the documented test vector (`AceitaSoOVetorDoReadme`), which is a computation on
one input. The three violated properties.

## 5. Not modelled

- Packets whose `oper` is 3 or 4 when they come from a host, foreign ethertypes
  and malformed lengths: the inputs are what the repository's programs send.
- Fixed-size buffers without terminator passed to `strlen` (`host/main.c:162`,
  `dra_ta.c:48`): the model takes the intended lengths.
- `host/main.c:311` lacks a semicolon and does not compile as committed; it is
  read as if it had one.
- `delete_object`: no program calls it.
- Memory never freed: buffers of one packet in `packet_handler` (`dra_service/host/main.c:192`,
  `:224`), the line `getline` returns in the verifier (`verifica_p4dra_rede.c:369`).
- Congestion loss in the switch.
- Captures by other stations: the service captures in promiscuous mode and does
  not look at the destination; each run has one device.
- `envia_provas` and `envia_configuracoes_arquivo` (an older layout with an 8-byte
  round that no program here reads), `envia_pacotes_pcap` (replays a capture
  file), `le_p4dra_rede` and `le_provas_arquivo` (print what they read),
  `le_provas_rede` beyond its counted loop (it times verifications and discards them),
  `forro-args.c` (a demonstration), the time measurements of the verifier.
- Scripts, container and data: no protocol state.
- Most of the vendored libpcap. About 82 000 of the repository's 89 000 lines of C
  are that library: the filter compiler and optimiser, capture on other systems
  and devices, remote capture, savefiles, generated parsers. The programs here
  use one path through it, which `Captura` models; the rest is unreachable from
  them or pure translation of a fixed filter string, so modelling it would say
  nothing about P4DRA. Of the repository's own 7 200 lines the map names about
  2 800 (what is left is mainly declarations, printing, repeated helper functions
  and the programs listed above); counted with the library the share is small.

## 6. Plan

Done: all modules of section 2, and a theorem for every safety property and
every action property the passing runs check, but for the test vector. Left:

1. Measures for `ProcessoTermina`, `ServicoNaoTrava` and the whole of
   `TodoQuadroSolto`, as the switch has them.
2. A packet program on words with incomplete tables, to prove what `SwitchSetup`
   takes from the declared default actions.
3. `delete_object`, if a program comes to call it.
