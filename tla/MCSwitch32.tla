----------------------------- MODULE MCSwitch32 -----------------------------
(***************************************************************************)
(* The switch on 32-bit words, with the device and the proof of the test   *)
(* vector of optee_dra's README-en.md: the numbers are that file's         *)
(* hexstrings, four bytes to a word.                                       *)
(***************************************************************************)
EXTENDS Words32, Sequences

CONSTANT Pacotes

VARIABLE pkt

\* A sequence of n words as a function from 0.
Palavras(s) == [i \in 0..(Len(s) - 1) |-> s[i + 1]]

w1234 == <<49, 50, 51, 52>>
w5678 == <<53, 54, 55, 56>>

ChaveReadme ==
  Palavras(<<w1234, w5678, <<57, 48, 49, 50>>, <<51, 52, 53, 54>>,
             <<55, 56, 57, 48>>, w1234, w5678, <<57, 48, 49, 50>>>>)

IdReadme == Palavras(<<w1234, w5678, <<57, 48, 49, 50>>, <<51, 52, 53, 54>>>>)

RidReadme == Palavras(<<w1234, w5678, w1234, w5678>>)

\* ef38e2df ffe258d3 1856116a 1bedcb35 a6caea99 f859ac96 4f853e8a efd7832f
\* 8116ab97 b37ea2a4 9cd9c4ec 3874e565 4c31cc05 e7f0760b 72139103 3314d2e4
ProvaReadme ==
  Palavras(<<<<239, 56, 226, 223>>, <<255, 226, 88, 211>>,
             <<24, 86, 17, 106>>, <<27, 237, 203, 53>>,
             <<166, 202, 234, 153>>, <<248, 89, 172, 150>>,
             <<79, 133, 62, 138>>, <<239, 215, 131, 47>>,
             <<129, 22, 171, 151>>, <<179, 126, 162, 164>>,
             <<156, 217, 196, 236>>, <<56, 116, 229, 101>>,
             <<76, 49, 204, 5>>, <<231, 240, 118, 11>>,
             <<114, 19, 145, 3>>, <<51, 20, 210, 228>>>>)

\* envia_pacote_resposta: every field goes out byte-reversed.
Swap(f) == [i \in DOMAIN f |-> Inv32(f[i])]

Resposta(prova) ==
  [oper |-> 2, rid |-> Swap(RidReadme), id |-> Swap(IdReadme), payload |-> Swap(prova)]

\* The README's reply; the same with one bit of the first or last word of each
\* comparison group flipped; and one never swapped to the packet's byte order.
Entradas32 ==
  {Resposta(ProvaReadme)} \union
  {Resposta([ProvaReadme EXCEPT ![i] = Xor32(@, <<0, 0, 0, 1>>)]) : i \in {0, 4, 5, 8, 12, 15}}
  \union {[Resposta(ProvaReadme) EXCEPT !.payload = ProvaReadme]}

INSTANCE P4Switch WITH
  Word <- Word32, Zero <- Zero32, Add <- Add32, Xor <- Xor32, Rotl <- Rotl32,
  Inv <- Inv32, Entradas <- Entradas32, Dispositivos <- {IdReadme},
  Chave <- [d \in {IdReadme} |-> ChaveReadme]

\* The command line program on the same vector: README-en.md's proof is what it
\* prints when the memory it never writes is zero, whatever its stack held.
Args == INSTANCE ForroArgs WITH
  Word <- Word32, Zero <- Zero32, Add <- Add32, Xor <- Xor32, Rotl <- Rotl32, Inv <- Inv32

ASSUME VetorNaLinhaDeComando ==
  \A w \in {w1234, w5678} :
    Args!forro_args_dra([i \in 0..15 |-> w], [i \in 0..15 |-> Zero32], [i \in 0..7 |-> Zero32],
                        [j \in 0..3 |-> w], ChaveReadme,
                        [j \in 0..1 |-> RidReadme[j + 2]], [j \in 0..1 |-> RidReadme[j]],
                        IdReadme) = ProvaReadme

(* The switch accepts exactly the proof README-en.md prints: a reply with    *)
(* that proof leaves by the CPU port, and nothing else does.                *)
AceitaSoOVetorDoReadme ==
  \A p \in Pacotes :
    /\ pkt[p].lugar = "saida" => pkt[p].payload = Swap(ProvaReadme)
    /\ pkt[p].lugar = "descarte" => pkt[p].payload # Swap(ProvaReadme)
=============================================================================
