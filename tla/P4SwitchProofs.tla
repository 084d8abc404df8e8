--------------------------- MODULE P4SwitchProofs ---------------------------
(***************************************************************************)
(* The switch accepts a reply if and only if it carries the proof of the   *)
(* registered device's trusted application, for every word algebra, every  *)
(* set of packets, devices and keys.                                       *)
(***************************************************************************)
EXTENDS ForroProofs

\* Reversing the bytes of every word twice changes nothing.
LEMMA InverteInvolucao ==
  ASSUME NEW S, NEW f \in [S -> Word]
  PROVE  Inverte(f) \in [S -> Word] /\ Inverte(Inverte(f)) = f
<1>1. DOMAIN f = S /\ \A x \in S : f[x] \in Word
  OBVIOUS
<1>2. Inverte(f) = [x \in S |-> Inv(f[x])]
  BY <1>1 DEF Inverte
<1>3. Inverte(f) \in [S -> Word]
  BY <1>1, <1>2, WordAssumption
<1>4. Inverte(Inverte(f)) = [x \in S |-> Inv(Inv(f[x]))]
  BY <1>2 DEF Inverte
<1>5. \A x \in S : Inv(Inv(f[x])) = f[x]
  BY <1>1, WordAssumption
<1> QED
  BY <1>3, <1>4, <1>5

\* A packet's id hits the device tables exactly when setup.py read it from the
\* file, and the hit is the rule of that device.
LEMMA RegraDoDispositivo ==
  ASSUME NEW id \in Id
  PROVE  /\ Casa(id) <=> Registrado(id)
         /\ Registrado(id) =>
              Regra(id) = [id |-> id, key |-> Inverte(Chave[Inverte(id)]),
                           conf |-> conf_param(id)]
<1> DEFINE R(d) == [id |-> Inverte(d), key |-> Inverte(Chave[d]),
                    conf |-> conf_param(Inverte(d))]
<1>1. Inverte(id) \in Id /\ Inverte(Inverte(id)) = id
  BY InverteInvolucao DEF Id
<1>2. RegrasDispositivos = {R(d) : d \in Dispositivos}
  BY DEF RegrasDispositivos
<1>3. ASSUME NEW d \in Dispositivos, R(d).id = id
      PROVE  d = Inverte(id)
  <2>1. d \in [0..3 -> Word]
    BY SwitchAssumption DEF Id
  <2>2. Inverte(Inverte(d)) = d
    BY <2>1, InverteInvolucao
  <2> QED
    BY <1>3, <2>2
<1>4. Casa(id) <=> \E d \in Dispositivos : R(d).id = id
  BY <1>2 DEF Casa
<1>5. Casa(id) <=> Registrado(id)
  BY <1>1, <1>3, <1>4 DEF Registrado
<1>6. ASSUME Registrado(id)
      PROVE  Regra(id) = R(Inverte(id))
  <2>1. R(Inverte(id)) \in RegrasDispositivos /\ R(Inverte(id)).id = id
    BY <1>1, <1>2, <1>6 DEF Registrado
  <2>2. ASSUME NEW t \in RegrasDispositivos, t.id = id
        PROVE  t = R(Inverte(id))
    <3>1. PICK d \in Dispositivos : t = R(d)
      BY <1>2
    <3> QED
      BY <1>3, <2>2, <3>1
  <2> HIDE DEF R
  <2> QED
    BY <2>1, <2>2 DEF Regra
<1> QED
  BY <1>1, <1>5, <1>6

\* The words the switch loads for a reply, and loads again to finalise it.
LEMMA EstadoCarregado ==
  ASSUME NEW pk \in Pkt, Registrado(pk.id)
  PROVE  /\ Ini(pk) \in Estado
         /\ carregar_estado(Regra(pk.id), pk.rid) = Ini(pk)
<1> DEFINE d == Inverte(pk.id)
           k == Chave[d]
           r == Inverte(pk.rid)
           t == Regra(pk.id)
<1>1. pk.id \in [0..3 -> Word] /\ pk.rid \in [0..3 -> Word]
  BY DEF Pkt, Id, Rid
<1>2. d \in [0..3 -> Word] /\ r \in [0..3 -> Word]
  BY <1>1, InverteInvolucao
<1>3. k \in [0..7 -> Word]
  BY SwitchAssumption DEF Registrado
<1>4. /\ \A j \in 0..7 : t.key[j] = Inv(k[j])
      /\ t.conf = conf_param(pk.id)
  BY <1>3, RegraDoDispositivo, <1>1 DEF Inverte, Id
<1>5. \A j \in 0..3 : d[j] = Inv(pk.id[j]) /\ r[j] = Inv(pk.rid[j])
  BY <1>1 DEF Inverte
<1>6. /\ t.conf[0] = Zero /\ t.conf[1] = Zero /\ t.conf[4] = Zero /\ t.conf[5] = Zero
      /\ t.conf[2] = pk.id[0] /\ t.conf[3] = pk.id[1]
      /\ t.conf[6] = pk.id[2] /\ t.conf[7] = pk.id[3]
  <2>1. ASSUME NEW j \in 0..7, j \notin 2..3, j \notin 6..7
        PROVE  t.conf[j] = Xor(Zero, Zero)
    BY <1>4, <2>1 DEF conf_param
  <2>2. ASSUME NEW j \in 2..3 PROVE t.conf[j] = Xor(Zero, pk.id[j - 2])
    BY <1>4 DEF conf_param
  <2>3. ASSUME NEW j \in 6..7 PROVE t.conf[j] = Xor(Zero, pk.id[j - 4])
    BY <1>4 DEF conf_param
  <2> HIDE DEF t
  <2>4. \A j \in {0, 1, 4, 5} : t.conf[j] = Xor(Zero, Zero)
    BY <2>1
  <2>5. Xor(Zero, Zero) = Zero /\ \A j \in 0..3 : Xor(Zero, pk.id[j]) = pk.id[j]
    BY <1>1, WordAssumption
  <2>6. t.conf[0] = Zero /\ t.conf[1] = Zero /\ t.conf[4] = Zero /\ t.conf[5] = Zero
    BY <2>4, <2>5
  <2>7. t.conf[2] = Xor(Zero, pk.id[0]) /\ t.conf[3] = Xor(Zero, pk.id[1])
    BY <2>2
  <2>8. t.conf[6] = Xor(Zero, pk.id[2]) /\ t.conf[7] = Xor(Zero, pk.id[3])
    BY <2>3
  <2> QED
    BY <2>5, <2>6, <2>7, <2>8
<1> DEFINE I == Ini(pk)
           C == carregar_estado(t, pk.rid)
<1>7. /\ I = forro_setup(k, [j \in 0..3 |-> Xor(r[j], Zero)], [j \in 0..3 |-> Xor(d[j], Zero)])
      /\ \A j \in 0..3 : Xor(r[j], Zero) = Inv(pk.rid[j]) /\ Xor(d[j], Zero) = Inv(pk.id[j])
  BY <1>2, <1>5, WordAssumption DEF Ini, EstadoInicial
<1> HIDE DEF I, C, d, r, k, t
<1>8. /\ \A i \in 0..3   : I[i] = Inv(k[i])
      /\ \A i \in 4..5   : I[i] = pk.rid[i - 4]
      /\ \A i \in 6..7   : I[i] = pk.id[i - 6]
      /\ \A i \in 8..11  : I[i] = Inv(k[i - 4])
      /\ \A i \in 12..13 : I[i] = pk.rid[i - 10]
      /\ \A i \in 14..15 : I[i] = pk.id[i - 12]
      /\ I = [i \in 0..15 |-> I[i]]
  <2>1. ASSUME NEW i \in 0..3 PROVE I[i] = Inv(k[i])
    BY <1>7 DEF forro_setup
  <2>2. ASSUME NEW i \in 4..5 PROVE I[i] = Inv(Inv(pk.rid[i - 4]))
    BY <1>7 DEF forro_setup
  <2>3. ASSUME NEW i \in 6..7 PROVE I[i] = Inv(Inv(pk.id[i - 6]))
    BY <1>7 DEF forro_setup
  <2>4. ASSUME NEW i \in 8..11 PROVE I[i] = Inv(k[i - 4])
    BY <1>7 DEF forro_setup
  <2>5. ASSUME NEW i \in 12..13 PROVE I[i] = Inv(Inv(pk.rid[i - 10]))
    BY <1>7 DEF forro_setup
  <2>6. ASSUME NEW i \in 14..15 PROVE I[i] = Inv(Inv(pk.id[i - 12]))
    BY <1>7 DEF forro_setup
  <2>7. I = [i \in 0..15 |-> I[i]]
    BY <1>7 DEF forro_setup
  <2>8. \A j \in 0..3 : Inv(Inv(pk.rid[j])) = pk.rid[j] /\ Inv(Inv(pk.id[j])) = pk.id[j]
    BY <1>1, WordAssumption
  <2>9. \A i \in 4..5 : I[i] = pk.rid[i - 4]
    BY <2>2, <2>8
  <2>10. \A i \in 6..7 : I[i] = pk.id[i - 6]
    BY <2>3, <2>8
  <2>11. \A i \in 12..13 : I[i] = pk.rid[i - 10]
    BY <2>5, <2>8
  <2>12. \A i \in 14..15 : I[i] = pk.id[i - 12]
    BY <2>6, <2>8
  <2> QED
    BY <2>1, <2>4, <2>7, <2>9, <2>10, <2>11, <2>12
<1>9. /\ \A i \in 0..3   : C[i] = Inv(k[i])
      /\ \A i \in 4..5   : C[i] = pk.rid[i - 4]
      /\ \A i \in 6..7   : C[i] = pk.id[i - 6]
      /\ \A i \in 8..11  : C[i] = Inv(k[i - 4])
      /\ \A i \in 12..13 : C[i] = pk.rid[i - 10]
      /\ \A i \in 14..15 : C[i] = pk.id[i - 12]
      /\ C = [i \in 0..15 |-> C[i]]
  <2>1. ASSUME NEW i \in 0..3 PROVE C[i] = t.key[i]
    BY DEF C, carregar_estado
  <2>2. ASSUME NEW i \in 4..5 PROVE C[i] = Xor(t.conf[i - 4], pk.rid[i - 4])
    BY DEF C, carregar_estado
  <2>3. ASSUME NEW i \in 6..7 PROVE C[i] = t.conf[i - 4]
    BY DEF C, carregar_estado
  <2>4. ASSUME NEW i \in 8..11 PROVE C[i] = t.key[i - 4]
    BY DEF C, carregar_estado
  <2>5. ASSUME NEW i \in 12..13 PROVE C[i] = Xor(t.conf[i - 8], pk.rid[i - 10])
    BY DEF C, carregar_estado
  <2>6. ASSUME NEW i \in 14..15 PROVE C[i] = t.conf[i - 8]
    BY DEF C, carregar_estado
  <2>7. C = [i \in 0..15 |-> C[i]]
    BY DEF C, carregar_estado
  <2>8. \A j \in 0..3 : Xor(Zero, pk.rid[j]) = pk.rid[j]
    BY <1>1, WordAssumption
  <2>9. \A i \in 0..3 : C[i] = Inv(k[i])
    BY <1>4, <2>1
  <2>10. \A i \in 8..11 : C[i] = Inv(k[i - 4])
    BY <1>4, <2>4
  <2>11. \A i \in 4..5 : C[i] = pk.rid[i - 4]
    <3>1. C[4] = pk.rid[0] /\ C[5] = pk.rid[1]
      BY <1>6, <2>2, <2>8
    <3> QED
      BY <3>1
  <2>12. \A i \in 12..13 : C[i] = pk.rid[i - 10]
    <3>1. C[12] = pk.rid[2] /\ C[13] = pk.rid[3]
      BY <1>6, <2>5, <2>8
    <3> QED
      BY <3>1
  <2>13. \A i \in 6..7 : C[i] = pk.id[i - 6]
    <3>1. C[6] = pk.id[0] /\ C[7] = pk.id[1]
      BY <1>6, <2>3
    <3> QED
      BY <3>1
  <2>14. \A i \in 14..15 : C[i] = pk.id[i - 12]
    <3>1. C[14] = pk.id[2] /\ C[15] = pk.id[3]
      BY <1>6, <2>6
    <3> QED
      BY <3>1
  <2> QED
    BY <2>7, <2>9, <2>10, <2>11, <2>12, <2>13, <2>14
<1>10. \A i \in 0..15 : I[i] \in Word /\ C[i] = I[i]
  <2>1. \A j \in 0..7 : Inv(k[j]) \in Word
    BY <1>3, WordAssumption
  <2>2. \A i \in 0..15 : C[i] = I[i]
    BY <1>8, <1>9
  <2>3. /\ \A i \in 0..3 : I[i] \in Word
        /\ \A i \in 8..11 : I[i] \in Word
    BY <1>8, <2>1
  <2>4. /\ \A i \in 4..7 : I[i] \in Word
        /\ \A i \in 12..15 : I[i] \in Word
    BY <1>1, <1>8
  <2> QED
    BY <2>2, <2>3, <2>4
<1>11. I \in Estado /\ C = I
  BY <1>8, <1>9, <1>10 DEF Estado
<1> QED
  BY <1>11 DEF I, C, t
\* Finalising the permuted state yields the words of forro().
LEMMA FinalizarEhForro ==
  ASSUME NEW pk \in Pkt, Registrado(pk.id), pk.v = Iteracoes(rounds, Ini(pk))
  PROVE  finalizar_forro(pk) = forro(Ini(pk))
<1> DEFINE t == Regra(pk.id)
           C == carregar_estado(t, pk.rid)
           F == finalizar_forro(pk)
<1>1. pk.id \in Id /\ pk.v \in Estado
  BY DEF Pkt
<1>2. Casa(pk.id)
  BY <1>1, RegraDoDispositivo
<1>3. F = [i \in 0..15 |-> F[i]]
  BY <1>2 DEF finalizar_forro
<1>4. \A i \in 0..15 : F[i] = Add(pk.v[i], C[i])
  <2>1. ASSUME NEW i \in 0..3 PROVE F[i] = Add(pk.v[i], C[i])
    <3>1. C[i] = t.key[i]
      BY DEF carregar_estado
    <3> QED
      BY <1>2, <3>1 DEF finalizar_forro
  <2>2. ASSUME NEW i \in 8..11 PROVE F[i] = Add(pk.v[i], C[i])
    <3>1. C[i] = t.key[i - 4]
      BY DEF carregar_estado
    <3> QED
      BY <1>2, <3>1 DEF finalizar_forro
  <2>3. ASSUME NEW i \in 6..7 PROVE F[i] = Add(pk.v[i], C[i])
    <3>1. C[i] = t.conf[i - 4]
      BY DEF carregar_estado
    <3> QED
      BY <1>2, <3>1 DEF finalizar_forro
  <2>4. ASSUME NEW i \in 14..15 PROVE F[i] = Add(pk.v[i], C[i])
    <3>1. C[i] = t.conf[i - 8]
      BY DEF carregar_estado
    <3> QED
      BY <1>2, <3>1 DEF finalizar_forro
  <2>5. F[4] = Add(pk.v[4], C[4]) /\ F[5] = Add(pk.v[5], C[5])
    <3>1. C[4] = Xor(t.conf[0], pk.rid[0]) /\ C[5] = Xor(t.conf[1], pk.rid[1])
      BY DEF carregar_estado
    <3>2. F[4] = Add(pk.v[4], Xor(t.conf[0], pk.rid[0]))
      BY <1>2 DEF finalizar_forro
    <3>3. F[5] = Add(pk.v[5], Xor(t.conf[1], pk.rid[1]))
      BY <1>2 DEF finalizar_forro
    <3> QED
      BY <3>1, <3>2, <3>3
  <2>6. F[12] = Add(pk.v[12], C[12]) /\ F[13] = Add(pk.v[13], C[13])
    <3>1. C[12] = Xor(t.conf[4], pk.rid[2]) /\ C[13] = Xor(t.conf[5], pk.rid[3])
      BY DEF carregar_estado
    <3>2. F[12] = Add(pk.v[12], Xor(t.conf[4], pk.rid[2]))
      BY <1>2 DEF finalizar_forro
    <3>3. F[13] = Add(pk.v[13], Xor(t.conf[5], pk.rid[3]))
      BY <1>2 DEF finalizar_forro
    <3> QED
      BY <3>1, <3>2, <3>3
  <2> HIDE DEF F, C
  <2> QED
    BY <2>1, <2>2, <2>3, <2>4, <2>5, <2>6
<1>5. C = Ini(pk) /\ Ini(pk) \in Estado
  BY EstadoCarregado
<1> HIDE DEF F, C
<1>6. forro(Ini(pk)) = [i \in 0..15 |-> Add(C[i], pk.v[i])]
  BY <1>5 DEF forro
<1>7. \A i \in 0..15 : Add(pk.v[i], C[i]) = Add(C[i], pk.v[i])
  BY <1>1, <1>5, WordAssumption DEF Estado
<1>8. F = forro(Ini(pk))
  BY <1>3, <1>4, <1>6, <1>7
<1> QED
  BY <1>8 DEF F

\* The expected proof, in packet order, is forro() of the initial state.
LEMMA ProvaEsperadaEhForro ==
  ASSUME NEW pk \in Pkt, Registrado(pk.id)
  PROVE  ProvaEsperada(pk.id, pk.rid) = forro(Ini(pk))
<1>1. forro(Ini(pk)) \in [0..15 -> Word]
  BY EstadoCarregado, ForroType DEF Estado
<1>2. ProvaEsperada(pk.id, pk.rid) = Inverte(Inverte(forro(Ini(pk))))
  BY DEF ProvaEsperada, Prova, Ini
<1> QED
  BY <1>1, <1>2, InverteInvolucao

\* The comparison of a group of words is an equality of the words.
LEMMA ComparaPalavras ==
  ASSUME NEW v \in Estado, NEW w \in Estado
  PROVE  /\ verifica_ingress(v, w) <=> \A i \in 5..15 : v[i] = w[i]
         /\ verifica_egress(v, w) <=> \A i \in 0..4 : v[i] = w[i]
<1>1. \A i \in 0..15 : Xor(v[i], w[i]) = Zero <=> v[i] = w[i]
  BY WordAssumption DEF Estado
<1>2. verifica_egress(v, w) <=> \A i \in 0..4 : v[i] = w[i]
  BY <1>1 DEF verifica_egress
<1>3. verifica_ingress(v, w) <=> \A i \in 5..15 : v[i] = w[i]
  BY <1>1 DEF verifica_ingress
<1> QED
  BY <1>2, <1>3
-----------------------------------------------------------------------------
(***************************************************************************)
(* What one traversal does to one packet.  Passo says that the packet      *)
(* stays well-formed and keeps the invariant, that nothing a verdict       *)
(* depends on changes, and that the traversal is one of those counted.     *)
(***************************************************************************)
Contada(pk, q) == \/ Restantes(q) = Restantes(pk) - 1
                  \/ pk.oper = 4 /\ q.lugar = "descarte"

Passo(pk, q) ==
  /\ q \in Pkt /\ InvPkt(q)
  /\ q.id = pk.id /\ q.rid = pk.rid /\ q.payload = pk.payload
  /\ OperDeChegada(q) = OperDeChegada(pk)
  /\ q.lugar # "rede" /\ Contada(pk, q)

\* One QR in the ingress.
LEMMA PassoIngressForro ==
  ASSUME NEW pk \in Pkt, pk.lugar = "ingress", EmCalculo(pk), pk.rodada \in RegrasIngress
  PROVE  Passo(pk, IngressForro(pk))
<1> DEFINE q == IngressForro(pk)
           r == pk.rodada
           w == Travessia(tbl_forro_ig, r, pk.v)
<1>1. r \in 1..56 /\ r % 2 = 1
  BY DEF RegrasIngress, total_rodadas
<1>2. r \in 1..55 /\ (r + 1) % 256 = r + 1 /\ r + 1 \in RegrasEgress
  BY <1>1 DEF RegrasEgress, total_rodadas
<1>3. Registrado(pk.id) /\ pk.oper = 3 /\ pk.v = Parcial(r - 1, Ini(pk))
  BY DEF EmCalculo
<1>4. pk.v \in Estado /\ Ini(pk) \in Estado
  BY <1>3, EstadoCarregado DEF Pkt
<1>5. w = QR((r - 1) % 8, pk.v)
  BY <1>4, TravessiaIngress
<1>6. w = Parcial(r, Ini(pk)) /\ w \in Estado
  <2>1. r - 1 \in 0..55 /\ (r - 1) + 1 = r /\ (r - 1) % 8 \in 0..7
    BY <1>2
  <2>2. w \in Estado
    BY <1>4, <1>5, <2>1, QRType
  <2> QED
    BY <1>3, <1>4, <1>5, <2>1, <2>2, ParcialPasso
<1>n. PICK n \in 0..255 : n = r + 1
  BY <1>2
<1>7. PICK pt \in Portas :
        q = [pk EXCEPT !.v = w, !.rodada = n, !.porta = pt, !.lugar = "egress"]
  <2>1. QRdaRodada(r).porta \in Portas
    <3>1. PICK m \in 0..7 : m = (r - 1) % 8
      BY <1>1
    <3>2. m = 0 \/ m = 2 \/ m = 4 \/ m = 6
      BY <1>1, <3>1
    <3>3. AcoesQR[m + 1].porta \in {68, 196}
      BY <3>2 DEF AcoesQR, i_qr0, i_qr2, i_qr4, i_qr6, e_qr1, e_qr3, e_qr5, e_qr7
    <3> QED
      BY <3>1, <3>3 DEF QRdaRodada, Portas, Recirculacao
  <2> HIDE DEF w
  <2> QED
    BY <1>2, <1>n, <2>1 DEF IngressForro, w
<1> HIDE DEF q, w
<1>8. /\ q.v = w /\ q.rodada = r + 1 /\ q.lugar = "egress" /\ q.oper = 3
      /\ q.id = pk.id /\ q.rid = pk.rid /\ q.payload = pk.payload
  BY <1>3, <1>7, <1>n DEF Pkt
<1>9. q \in Pkt
  BY <1>6, <1>7 DEF Pkt
<1>10. Ini(q) = Ini(pk)
  BY <1>8 DEF Ini
<1>11. EmCalculo(q)
  BY <1>2, <1>3, <1>6, <1>8, <1>10 DEF EmCalculo
<1>12. InvPkt(q)
  BY <1>2, <1>8, <1>11 DEF InvPkt, InvEgress
<1>13. OperDeChegada(q) = OperDeChegada(pk)
  BY <1>3, <1>8 DEF OperDeChegada
<1>14. Contada(pk, q)
  BY <1>2, <1>3, <1>8 DEF Contada, Restantes, total_rodadas
<1> QED
  BY <1>8, <1>9, <1>12, <1>13, <1>14 DEF Passo, q

\* One QR in the egress; the last one turns the packet to comparison.
LEMMA PassoEgressForro ==
  ASSUME NEW pk \in Pkt, pk.lugar = "egress", EmCalculo(pk), pk.rodada \in RegrasEgress
  PROVE  Passo(pk, EgressForro(pk))
<1> DEFINE q == EgressForro(pk)
           r == pk.rodada
           w == Travessia(tbl_forro_eg, r, pk.v)
<1>1. r \in 1..56 /\ r % 2 = 0
  BY DEF RegrasEgress, total_rodadas
<1>3. Registrado(pk.id) /\ pk.oper = 3 /\ pk.v = Parcial(r - 1, Ini(pk))
  BY DEF EmCalculo
<1>4. pk.v \in Estado /\ Ini(pk) \in Estado
  BY <1>3, EstadoCarregado DEF Pkt
<1>5. w = QR((r - 1) % 8, pk.v)
  BY <1>4, TravessiaEgress
<1>6. w = Parcial(r, Ini(pk)) /\ w \in Estado
  <2>1. r - 1 \in 0..55 /\ (r - 1) + 1 = r /\ (r - 1) % 8 \in 0..7
    BY <1>1
  <2>2. w \in Estado
    BY <1>4, <1>5, <2>1, QRType
  <2> QED
    BY <1>3, <1>4, <1>5, <2>1, <2>2, ParcialPasso
<1>7. CASE r = 56
  <2>1. q = [pk EXCEPT !.v = w, !.lugar = "ingress", !.oper = 4, !.rodada = 0]
    <3> HIDE DEF w
    <3> QED
      BY <1>7 DEF EgressForro, RegraFin, total_rodadas, w, Pkt
  <2> HIDE DEF q, w
  <2>2. /\ q.v = w /\ q.lugar = "ingress" /\ q.oper = 4
        /\ q.id = pk.id /\ q.rid = pk.rid /\ q.payload = pk.payload
    BY <2>1 DEF Pkt
  <2>3. q \in Pkt
    <3>1. 0 \in 0..255 /\ 4 \in 0..5
      OBVIOUS
    <3> QED
      BY <1>6, <2>1, <3>1 DEF Pkt
  <2>4. Ini(q) = Ini(pk)
    BY <2>2 DEF Ini
  <2>5. q.v = Iteracoes(rounds, Ini(q))
    BY <1>4, <1>6, <1>7, <2>2, <2>4, ParcialPasso DEF rounds
  <2>6. InvPkt(q)
    BY <1>3, <2>2, <2>5 DEF InvPkt, InvIngress
  <2>7. OperDeChegada(q) = OperDeChegada(pk)
    BY <1>3, <2>2 DEF OperDeChegada
  <2>8. Contada(pk, q)
    BY <1>3, <1>7, <2>2 DEF Contada, Restantes, total_rodadas
  <2> QED
    BY <2>2, <2>3, <2>6, <2>7, <2>8 DEF Passo, q
<1>8. CASE r # 56
  <2>0. r \in 1..54 /\ (r + 1) % 256 = r + 1 /\ r + 1 \in RegrasIngress
    BY <1>1, <1>8 DEF RegrasIngress, total_rodadas
  <2>n. PICK n \in 0..255 : n = r + 1
    BY <2>0
  <2>1. q = [pk EXCEPT !.v = w, !.lugar = "ingress", !.rodada = n]
    <3> HIDE DEF w
    <3>1. ~RegraFin(r) /\ r \in RegrasEgress
      BY <1>8 DEF RegraFin, total_rodadas
    <3>2. q = [[pk EXCEPT !.v = w, !.lugar = "ingress"] EXCEPT !.rodada = (r + 1) % 256]
      BY <3>1 DEF EgressForro, w
    <3>3. q = [[pk EXCEPT !.v = w, !.lugar = "ingress"] EXCEPT !.rodada = n]
      BY <2>0, <2>n, <3>2
    <3> HIDE DEF q
    <3> QED
      BY <3>3 DEF Pkt
  <2> HIDE DEF q, w
  <2>2. /\ q.v = w /\ q.lugar = "ingress" /\ q.oper = 3 /\ q.rodada = r + 1
        /\ q.id = pk.id /\ q.rid = pk.rid /\ q.payload = pk.payload
    BY <1>3, <2>1, <2>n DEF Pkt
  <2>3. q \in Pkt
    BY <1>6, <2>1 DEF Pkt
  <2>4. Ini(q) = Ini(pk)
    BY <2>2 DEF Ini
  <2>5. EmCalculo(q)
    BY <1>3, <1>6, <2>0, <2>2, <2>4 DEF EmCalculo
  <2>6. InvPkt(q)
    BY <2>0, <2>2, <2>5 DEF InvPkt, InvIngress
  <2>7. OperDeChegada(q) = OperDeChegada(pk)
    BY <1>3, <2>2 DEF OperDeChegada
  <2>8. Contada(pk, q)
    BY <1>3, <2>0, <2>2 DEF Contada, Restantes, total_rodadas
  <2> QED
    BY <2>2, <2>3, <2>6, <2>7, <2>8 DEF Passo, q
<1> QED
  BY <1>7, <1>8

\* The first comparison, in the ingress.
LEMMA PassoIngressVerifica ==
  ASSUME NEW pk \in Pkt, pk.lugar = "ingress", Registrado(pk.id), pk.oper = 4,
         pk.v = Iteracoes(rounds, Ini(pk))
  PROVE  Passo(pk, IngressVerifica(pk))
<1> DEFINE q == IngressVerifica(pk)
           x == finalizar_forro(pk)
<1>1. x = forro(Ini(pk)) /\ x \in Estado /\ pk.payload \in Estado
  BY FinalizarEhForro, EstadoCarregado, ForroType DEF Pkt
<1>2. CASE verifica_ingress(x, pk.payload)
  <2>1. q = [pk EXCEPT !.v = x, !.porta = porta_CPU, !.lugar = "egress"]
    BY <1>2 DEF IngressVerifica
  <2>2. \A i \in 5..15 : x[i] = pk.payload[i]
    BY <1>1, <1>2, ComparaPalavras
  <2> HIDE DEF q, x
  <2>3. /\ q.v = x /\ q.lugar = "egress" /\ q.oper = 4 /\ q.porta = porta_CPU
        /\ q.id = pk.id /\ q.rid = pk.rid /\ q.payload = pk.payload
    BY <2>1 DEF Pkt
  <2>4. q \in Pkt
    <3>1. porta_CPU \in Portas
      BY DEF Portas
    <3> QED
      BY <1>1, <2>1, <3>1 DEF Pkt
  <2>5. Ini(q) = Ini(pk)
    BY <2>3 DEF Ini
  <2>6. InvPkt(q)
    BY <1>1, <2>2, <2>3, <2>5 DEF InvPkt, InvEgress
  <2>7. OperDeChegada(q) = OperDeChegada(pk)
    BY <2>3 DEF OperDeChegada
  <2>8. Contada(pk, q)
    BY <2>3 DEF Contada, Restantes, total_rodadas
  <2> QED
    BY <2>3, <2>4, <2>6, <2>7, <2>8 DEF Passo, q
<1>3. CASE ~verifica_ingress(x, pk.payload)
  <2>1. q = [pk EXCEPT !.lugar = "descarte"]
    BY <1>3 DEF IngressVerifica, drop
  <2>2. pk.payload # forro(Ini(pk))
    BY <1>1, <1>3, ComparaPalavras
  <2> HIDE DEF q, x
  <2>3. /\ q.lugar = "descarte" /\ q.oper = 4
        /\ q.id = pk.id /\ q.rid = pk.rid /\ q.payload = pk.payload
    BY <2>1 DEF Pkt
  <2>4. q \in Pkt
    BY <2>1 DEF Pkt
  <2>5. Ini(q) = Ini(pk)
    BY <2>3 DEF Ini
  <2>6. InvPkt(q)
    BY <2>2, <2>3, <2>5 DEF InvPkt, InvDescarte
  <2>7. OperDeChegada(q) = OperDeChegada(pk)
    BY <2>3 DEF OperDeChegada
  <2>8. Contada(pk, q)
    BY <2>3 DEF Contada, Restantes, total_rodadas
  <2> QED
    BY <2>3, <2>4, <2>6, <2>7, <2>8 DEF Passo, q
<1> QED
  BY <1>2, <1>3

\* The second comparison, in the egress: the verdict on a reply.
LEMMA PassoEgressVerifica ==
  ASSUME NEW pk \in Pkt, pk.lugar = "egress", Registrado(pk.id), pk.oper = 4,
         pk.porta = porta_CPU, pk.v = forro(Ini(pk)),
         \A i \in 5..15 : pk.v[i] = pk.payload[i]
  PROVE  Passo(pk, EgressVerifica(pk))
<1> DEFINE q == EgressVerifica(pk)
<1>1. pk.v \in Estado /\ pk.payload \in Estado
  BY DEF Pkt
<1>2. CASE verifica_egress(pk.v, pk.payload)
  <2>1. q = [pk EXCEPT !.lugar = "saida"]
    BY <1>2 DEF EgressVerifica
  <2>2. \A i \in 0..4 : pk.v[i] = pk.payload[i]
    BY <1>1, <1>2, ComparaPalavras
  <2>3. pk.payload = forro(Ini(pk))
    <3>1. \A i \in 0..15 : pk.payload[i] = pk.v[i]
      BY <2>2
    <3>2. pk.payload = pk.v
      BY <1>1, <3>1 DEF Estado
    <3> QED
      BY <3>2
  <2> HIDE DEF q
  <2>4. /\ q.lugar = "saida" /\ q.oper = 4 /\ q.porta = porta_CPU
        /\ q.id = pk.id /\ q.rid = pk.rid /\ q.payload = pk.payload
    BY <2>1 DEF Pkt
  <2>5. q \in Pkt
    BY <2>1 DEF Pkt
  <2>6. Ini(q) = Ini(pk)
    BY <2>4 DEF Ini
  <2>7. InvPkt(q)
    BY <2>3, <2>4, <2>6 DEF InvPkt, InvSaida
  <2>8. OperDeChegada(q) = OperDeChegada(pk)
    BY <2>4 DEF OperDeChegada
  <2>9. Contada(pk, q)
    BY <2>4 DEF Contada, Restantes, total_rodadas
  <2> QED
    BY <2>4, <2>5, <2>7, <2>8, <2>9 DEF Passo, q
<1>3. CASE ~verifica_egress(pk.v, pk.payload)
  <2>1. q = [pk EXCEPT !.lugar = "descarte"]
    BY <1>3 DEF EgressVerifica, drop
  <2>2. pk.payload # forro(Ini(pk))
    BY <1>1, <1>3, ComparaPalavras
  <2> HIDE DEF q
  <2>3. /\ q.lugar = "descarte" /\ q.oper = 4
        /\ q.id = pk.id /\ q.rid = pk.rid /\ q.payload = pk.payload
    BY <2>1 DEF Pkt
  <2>4. q \in Pkt
    BY <2>1 DEF Pkt
  <2>5. Ini(q) = Ini(pk)
    BY <2>3 DEF Ini
  <2>6. InvPkt(q)
    BY <2>2, <2>3, <2>5 DEF InvPkt, InvDescarte
  <2>7. OperDeChegada(q) = OperDeChegada(pk)
    BY <2>3 DEF OperDeChegada
  <2>8. Contada(pk, q)
    BY <2>3 DEF Contada, Restantes, total_rodadas
  <2> QED
    BY <2>3, <2>4, <2>6, <2>7, <2>8 DEF Passo, q
<1> QED
  BY <1>2, <1>3

\* A packet as it came from a host.
LEMMA PassoIngressInicial ==
  ASSUME NEW pk \in Pkt, pk.lugar = "ingress", pk.oper \in {0, 1, 2, 5}
  PROVE  Passo(pk, IngressInicial(pk))
<1> DEFINE q == IngressInicial(pk)
<1>0. pk.id \in Id /\ porta_cliente \in Portas /\ 196 \in Portas /\ porta_cliente \notin Recirculacao
  BY DEF Pkt, Portas, Recirculacao, porta_cliente
<1>1. CASE pk.oper = 0
  <2>1. q = SaiSemEgress([pk EXCEPT !.oper = 1], porta_cliente)
    BY <1>1 DEF IngressInicial, forward_request
  <2>2. q = [[pk EXCEPT !.oper = 1] EXCEPT !.porta = porta_cliente, !.lugar = "saida"]
    BY <1>0, <2>1 DEF SaiSemEgress
  <2> HIDE DEF q
  <2>3. /\ q.lugar = "saida" /\ q.oper = 1 /\ q.porta = porta_cliente
        /\ q.id = pk.id /\ q.rid = pk.rid /\ q.payload = pk.payload
    BY <2>2 DEF Pkt
  <2>4. q \in Pkt
    <3>1. 1 \in 0..5
      OBVIOUS
    <3> QED
      BY <1>0, <2>2, <3>1 DEF Pkt
  <2>5. InvPkt(q)
    BY <2>3 DEF InvPkt, InvSaida
  <2>6. OperDeChegada(q) = OperDeChegada(pk)
    BY <1>1, <2>3 DEF OperDeChegada
  <2>7. Contada(pk, q)
    BY <1>1, <2>3 DEF Contada, Restantes, total_rodadas
  <2> QED
    BY <2>3, <2>4, <2>5, <2>6, <2>7 DEF Passo, q
<1>2. CASE pk.oper = 5
  <2>1. q = SaiSemEgress(pk, porta_cliente)
    BY <1>2 DEF IngressInicial, forward
  <2>2. q = [pk EXCEPT !.porta = porta_cliente, !.lugar = "saida"]
    BY <1>0, <2>1 DEF SaiSemEgress
  <2> HIDE DEF q
  <2>3. /\ q.lugar = "saida" /\ q.oper = 5 /\ q.porta = porta_cliente
        /\ q.id = pk.id /\ q.rid = pk.rid /\ q.payload = pk.payload
    BY <1>2, <2>2 DEF Pkt
  <2>4. q \in Pkt
    BY <1>0, <2>2 DEF Pkt
  <2>5. InvPkt(q)
    BY <2>3 DEF InvPkt, InvSaida
  <2>6. OperDeChegada(q) = OperDeChegada(pk)
    BY <1>2, <2>3 DEF OperDeChegada
  <2>7. Contada(pk, q)
    BY <1>2, <2>3 DEF Contada, Restantes, total_rodadas
  <2> QED
    BY <2>3, <2>4, <2>5, <2>6, <2>7 DEF Passo, q
<1>3. CASE pk.oper = 2 /\ Casa(pk.id)
  <2> DEFINE w == carregar_estado(Regra(pk.id), pk.rid)
  <2>1. Registrado(pk.id)
    BY <1>0, <1>3, RegraDoDispositivo
  <2>2. w = Ini(pk) /\ w \in Estado
    BY <2>1, EstadoCarregado
  <2>3. q = SaiSemEgress([pk EXCEPT !.v = w, !.rodada = 1, !.oper = 3], 196)
    BY <1>3 DEF IngressInicial, iniciar
  <2> HIDE DEF w
  <2>4. q = [[pk EXCEPT !.v = w, !.rodada = 1, !.oper = 3]
               EXCEPT !.porta = 196, !.lugar = "ingress"]
    BY <2>3 DEF SaiSemEgress, Recirculacao
  <2> HIDE DEF q
  <2>5. /\ q.lugar = "ingress" /\ q.oper = 3 /\ q.v = w /\ q.rodada = 1
        /\ q.id = pk.id /\ q.rid = pk.rid /\ q.payload = pk.payload
    BY <2>4 DEF Pkt
  <2>6. q \in Pkt
    <3>1. PICK n \in 0..255 : n = 1
      OBVIOUS
    <3>2. PICK o \in 0..5 : o = 3
      OBVIOUS
    <3>3. PICK pt \in Portas : pt = 196
      BY <1>0
    <3>4. q = [pk EXCEPT !.v = w, !.rodada = n, !.oper = o, !.porta = pt, !.lugar = "ingress"]
      <4>1. q = [[pk EXCEPT !.v = w, !.rodada = n, !.oper = o]
                   EXCEPT !.porta = pt, !.lugar = "ingress"]
        BY <2>4, <3>1, <3>2, <3>3
      <4> QED
        BY <4>1 DEF Pkt
    <3> QED
      BY <2>2, <3>4 DEF Pkt
  <2>7. Ini(q) = Ini(pk)
    BY <2>5 DEF Ini
  <2>8. EmCalculo(q)
    <3>1. Parcial(0, Ini(pk)) = Ini(pk)
      BY <2>2, ParcialPasso
    <3>2. q.rodada - 1 = 0
      BY <2>5
    <3> QED
      BY <2>1, <2>2, <2>5, <2>7, <3>1, <3>2 DEF EmCalculo
  <2>9. q.rodada \in RegrasIngress
    BY <2>5 DEF RegrasIngress, total_rodadas
  <2>10. InvPkt(q)
    BY <2>5, <2>8, <2>9 DEF InvPkt, InvIngress
  <2>11. OperDeChegada(q) = OperDeChegada(pk)
    BY <1>3, <2>5 DEF OperDeChegada
  <2>12. Contada(pk, q)
    BY <1>3, <2>1, <2>5 DEF Contada, Restantes, total_rodadas
  <2> QED
    BY <2>5, <2>6, <2>10, <2>11, <2>12 DEF Passo, q
<1>4. CASE pk.oper = 1 \/ (pk.oper = 2 /\ ~Casa(pk.id))
  <2>1. q = [pk EXCEPT !.lugar = "descarte"]
    BY <1>4 DEF IngressInicial, drop
  <2>2. pk.oper = 2 => ~Registrado(pk.id)
    BY <1>0, <1>4, RegraDoDispositivo
  <2> HIDE DEF q
  <2>3. /\ q.lugar = "descarte" /\ q.oper = pk.oper
        /\ q.id = pk.id /\ q.rid = pk.rid /\ q.payload = pk.payload
    BY <2>1 DEF Pkt
  <2>4. q \in Pkt
    BY <2>1 DEF Pkt
  <2>5. InvPkt(q)
    BY <1>4, <2>2, <2>3 DEF InvPkt, InvDescarte
  <2>6. OperDeChegada(q) = OperDeChegada(pk)
    BY <1>4, <2>3 DEF OperDeChegada
  <2>7. Contada(pk, q)
    BY <1>4, <2>2, <2>3 DEF Contada, Restantes, total_rodadas
  <2> QED
    BY <2>3, <2>4, <2>5, <2>6, <2>7 DEF Passo, q
<1> QED
  BY <1>1, <1>2, <1>3, <1>4
-----------------------------------------------------------------------------
\* What an ingress traversal makes of a packet, and what an egress one does.
DepoisIngress(pk) ==
  CASE pk.oper = 3 -> IngressForro(pk)
    [] pk.oper = 4 -> IngressVerifica(pk)
    [] OTHER       -> IngressInicial(pk)

DepoisEgress(pk) == IF pk.oper = 3 THEN EgressForro(pk) ELSE EgressVerifica(pk)

\* Every traversal of a packet that satisfies the invariant is a Passo.
LEMMA PassoTravessia ==
  ASSUME NEW pk \in Pkt, InvPkt(pk)
  PROVE  /\ pk.lugar = "ingress" => Passo(pk, DepoisIngress(pk))
         /\ pk.lugar = "egress" => Passo(pk, DepoisEgress(pk))
<1>1. ASSUME pk.lugar = "ingress"
      PROVE  Passo(pk, DepoisIngress(pk))
  <2>1. InvIngress(pk)
    BY <1>1 DEF InvPkt
  <2>2. CASE pk.oper \in {0, 1, 2, 5}
    <3>1. DepoisIngress(pk) = IngressInicial(pk)
      BY <2>2 DEF DepoisIngress
    <3> QED
      BY <1>1, <2>2, <3>1, PassoIngressInicial
  <2>3. CASE EmCalculo(pk) /\ pk.rodada \in RegrasIngress
    <3>1. DepoisIngress(pk) = IngressForro(pk)
      BY <2>3 DEF DepoisIngress, EmCalculo
    <3> QED
      BY <1>1, <2>3, <3>1, PassoIngressForro
  <2>4. CASE Registrado(pk.id) /\ pk.oper = 4 /\ pk.v = Iteracoes(rounds, Ini(pk))
    <3>1. DepoisIngress(pk) = IngressVerifica(pk)
      BY <2>4 DEF DepoisIngress
    <3> QED
      BY <1>1, <2>4, <3>1, PassoIngressVerifica
  <2> QED
    BY <2>1, <2>2, <2>3, <2>4 DEF InvIngress
<1>2. ASSUME pk.lugar = "egress"
      PROVE  Passo(pk, DepoisEgress(pk))
  <2>1. InvEgress(pk)
    BY <1>2 DEF InvPkt
  <2>2. CASE EmCalculo(pk) /\ pk.rodada \in RegrasEgress
    <3>1. DepoisEgress(pk) = EgressForro(pk)
      BY <2>2 DEF DepoisEgress, EmCalculo
    <3> QED
      BY <1>2, <2>2, <3>1, PassoEgressForro
  <2>3. CASE /\ Registrado(pk.id) /\ pk.oper = 4 /\ pk.porta = porta_CPU
             /\ pk.v = forro(Ini(pk))
             /\ \A i \in 5..15 : pk.v[i] = pk.payload[i]
    <3>1. DepoisEgress(pk) = EgressVerifica(pk)
      BY <2>3 DEF DepoisEgress
    <3> QED
      BY <1>2, <2>3, <3>1, PassoEgressVerifica
  <2> QED
    BY <2>1, <2>2, <2>3 DEF InvEgress
<1> QED
  BY <1>1, <1>2

\* The packet a host sends is well-formed, keeps the invariant and is pending.
LEMMA PassoChega ==
  ASSUME NEW m \in Entradas,
         NEW q, q = [lugar |-> "ingress", oper |-> m.oper, rid |-> m.rid, id |-> m.id,
                     payload |-> m.payload, rodada |-> 0, v |-> Nulo, porta |-> SemPorta]
  PROVE  /\ q \in Pkt /\ InvPkt(q)
         /\ CasoDe(q) = [fase |-> "pendente", oper |-> m.oper, rid |-> m.rid,
                         id |-> m.id, payload |-> m.payload]
<1>1. m \in [oper : {0, 1, 2, 5}, rid : Rid, id : Id, payload : Estado]
  BY SwitchAssumption
<1>2. Nulo \in Estado /\ SemPorta \in Portas
  BY WordAssumption DEF Nulo, Estado, Portas
<1>3. q.lugar = "ingress" /\ q.oper = m.oper /\ q.oper \in {0, 1, 2, 5}
  BY <1>1
<1>4. q \in Pkt
  <2>1. m.oper \in 0..5 /\ m.rid \in Rid /\ m.id \in Id /\ m.payload \in Estado
    BY <1>1
  <2>2. PICK n \in 0..255 : n = 0
    OBVIOUS
  <2> QED
    BY <1>2, <2>1, <2>2 DEF Pkt
<1>5. InvPkt(q)
  BY <1>3 DEF InvPkt, InvIngress
<1>6. Fase(q) = "pendente" /\ OperDeChegada(q) = m.oper
  BY <1>3 DEF Fase, OperDeChegada
<1>7. CasoDe(q) = [fase |-> "pendente", oper |-> m.oper, rid |-> m.rid,
                   id |-> m.id, payload |-> m.payload]
  BY <1>3, <1>6 DEF CasoDe
<1> QED
  BY <1>4, <1>5, <1>7
-----------------------------------------------------------------------------
(***************************************************************************)
(* The inductive invariant is the type of the packets together with        *)
(* EstadoSegueProva; the safety properties follow from it.                 *)
(***************************************************************************)
IInv == TypeOK /\ EstadoSegueProva

\* Before any packet arrives the invariant holds.
LEMMA InitIInv == Init => IInv
<1> SUFFICES ASSUME Init PROVE IInv
  OBVIOUS
<1> DEFINE z == [lugar |-> "rede", oper |-> 0, rid |-> [i \in 0..3 |-> Zero],
                 id |-> [i \in 0..3 |-> Zero], payload |-> Nulo,
                 rodada |-> 0, v |-> Nulo, porta |-> SemPorta]
<1>1. [i \in 0..3 |-> Zero] \in Rid /\ [i \in 0..3 |-> Zero] \in Id
      /\ Nulo \in Estado /\ SemPorta \in Portas
  BY WordAssumption DEF Rid, Id, Nulo, Estado, Portas
<1>2. z \in Pkt
  <2>1. 0 \in 0..5 /\ 0 \in 0..255
    OBVIOUS
  <2> QED
    BY <1>1, <2>1 DEF Pkt
<1>3. InvPkt(z)
  BY DEF InvPkt
<1>4. pkt = [p \in Pacotes |-> z]
  BY DEF Init
<1> QED
  BY <1>2, <1>3, <1>4 DEF IInv, TypeOK, EstadoSegueProva

\* A step of any packet preserves the invariant: arrivals and traversals touch
\* no packet but their own.
LEMMA NextIInv == IInv /\ [Next]_vars => IInv'
<1> SUFFICES ASSUME IInv, [Next]_vars PROVE IInv'
  OBVIOUS
<1>1. pkt \in [Pacotes -> Pkt] /\ \A p \in Pacotes : InvPkt(pkt[p])
  BY DEF IInv, TypeOK, EstadoSegueProva
<1>2. ASSUME NEW p \in Pacotes, NEW q, q \in Pkt, InvPkt(q), pkt' = [pkt EXCEPT ![p] = q]
      PROVE  IInv'
  <2>1. pkt' \in [Pacotes -> Pkt]
    BY <1>1, <1>2
  <2>2. \A x \in Pacotes : InvPkt(pkt'[x])
    BY <1>1, <1>2
  <2> QED
    BY <2>1, <2>2 DEF IInv, TypeOK, EstadoSegueProva, InvPkt, InvIngress, InvEgress, InvSaida,
                      InvDescarte, EmCalculo, Ini
<1>3. ASSUME NEW p \in Pacotes, Chega(p) PROVE IInv'
  <2>1. PICK m \in Entradas :
          pkt' = [pkt EXCEPT ![p] =
                    [lugar |-> "ingress", oper |-> m.oper, rid |-> m.rid, id |-> m.id,
                     payload |-> m.payload, rodada |-> 0, v |-> Nulo, porta |-> SemPorta]]
    BY <1>3 DEF Chega
  <2> QED
    BY <1>2, <2>1, PassoChega
<1>4. ASSUME NEW p \in Pacotes, Ingress(p) PROVE IInv'
  <2>1. pkt[p].lugar = "ingress" /\ pkt' = [pkt EXCEPT ![p] = DepoisIngress(pkt[p])]
    BY <1>1, <1>4 DEF Ingress, DepoisIngress
  <2>2. Passo(pkt[p], DepoisIngress(pkt[p]))
    BY <1>1, <2>1, PassoTravessia
  <2> QED
    BY <1>2, <2>1, <2>2 DEF Passo
<1>5. ASSUME NEW p \in Pacotes, Egress(p) PROVE IInv'
  <2>1. pkt[p].lugar = "egress" /\ pkt' = [pkt EXCEPT ![p] = DepoisEgress(pkt[p])]
    BY <1>1, <1>5 DEF Egress, DepoisEgress
  <2>2. Passo(pkt[p], DepoisEgress(pkt[p]))
    BY <1>1, <2>1, PassoTravessia
  <2> QED
    BY <1>2, <2>1, <2>2 DEF Passo
<1>6. CASE UNCHANGED vars
  BY <1>6 DEF vars, IInv, TypeOK, EstadoSegueProva, InvPkt, InvIngress, InvEgress, InvSaida,
              InvDescarte, EmCalculo, Ini
<1> QED
  BY <1>3, <1>4, <1>5, <1>6 DEF Next

\* The inductive invariant holds throughout.
LEMMA InvarianteIndutivo == Spec => []IInv
  BY InitIInv, NextIInv, PTL DEF Spec

\* Every packet stays inside the types of its headers and metadata.
THEOREM TipoCorreto == Spec => []TypeOK
<1>1. IInv => TypeOK
  BY DEF IInv
<1> QED
  BY <1>1, InvarianteIndutivo, PTL

\* At every traversal boundary a packet carries the state reply_proof has after
\* as many QRs, whatever other packets the pipelines interleave with it.
THEOREM SegueProva == Spec => []EstadoSegueProva
<1>1. IInv => EstadoSegueProva
  BY DEF IInv
<1> QED
  BY <1>1, InvarianteIndutivo, PTL

\* Soundness: only a correct proof of a registered device leaves by the CPU port.
THEOREM Aceitacao == Spec => []SoAceitaProvaCorreta
<1>1. IInv => SoAceitaProvaCorreta
  <2> SUFFICES ASSUME IInv, NEW p \in Pacotes,
                      pkt[p].lugar = "saida", pkt[p].porta = porta_CPU
               PROVE  /\ pkt[p].oper = 4
                      /\ Registrado(pkt[p].id)
                      /\ pkt[p].payload = ProvaEsperada(pkt[p].id, pkt[p].rid)
    BY DEF SoAceitaProvaCorreta
  <2>1. pkt[p] \in Pkt /\ InvSaida(pkt[p])
    BY DEF IInv, TypeOK, EstadoSegueProva, InvPkt
  <2>2. /\ pkt[p].oper = 4 /\ Registrado(pkt[p].id)
        /\ pkt[p].payload = forro(Ini(pkt[p]))
    BY <2>1 DEF InvSaida, porta_cliente, porta_CPU
  <2> QED
    BY <2>1, <2>2, ProvaEsperadaEhForro
<1> QED
  BY <1>1, InvarianteIndutivo, PTL

\* Completeness: no correct reply of a registered device is dropped.
THEOREM Descarte == Spec => []SoDescartaProvaErrada
<1>1. IInv => SoDescartaProvaErrada
  <2> SUFFICES ASSUME IInv, NEW p \in Pacotes,
                      pkt[p].lugar = "descarte", pkt[p].oper # 1
               PROVE  \/ ~Registrado(pkt[p].id)
                      \/ pkt[p].payload # ProvaEsperada(pkt[p].id, pkt[p].rid)
    BY DEF SoDescartaProvaErrada
  <2>1. pkt[p] \in Pkt /\ InvDescarte(pkt[p])
    BY DEF IInv, TypeOK, EstadoSegueProva, InvPkt
  <2>2. ~Registrado(pkt[p].id) \/ pkt[p].payload # forro(Ini(pkt[p]))
    BY <2>1 DEF InvDescarte
  <2> QED
    BY <2>1, <2>2, ProvaEsperadaEhForro
<1> QED
  BY <1>1, InvarianteIndutivo, PTL

\* No packet under computation ever meets a default action of a Forro table.
THEOREM SemMiss == Spec => []NenhumMiss
<1>1. IInv => NenhumMiss
  BY DEF IInv, EstadoSegueProva, InvPkt, InvIngress, InvEgress, NenhumMiss
<1> QED
  BY <1>1, InvarianteIndutivo, PTL

\* A reply of a registered device takes the 59 traversals between its arrival
\* and its verdict one by one, however the packets are interleaved: the safety
\* part of TodoPacoteDecidido.
THEOREM TravessiaPorTravessia == Spec => TravessiasContadas
<1>1. IInv /\ [Next]_vars =>
        [\A p \in Pacotes :
           pkt[p].lugar \in {"ingress", "egress"} /\ pkt'[p] # pkt[p] =>
             Contada(pkt[p], pkt'[p])]_vars
  <2> SUFFICES ASSUME IInv, Next, NEW p \in Pacotes,
                      pkt[p].lugar \in {"ingress", "egress"}, pkt'[p] # pkt[p]
               PROVE  Contada(pkt[p], pkt'[p])
    OBVIOUS
  <2>1. pkt \in [Pacotes -> Pkt] /\ InvPkt(pkt[p])
    BY DEF IInv, TypeOK, EstadoSegueProva
  <2>2. PICK o \in Pacotes : Chega(o) \/ Ingress(o) \/ Egress(o)
    BY DEF Next
  <2>3. \E q : pkt' = [pkt EXCEPT ![o] = q]
    BY <2>2, Zenon DEF Chega, Ingress, Egress
  <2>4. o = p
    BY <2>1, <2>3
  <2>5. ~Chega(p)
    BY DEF Chega
  <2>6. CASE Ingress(p)
    <3>1. pkt[p].lugar = "ingress" /\ pkt'[p] = DepoisIngress(pkt[p])
      BY <2>1, <2>6 DEF Ingress, DepoisIngress
    <3> QED
      BY <2>1, <3>1, PassoTravessia DEF Passo
  <2>7. CASE Egress(p)
    <3>1. pkt[p].lugar = "egress" /\ pkt'[p] = DepoisEgress(pkt[p])
      BY <2>1, <2>7 DEF Egress, DepoisEgress
    <3> QED
      BY <2>1, <3>1, PassoTravessia DEF Passo
  <2> QED
    BY <2>2, <2>4, <2>5, <2>6, <2>7
<1>2. IInv /\ [Next]_vars =>
        [\A p \in Pacotes :
           pkt[p].lugar \in {"ingress", "egress"} /\ pkt'[p] # pkt[p] =>
             \/ Restantes(pkt'[p]) = Restantes(pkt[p]) - 1
             \/ pkt[p].oper = 4 /\ pkt'[p].lugar = "descarte"]_vars
  BY <1>1 DEF Contada
<1> QED
  BY <1>2, InvarianteIndutivo, PTL DEF Spec, TravessiasContadas
-----------------------------------------------------------------------------
(***************************************************************************)
(* Refinement.                                                             *)
(***************************************************************************)
\* The proof of a packet is valid for the abstract verifier exactly when it is
\* forro() of the state its device starts from.
LEMMA ValidaEhForro ==
  ASSUME NEW pk \in Pkt
  PROVE  Valida(pk.id, pk.rid, pk.payload) <=> Registrado(pk.id) /\ pk.payload = forro(Ini(pk))
  BY ProvaEsperadaEhForro DEF Valida

\* A traversal leaves the abstract case alone or decides it as the abstract
\* verifier does.
LEMMA PassoDecide ==
  ASSUME NEW pk \in Pkt, NEW q, pk.lugar \in {"ingress", "egress"}, Passo(pk, q)
  PROVE  \/ CasoDe(q) = CasoDe(pk)
         \/ /\ CasoDe(pk).fase = "pendente"
            /\ CasoDe(q) = [CasoDe(pk) EXCEPT !.fase = Abs!Decisao(CasoDe(pk))]
<1> DEFINE o == OperDeChegada(pk)
           c == [fase |-> "pendente", oper |-> o, rid |-> pk.rid, id |-> pk.id,
                 payload |-> pk.payload]
<1>1. /\ q \in Pkt /\ InvPkt(q) /\ q.id = pk.id /\ q.rid = pk.rid
      /\ q.payload = pk.payload /\ OperDeChegada(q) = o /\ q.lugar # "rede"
  BY DEF Passo
<1>2. Fase(pk) = "pendente"
  BY DEF Fase
<1>3. CasoDe(pk) = c
  BY <1>2 DEF CasoDe
<1>4. CasoDe(q) = [fase |-> Fase(q), oper |-> o, rid |-> pk.rid, id |-> pk.id,
                   payload |-> pk.payload]
  BY <1>1 DEF CasoDe
<1>5. CasoDe(q) = [c EXCEPT !.fase = Fase(q)]
  BY <1>4
<1>6. Valida(c.id, c.rid, c.payload) <=> Registrado(q.id) /\ q.payload = forro(Ini(q))
  BY <1>1, ValidaEhForro
<1>7. CASE q.lugar \in {"ingress", "egress"}
  <2>1. Fase(q) = "pendente"
    BY <1>7 DEF Fase
  <2> QED
    BY <1>3, <1>4, <2>1
<1>8. CASE q.lugar = "saida"
  <2>1. InvSaida(q)
    BY <1>1, <1>8 DEF InvPkt
  <2>2. CASE q.porta = porta_cliente /\ q.oper \in {1, 5}
    <3>1. Fase(q) = "encaminhada"
      BY <1>8, <2>2 DEF Fase, porta_cliente, porta_CPU
    <3>2. o \in {0, 5}
      BY <1>1, <1>8, <2>2 DEF OperDeChegada
    <3>3. Abs!Decisao(c) = "encaminhada"
      BY <3>2 DEF Abs!Decisao
    <3> QED
      BY <1>3, <1>5, <3>1, <3>3
  <2>3. CASE /\ q.porta = porta_CPU /\ q.oper = 4
             /\ Registrado(q.id) /\ q.payload = forro(Ini(q))
    <3>1. Fase(q) = "atestada"
      BY <1>8, <2>3 DEF Fase
    <3>2. o = 2
      BY <1>1, <2>3 DEF OperDeChegada
    <3>3. Abs!Decisao(c) = "atestada"
      BY <1>6, <2>3, <3>2 DEF Abs!Decisao
    <3> QED
      BY <1>3, <1>5, <3>1, <3>3
  <2> QED
    BY <2>1, <2>2, <2>3 DEF InvSaida
<1>9. CASE q.lugar = "descarte"
  <2>1. InvDescarte(q)
    BY <1>1, <1>9 DEF InvPkt
  <2>2. Fase(q) = "descartada"
    BY <1>9 DEF Fase
  <2>3. o = 1 \/ (o = 2 /\ ~Valida(c.id, c.rid, c.payload))
    BY <1>1, <1>6, <1>9, <2>1 DEF InvDescarte, OperDeChegada
  <2>4. Abs!Decisao(c) = "descartada"
    BY <2>3 DEF Abs!Decisao
  <2> QED
    BY <1>3, <1>5, <2>2, <2>4
<1> QED
  BY <1>1, <1>7, <1>8, <1>9 DEF Pkt

\* A step of the switch is a step of the abstract verifier or a stutter.
LEMMA NextDecide == IInv /\ [Next]_vars => [Abs!Next]_CasoAbstrato
<1> SUFFICES ASSUME IInv, [Next]_vars PROVE [Abs!Next]_CasoAbstrato
  OBVIOUS
<1>1. pkt \in [Pacotes -> Pkt] /\ \A p \in Pacotes : InvPkt(pkt[p])
  BY DEF IInv, TypeOK, EstadoSegueProva
<1>2. /\ CasoAbstrato = [p \in Pacotes |-> CasoDe(pkt[p])]
      /\ CasoAbstrato' = [p \in Pacotes |-> CasoDe(pkt'[p])]
  BY DEF CasoAbstrato, CasoDe, Fase, OperDeChegada
<1>3. ASSUME NEW p \in Pacotes, NEW q, pkt' = [pkt EXCEPT ![p] = q]
      PROVE  CasoAbstrato' = [CasoAbstrato EXCEPT ![p] = CasoDe(q)]
  BY <1>1, <1>2, <1>3
<1>4. ASSUME NEW p \in Pacotes, Chega(p) PROVE Abs!Next
  <2>1. PICK m \in Entradas :
          pkt' = [pkt EXCEPT ![p] =
                    [lugar |-> "ingress", oper |-> m.oper, rid |-> m.rid, id |-> m.id,
                     payload |-> m.payload, rodada |-> 0, v |-> Nulo, porta |-> SemPorta]]
    BY <1>4 DEF Chega
  <2>2. CasoAbstrato' = [CasoAbstrato EXCEPT ![p] =
                           [fase |-> "pendente", oper |-> m.oper, rid |-> m.rid,
                            id |-> m.id, payload |-> m.payload]]
    <3>1. PICK q : q = [lugar |-> "ingress", oper |-> m.oper, rid |-> m.rid, id |-> m.id,
                        payload |-> m.payload, rodada |-> 0, v |-> Nulo,
                        porta |-> SemPorta]
      OBVIOUS
    <3>2. CasoDe(q) = [fase |-> "pendente", oper |-> m.oper, rid |-> m.rid,
                       id |-> m.id, payload |-> m.payload]
      BY <3>1, PassoChega
    <3>3. pkt' = [pkt EXCEPT ![p] = q]
      BY <2>1, <3>1
    <3>4. CasoAbstrato' = [CasoAbstrato EXCEPT ![p] = CasoDe(q)]
      BY <1>3, <3>3
    <3> QED
      BY <3>2, <3>4
  <2>3. CasoAbstrato[p].fase = "rede"
    BY <1>2, <1>4 DEF Chega, CasoDe
  <2>4. Abs!Chega(p)
    BY <2>2, <2>3 DEF Abs!Chega
  <2> QED
    BY <2>4 DEF Abs!Next
<1>5. ASSUME NEW p \in Pacotes, pkt[p].lugar \in {"ingress", "egress"},
             Passo(pkt[p], pkt'[p]), pkt' = [pkt EXCEPT ![p] = pkt'[p]]
      PROVE  Abs!Next \/ CasoAbstrato' = CasoAbstrato
  <2> DEFINE q == pkt'[p]
  <2>1. CasoAbstrato' = [CasoAbstrato EXCEPT ![p] = CasoDe(q)]
    BY <1>3, <1>5
  <2>2. CasoAbstrato[p] = CasoDe(pkt[p])
    BY <1>2
  <2>3. CASE CasoDe(q) = CasoDe(pkt[p])
    <3>1. CasoAbstrato' = CasoAbstrato
      BY <1>2, <2>1, <2>3
    <3> QED
      BY <3>1
  <2>4. CASE /\ CasoDe(pkt[p]).fase = "pendente"
             /\ CasoDe(q) = [CasoDe(pkt[p]) EXCEPT !.fase = Abs!Decisao(CasoDe(pkt[p]))]
    <3>1. Abs!Decide(p)
      BY <2>1, <2>2, <2>4 DEF Abs!Decide
    <3> QED
      BY <3>1 DEF Abs!Next
  <2> QED
    BY <1>1, <1>5, <2>3, <2>4, PassoDecide
<1>6. ASSUME NEW p \in Pacotes, Ingress(p) PROVE Abs!Next \/ CasoAbstrato' = CasoAbstrato
  <2>1. pkt[p].lugar = "ingress" /\ pkt' = [pkt EXCEPT ![p] = DepoisIngress(pkt[p])]
    BY <1>1, <1>6 DEF Ingress, DepoisIngress
  <2>2. Passo(pkt[p], DepoisIngress(pkt[p]))
    BY <1>1, <2>1, PassoTravessia
  <2>3. pkt'[p] = DepoisIngress(pkt[p])
    BY <1>1, <2>1
  <2>4. Passo(pkt[p], pkt'[p]) /\ pkt' = [pkt EXCEPT ![p] = pkt'[p]]
    BY <2>1, <2>2, <2>3
  <2>5. pkt[p].lugar \in {"ingress", "egress"}
    BY <2>1
  <2> QED
    BY <1>5, <2>4, <2>5
<1>7. ASSUME NEW p \in Pacotes, Egress(p) PROVE Abs!Next \/ CasoAbstrato' = CasoAbstrato
  <2>1. pkt[p].lugar = "egress" /\ pkt' = [pkt EXCEPT ![p] = DepoisEgress(pkt[p])]
    BY <1>1, <1>7 DEF Egress, DepoisEgress
  <2>2. Passo(pkt[p], DepoisEgress(pkt[p]))
    BY <1>1, <2>1, PassoTravessia
  <2>3. pkt'[p] = DepoisEgress(pkt[p])
    BY <1>1, <2>1
  <2>4. Passo(pkt[p], pkt'[p]) /\ pkt' = [pkt EXCEPT ![p] = pkt'[p]]
    BY <2>1, <2>2, <2>3
  <2>5. pkt[p].lugar \in {"ingress", "egress"}
    BY <2>1
  <2> QED
    BY <1>5, <2>4, <2>5
<1>8. CASE UNCHANGED vars
  BY <1>2, <1>8 DEF vars
<1> QED
  BY <1>4, <1>6, <1>7, <1>8 DEF Next

\* The switch implements the abstract verifier: one verdict per packet, given
\* once, by the proof alone.
THEOREM Refinamento == Spec => ImplementaVerificador
<1>1. Init => Abs!Init
  BY DEF Init, Abs!Init, CasoAbstrato, CasoDe
<1> QED
  BY <1>1, NextDecide, InvarianteIndutivo, PTL DEF Spec, ImplementaVerificador, Abs!Spec
=============================================================================
