---------------------------- MODULE ForroProofs ----------------------------
(***************************************************************************)
(* Facts about the operators of Forro and about the stages of the switch:  *)
(* the twelve stages of a traversal are one Q, and one QR advances the     *)
(* partial computation by one.  And the command line program computes the  *)
(* proof of the trusted application.                                       *)
(***************************************************************************)
EXTENDS P4Switch, ForroArgs, TLAPS

\* The Q macro maps states to states.
LEMMA QType ==
  ASSUME NEW s \in Estado,
         NEW a \in 0..15, NEW b \in 0..15, NEW c \in 0..15, NEW d \in 0..15, NEW e \in 0..15
  PROVE  Q(s, a, b, c, d, e) \in Estado
<1> DEFINE d1 == Add(s[d], s[e])
           c1 == Xor(s[c], d1)
           b1 == Rotl(Add(s[b], c1), 10)
           a1 == Add(s[a], b1)
           e1 == Xor(s[e], a1)
           d2 == Rotl(Add(d1, e1), 27)
           c2 == Add(c1, d2)
           b2 == Xor(b1, c2)
           a2 == Rotl(Add(a1, b2), 8)
<1>0. s[a] \in Word /\ s[b] \in Word /\ s[c] \in Word /\ s[d] \in Word /\ s[e] \in Word
  BY DEF Estado
<1>1. d1 \in Word /\ c1 \in Word
  BY <1>0, WordAssumption
<1>2. b1 \in Word /\ a1 \in Word
  BY <1>0, <1>1, WordAssumption
<1>3. e1 \in Word /\ d2 \in Word
  BY <1>0, <1>1, <1>2, WordAssumption
<1>4. c2 \in Word /\ b2 \in Word /\ a2 \in Word
  BY <1>1, <1>2, <1>3, WordAssumption
<1>5. Q(s, a, b, c, d, e) =
        [s EXCEPT ![a] = a2, ![b] = b2, ![c] = c2, ![d] = d2, ![e] = e1]
  BY DEF Q
<1> HIDE DEF a1, b1, c1, d1, e1, a2, b2, c2, d2
<1> QED
  BY <1>3, <1>4, <1>5 DEF Estado

\* A QR takes five distinct words of the state.
LEMMA OperandosDistintos ==
  ASSUME NEW q \in 0..7
  PROVE  LET o == Operandos[q + 1]
         IN /\ o[1] \in 0..15 /\ o[2] \in 0..15 /\ o[3] \in 0..15
            /\ o[4] \in 0..15 /\ o[5] \in 0..15
            /\ o[1] # o[2] /\ o[1] # o[3] /\ o[1] # o[4] /\ o[1] # o[5]
            /\ o[2] # o[3] /\ o[2] # o[4] /\ o[2] # o[5]
            /\ o[3] # o[4] /\ o[3] # o[5] /\ o[4] # o[5]
<1>1. q = 0 \/ q = 1 \/ q = 2 \/ q = 3 \/ q = 4 \/ q = 5 \/ q = 6 \/ q = 7
  OBVIOUS
<1>2. CASE q = 0 BY <1>2 DEF Operandos
<1>3. CASE q = 1 BY <1>3 DEF Operandos
<1>4. CASE q = 2 BY <1>4 DEF Operandos
<1>5. CASE q = 3 BY <1>5 DEF Operandos
<1>6. CASE q = 4 BY <1>6 DEF Operandos
<1>7. CASE q = 5 BY <1>7 DEF Operandos
<1>8. CASE q = 6 BY <1>8 DEF Operandos
<1>9. CASE q = 7 BY <1>9 DEF Operandos
<1> QED
  BY <1>1, <1>2, <1>3, <1>4, <1>5, <1>6, <1>7, <1>8, <1>9

LEMMA QRType ==
  ASSUME NEW q \in 0..7, NEW s \in Estado
  PROVE  QR(q, s) \in Estado
BY OperandosDistintos, QType DEF QR

\* One more QR of the iteration.
LEMMA PrimeirosQRsPasso ==
  ASSUME NEW s \in Estado
  PROVE  /\ PrimeirosQRs(0, s) = s
         /\ \A m \in 0..8 : PrimeirosQRs(m, s) \in Estado
         /\ \A m \in 0..7 : QR(m, PrimeirosQRs(m, s)) = PrimeirosQRs(m + 1, s)
<1> DEFINE P(m) == PrimeirosQRs(m, s)
<1>0. P(0) = s
  BY DEF PrimeirosQRs
<1>1. P(1) = QR(0, P(0))
  BY DEF PrimeirosQRs
<1>2. P(2) = QR(1, P(1))
  BY DEF PrimeirosQRs
<1>3. P(3) = QR(2, P(2))
  BY DEF PrimeirosQRs
<1>4. P(4) = QR(3, P(3))
  BY DEF PrimeirosQRs
<1>5. P(5) = QR(4, P(4))
  BY DEF PrimeirosQRs
<1>6. P(6) = QR(5, P(5))
  BY DEF PrimeirosQRs
<1>7. P(7) = QR(6, P(6))
  BY DEF PrimeirosQRs
<1>8. P(8) = QR(7, P(7))
  BY DEF PrimeirosQRs
<1> HIDE DEF P
<1>9. P(0) \in Estado /\ P(1) \in Estado /\ P(2) \in Estado
  BY <1>0, <1>1, <1>2, QRType
<1>10. P(3) \in Estado /\ P(4) \in Estado /\ P(5) \in Estado
  BY <1>9, <1>3, <1>4, <1>5, QRType
<1>11. P(6) \in Estado /\ P(7) \in Estado /\ P(8) \in Estado
  BY <1>10, <1>6, <1>7, <1>8, QRType
<1>12. \A m \in 0..8 : P(m) \in Estado
  BY <1>9, <1>10, <1>11
<1>13. \A m \in 0..7 : QR(m, P(m)) = P(m + 1)
  BY <1>1, <1>2, <1>3, <1>4, <1>5, <1>6, <1>7, <1>8
<1> QED
  BY <1>0, <1>12, <1>13 DEF P

\* One more iteration of the loop.
LEMMA IteracoesPasso ==
  ASSUME NEW s \in Estado
  PROVE  /\ Iteracoes(0, s) = s
         /\ \A k \in 0..7 : Iteracoes(k, s) \in Estado
         /\ \A k \in 0..6 : PrimeirosQRs(8, Iteracoes(k, s)) = Iteracoes(k + 1, s)
<1> DEFINE I(k) == Iteracoes(k, s)
<1>0. I(0) = s
  BY DEF Iteracoes
<1>1. I(1) = PrimeirosQRs(8, I(0))
  BY DEF Iteracoes, Iteracao
<1>2. I(2) = PrimeirosQRs(8, I(1))
  BY DEF Iteracoes, Iteracao
<1>3. I(3) = PrimeirosQRs(8, I(2))
  BY DEF Iteracoes, Iteracao
<1>4. I(4) = PrimeirosQRs(8, I(3))
  BY DEF Iteracoes, Iteracao
<1>5. I(5) = PrimeirosQRs(8, I(4))
  BY DEF Iteracoes, Iteracao
<1>6. I(6) = PrimeirosQRs(8, I(5))
  BY DEF Iteracoes, Iteracao
<1>7. I(7) = PrimeirosQRs(8, I(6))
  BY DEF Iteracoes, Iteracao
<1> HIDE DEF I
<1>8. \A t \in Estado : PrimeirosQRs(8, t) \in Estado
  BY PrimeirosQRsPasso
<1>9. I(0) \in Estado /\ I(1) \in Estado /\ I(2) \in Estado /\ I(3) \in Estado
  BY <1>0, <1>1, <1>2, <1>3, <1>8
<1>10. I(4) \in Estado /\ I(5) \in Estado /\ I(6) \in Estado /\ I(7) \in Estado
  BY <1>9, <1>4, <1>5, <1>6, <1>7, <1>8
<1>11. \A k \in 0..7 : I(k) \in Estado
  BY <1>9, <1>10
<1>12. \A k \in 0..6 : PrimeirosQRs(8, I(k)) = I(k + 1)
  BY <1>1, <1>2, <1>3, <1>4, <1>5, <1>6, <1>7
<1> QED
  BY <1>0, <1>11, <1>12 DEF I
\* The assignment behind each stage number.
LEMMA EstagioNumero ==
  ASSUME NEW o, NEW s
  PROVE  /\ Estagio(0, o, s) = Soma(s, o[4], o[5])
         /\ Estagio(1, o, s) = OuExclusivo(s, o[3], o[4])
         /\ Estagio(2, o, s) = Soma(s, o[2], o[3])
         /\ Estagio(3, o, s) = Gira(s, o[2], 10)
         /\ Estagio(4, o, s) = Soma(s, o[1], o[2])
         /\ Estagio(5, o, s) = OuExclusivo(s, o[5], o[1])
         /\ Estagio(6, o, s) = Soma(s, o[4], o[5])
         /\ Estagio(7, o, s) = Gira(s, o[4], 27)
         /\ Estagio(8, o, s) = Soma(s, o[3], o[4])
         /\ Estagio(9, o, s) = OuExclusivo(s, o[2], o[3])
         /\ Estagio(10, o, s) = Soma(s, o[1], o[2])
         /\ Estagio(11, o, s) = Gira(s, o[1], 8)
<1>0. Estagio(0, o, s) = Soma(s, o[4], o[5])
  BY DEF Estagio
<1>1. Estagio(1, o, s) = OuExclusivo(s, o[3], o[4])
  BY DEF Estagio
<1>2. Estagio(2, o, s) = Soma(s, o[2], o[3])
  BY DEF Estagio
<1>3. Estagio(3, o, s) = Gira(s, o[2], 10)
  BY DEF Estagio
<1>4. Estagio(4, o, s) = Soma(s, o[1], o[2])
  BY DEF Estagio
<1>5. Estagio(5, o, s) = OuExclusivo(s, o[5], o[1])
  BY DEF Estagio
<1>6. Estagio(6, o, s) = Soma(s, o[4], o[5])
  BY DEF Estagio
<1>7. Estagio(7, o, s) = Gira(s, o[4], 27)
  BY DEF Estagio
<1>8. Estagio(8, o, s) = Soma(s, o[3], o[4])
  BY DEF Estagio
<1>9. Estagio(9, o, s) = OuExclusivo(s, o[2], o[3])
  BY DEF Estagio
<1>10. Estagio(10, o, s) = Soma(s, o[1], o[2])
  BY DEF Estagio
<1>11. Estagio(11, o, s) = Gira(s, o[1], 8)
  BY DEF Estagio
<1> QED
  BY <1>0, <1>1, <1>2, <1>3, <1>4, <1>5, <1>6, <1>7, <1>8, <1>9, <1>10, <1>11

\* Twelve stages in a row on operands o.
Doze(o, s) ==
  Estagio(11, o, Estagio(10, o, Estagio(9, o, Estagio(8, o,
    Estagio(7, o, Estagio(6, o, Estagio(5, o, Estagio(4, o,
      Estagio(3, o, Estagio(2, o, Estagio(1, o, Estagio(0, o, s))))))))))))

\* The twelve stages of one traversal, each reading what the one before wrote,
\* are the Q macro.
LEMMA EstagiosSaoQ ==
  ASSUME NEW s0 \in Estado, NEW o,
         o[1] \in 0..15, o[2] \in 0..15, o[3] \in 0..15, o[4] \in 0..15, o[5] \in 0..15,
         o[1] # o[2], o[1] # o[3], o[1] # o[4], o[1] # o[5], o[2] # o[3],
         o[2] # o[4], o[2] # o[5], o[3] # o[4], o[3] # o[5], o[4] # o[5]
  PROVE  Doze(o, s0) = Q(s0, o[1], o[2], o[3], o[4], o[5])
<1>a. PICK a \in 0..15 : a = o[1]
  OBVIOUS
<1>b. PICK b \in 0..15 : b = o[2]
  OBVIOUS
<1>c. PICK c \in 0..15 : c = o[3]
  OBVIOUS
<1>d. PICK d \in 0..15 : d = o[4]
  OBVIOUS
<1>e. PICK e \in 0..15 : e = o[5]
  OBVIOUS
<1>f. /\ a # b /\ a # c /\ a # d /\ a # e /\ b # c
      /\ b # d /\ b # e /\ c # d /\ c # e /\ d # e
  BY <1>a, <1>b, <1>c, <1>d, <1>e
<1>s1. PICK s1 : s1 = Estagio(0, o, s0)
  OBVIOUS
<1>s2. PICK s2 : s2 = Estagio(1, o, s1)
  OBVIOUS
<1>s3. PICK s3 : s3 = Estagio(2, o, s2)
  OBVIOUS
<1>s4. PICK s4 : s4 = Estagio(3, o, s3)
  OBVIOUS
<1>s5. PICK s5 : s5 = Estagio(4, o, s4)
  OBVIOUS
<1>s6. PICK s6 : s6 = Estagio(5, o, s5)
  OBVIOUS
<1>s7. PICK s7 : s7 = Estagio(6, o, s6)
  OBVIOUS
<1>s8. PICK s8 : s8 = Estagio(7, o, s7)
  OBVIOUS
<1>s9. PICK s9 : s9 = Estagio(8, o, s8)
  OBVIOUS
<1>s10. PICK s10 : s10 = Estagio(9, o, s9)
  OBVIOUS
<1>s11. PICK s11 : s11 = Estagio(10, o, s10)
  OBVIOUS
<1>s12. PICK s12 : s12 = Estagio(11, o, s11)
  OBVIOUS
<1> DEFINE Vale(x, va, vb, vc, vd, ve) ==
             /\ x \in Estado
             /\ x[a] = va /\ x[b] = vb /\ x[c] = vc /\ x[d] = vd /\ x[e] = ve
             /\ \A i \in 0..15 : i \notin {a, b, c, d, e} => x[i] = s0[i]
<1>0. Vale(s0, s0[a], s0[b], s0[c], s0[d], s0[e])
  OBVIOUS
<1>p1. PICK d1 : d1 = Add(s0[d], s0[e])
  OBVIOUS
<1>1. Vale(s1, s0[a], s0[b], s0[c], d1, s0[e])
  <2>0. s1 = Soma(s0, d, e)
    BY EstagioNumero, <1>s1, <1>d, <1>e
  <2>1. s1 = [s0 EXCEPT ![d] = Add(s0[d], s0[e])]
    BY <2>0 DEF Soma
  <2>2. Add(s0[d], s0[e]) \in Word
    BY <1>0, WordAssumption DEF Estado
  <2> QED
    BY <1>0, <1>p1, <1>f, <2>1, <2>2 DEF Estado
<1>p2. PICK c1 : c1 = Xor(s0[c], d1)
  OBVIOUS
<1>2. Vale(s2, s0[a], s0[b], c1, d1, s0[e])
  <2>0. s2 = OuExclusivo(s1, c, d)
    BY EstagioNumero, <1>s2, <1>c, <1>d
  <2>1. s2 = [s1 EXCEPT ![c] = Xor(s1[c], s1[d])]
    BY <2>0 DEF OuExclusivo
  <2>2. Xor(s1[c], s1[d]) \in Word
    BY <1>1, WordAssumption DEF Estado
  <2> QED
    BY <1>1, <1>p2, <1>f, <2>1, <2>2 DEF Estado
<1>p3. PICK bx : bx = Add(s0[b], c1)
  OBVIOUS
<1>3. Vale(s3, s0[a], bx, c1, d1, s0[e])
  <2>0. s3 = Soma(s2, b, c)
    BY EstagioNumero, <1>s3, <1>b, <1>c
  <2>1. s3 = [s2 EXCEPT ![b] = Add(s2[b], s2[c])]
    BY <2>0 DEF Soma
  <2>2. Add(s2[b], s2[c]) \in Word
    BY <1>2, WordAssumption DEF Estado
  <2> QED
    BY <1>2, <1>p3, <1>f, <2>1, <2>2 DEF Estado
<1>p4. PICK b1 : b1 = Rotl(bx, 10)
  OBVIOUS
<1>4. Vale(s4, s0[a], b1, c1, d1, s0[e])
  <2>0. s4 = Gira(s3, b, 10)
    BY EstagioNumero, <1>s4, <1>b
  <2>1. s4 = [s3 EXCEPT ![b] = Rotl(s3[b], 10)]
    BY <2>0 DEF Gira
  <2>2. Rotl(s3[b], 10) \in Word
    BY <1>3, WordAssumption DEF Estado
  <2> QED
    BY <1>3, <1>p4, <1>f, <2>1, <2>2 DEF Estado
<1>p5. PICK a1 : a1 = Add(s0[a], b1)
  OBVIOUS
<1>5. Vale(s5, a1, b1, c1, d1, s0[e])
  <2>0. s5 = Soma(s4, a, b)
    BY EstagioNumero, <1>s5, <1>a, <1>b
  <2>1. s5 = [s4 EXCEPT ![a] = Add(s4[a], s4[b])]
    BY <2>0 DEF Soma
  <2>2. Add(s4[a], s4[b]) \in Word
    BY <1>4, WordAssumption DEF Estado
  <2> QED
    BY <1>4, <1>p5, <1>f, <2>1, <2>2 DEF Estado
<1>p6. PICK e1 : e1 = Xor(s0[e], a1)
  OBVIOUS
<1>6. Vale(s6, a1, b1, c1, d1, e1)
  <2>0. s6 = OuExclusivo(s5, e, a)
    BY EstagioNumero, <1>s6, <1>e, <1>a
  <2>1. s6 = [s5 EXCEPT ![e] = Xor(s5[e], s5[a])]
    BY <2>0 DEF OuExclusivo
  <2>2. Xor(s5[e], s5[a]) \in Word
    BY <1>5, WordAssumption DEF Estado
  <2> QED
    BY <1>5, <1>p6, <1>f, <2>1, <2>2 DEF Estado
<1>p7. PICK dx : dx = Add(d1, e1)
  OBVIOUS
<1>7. Vale(s7, a1, b1, c1, dx, e1)
  <2>0. s7 = Soma(s6, d, e)
    BY EstagioNumero, <1>s7, <1>d, <1>e
  <2>1. s7 = [s6 EXCEPT ![d] = Add(s6[d], s6[e])]
    BY <2>0 DEF Soma
  <2>2. Add(s6[d], s6[e]) \in Word
    BY <1>6, WordAssumption DEF Estado
  <2> QED
    BY <1>6, <1>p7, <1>f, <2>1, <2>2 DEF Estado
<1>p8. PICK d2 : d2 = Rotl(dx, 27)
  OBVIOUS
<1>8. Vale(s8, a1, b1, c1, d2, e1)
  <2>0. s8 = Gira(s7, d, 27)
    BY EstagioNumero, <1>s8, <1>d
  <2>1. s8 = [s7 EXCEPT ![d] = Rotl(s7[d], 27)]
    BY <2>0 DEF Gira
  <2>2. Rotl(s7[d], 27) \in Word
    BY <1>7, WordAssumption DEF Estado
  <2> QED
    BY <1>7, <1>p8, <1>f, <2>1, <2>2 DEF Estado
<1>p9. PICK c2 : c2 = Add(c1, d2)
  OBVIOUS
<1>9. Vale(s9, a1, b1, c2, d2, e1)
  <2>0. s9 = Soma(s8, c, d)
    BY EstagioNumero, <1>s9, <1>c, <1>d
  <2>1. s9 = [s8 EXCEPT ![c] = Add(s8[c], s8[d])]
    BY <2>0 DEF Soma
  <2>2. Add(s8[c], s8[d]) \in Word
    BY <1>8, WordAssumption DEF Estado
  <2> QED
    BY <1>8, <1>p9, <1>f, <2>1, <2>2 DEF Estado
<1>p10. PICK b2 : b2 = Xor(b1, c2)
  OBVIOUS
<1>10. Vale(s10, a1, b2, c2, d2, e1)
  <2>0. s10 = OuExclusivo(s9, b, c)
    BY EstagioNumero, <1>s10, <1>b, <1>c
  <2>1. s10 = [s9 EXCEPT ![b] = Xor(s9[b], s9[c])]
    BY <2>0 DEF OuExclusivo
  <2>2. Xor(s9[b], s9[c]) \in Word
    BY <1>9, WordAssumption DEF Estado
  <2> QED
    BY <1>9, <1>p10, <1>f, <2>1, <2>2 DEF Estado
<1>p11. PICK ax : ax = Add(a1, b2)
  OBVIOUS
<1>11. Vale(s11, ax, b2, c2, d2, e1)
  <2>0. s11 = Soma(s10, a, b)
    BY EstagioNumero, <1>s11, <1>a, <1>b
  <2>1. s11 = [s10 EXCEPT ![a] = Add(s10[a], s10[b])]
    BY <2>0 DEF Soma
  <2>2. Add(s10[a], s10[b]) \in Word
    BY <1>10, WordAssumption DEF Estado
  <2> QED
    BY <1>10, <1>p11, <1>f, <2>1, <2>2 DEF Estado
<1>p12. PICK a2 : a2 = Rotl(ax, 8)
  OBVIOUS
<1>12. Vale(s12, a2, b2, c2, d2, e1)
  <2>0. s12 = Gira(s11, a, 8)
    BY EstagioNumero, <1>s12, <1>a
  <2>1. s12 = [s11 EXCEPT ![a] = Rotl(s11[a], 8)]
    BY <2>0 DEF Gira
  <2>2. Rotl(s11[a], 8) \in Word
    BY <1>11, WordAssumption DEF Estado
  <2> QED
    BY <1>11, <1>p12, <1>f, <2>1, <2>2 DEF Estado
<1>13. Q(s0, a, b, c, d, e) =
         [s0 EXCEPT ![a] = a2, ![b] = b2, ![c] = c2, ![d] = d2, ![e] = e1]
  BY <1>p1, <1>p2, <1>p3, <1>p4, <1>p5, <1>p6, <1>p7, <1>p8, <1>p9, <1>p10, <1>p11, <1>p12 DEF Q
<1>14. s12 = [s0 EXCEPT ![a] = a2, ![b] = b2, ![c] = c2, ![d] = d2, ![e] = e1]
  BY <1>12, <1>f DEF Estado
<1>15. Doze(o, s0) = s12
  BY <1>s1, <1>s2, <1>s3, <1>s4, <1>s5, <1>s6, <1>s7, <1>s8, <1>s9, <1>s10, <1>s11, <1>s12 DEF Doze
<1> QED
  BY <1>13, <1>14, <1>15, <1>a, <1>b, <1>c, <1>d, <1>e
\* Twelve stages on the operands of QR q perform QR q.
LEMMA DozeEhQR ==
  ASSUME NEW s \in Estado, NEW q \in 0..7
  PROVE  Doze(Operandos[q + 1], s) = QR(q, s)
BY OperandosDistintos, EstagiosSaoQ DEF QR

\* The rule of rodada r names the operands of QR (r - 1) % 8.
LEMMA OperandosDaRodada ==
  ASSUME NEW r \in 1..56
  PROVE  (r - 1) % 8 \in 0..7 /\ QRdaRodada(r).op = Operandos[((r - 1) % 8) + 1]
<1>1. PICK q \in 0..7 : q = (r - 1) % 8
  OBVIOUS
<1>2. AcoesQR[q + 1].op = Operandos[q + 1]
  <2>1. q = 0 \/ q = 1 \/ q = 2 \/ q = 3 \/ q = 4 \/ q = 5 \/ q = 6 \/ q = 7
    OBVIOUS
  <2> QED
    BY <2>1 DEF AcoesQR, Operandos, i_qr0, e_qr1, i_qr2, e_qr3, i_qr4, e_qr5, i_qr6, e_qr7
<1> QED
  BY <1>1, <1>2 DEF QRdaRodada

\* A traversal of the ingress in an odd rodada.
LEMMA TravessiaIngress ==
  ASSUME NEW s \in Estado, NEW r \in RegrasIngress
  PROVE  Travessia(tbl_forro_ig, r, s) = QR((r - 1) % 8, s)
<1> DEFINE o == QRdaRodada(r).op
<1>1. r \in 1..56
  BY DEF RegrasIngress, total_rodadas
<1>2. ASSUME NEW i, NEW x PROVE tbl_forro_ig(i, r, x) = Estagio(i, o, x)
  BY DEF tbl_forro_ig
<1>s1. PICK s1 : s1 = tbl_forro_ig(0, r, s)
  OBVIOUS
<1>s2. PICK s2 : s2 = tbl_forro_ig(1, r, s1)
  OBVIOUS
<1>s3. PICK s3 : s3 = tbl_forro_ig(2, r, s2)
  OBVIOUS
<1>s4. PICK s4 : s4 = tbl_forro_ig(3, r, s3)
  OBVIOUS
<1>s5. PICK s5 : s5 = tbl_forro_ig(4, r, s4)
  OBVIOUS
<1>s6. PICK s6 : s6 = tbl_forro_ig(5, r, s5)
  OBVIOUS
<1>s7. PICK s7 : s7 = tbl_forro_ig(6, r, s6)
  OBVIOUS
<1>s8. PICK s8 : s8 = tbl_forro_ig(7, r, s7)
  OBVIOUS
<1>s9. PICK s9 : s9 = tbl_forro_ig(8, r, s8)
  OBVIOUS
<1>s10. PICK s10 : s10 = tbl_forro_ig(9, r, s9)
  OBVIOUS
<1>s11. PICK s11 : s11 = tbl_forro_ig(10, r, s10)
  OBVIOUS
<1>s12. PICK s12 : s12 = tbl_forro_ig(11, r, s11)
  OBVIOUS
<1>3. Travessia(tbl_forro_ig, r, s) = s12
  BY <1>s1, <1>s2, <1>s3, <1>s4, <1>s5, <1>s6, <1>s7, <1>s8, <1>s9, <1>s10, <1>s11, <1>s12 DEF Travessia
<1> HIDE DEF o
<1>t1. s1 = Estagio(0, o, s)
  BY <1>2, <1>s1
<1>t2. s2 = Estagio(1, o, s1)
  BY <1>2, <1>s2
<1>t3. s3 = Estagio(2, o, s2)
  BY <1>2, <1>s3
<1>t4. s4 = Estagio(3, o, s3)
  BY <1>2, <1>s4
<1>t5. s5 = Estagio(4, o, s4)
  BY <1>2, <1>s5
<1>t6. s6 = Estagio(5, o, s5)
  BY <1>2, <1>s6
<1>t7. s7 = Estagio(6, o, s6)
  BY <1>2, <1>s7
<1>t8. s8 = Estagio(7, o, s7)
  BY <1>2, <1>s8
<1>t9. s9 = Estagio(8, o, s8)
  BY <1>2, <1>s9
<1>t10. s10 = Estagio(9, o, s9)
  BY <1>2, <1>s10
<1>t11. s11 = Estagio(10, o, s10)
  BY <1>2, <1>s11
<1>t12. s12 = Estagio(11, o, s11)
  BY <1>2, <1>s12
<1>4. s12 = Doze(o, s)
  BY <1>t1, <1>t2, <1>t3, <1>t4, <1>t5, <1>t6, <1>t7, <1>t8, <1>t9, <1>t10, <1>t11, <1>t12 DEF Doze
<1>5. (r - 1) % 8 \in 0..7 /\ o = Operandos[((r - 1) % 8) + 1]
  BY <1>1, OperandosDaRodada DEF o
<1> QED
  BY <1>3, <1>4, <1>5, DozeEhQR

\* A traversal of the egress in an even rodada.
LEMMA TravessiaEgress ==
  ASSUME NEW s \in Estado, NEW r \in RegrasEgress
  PROVE  Travessia(tbl_forro_eg, r, s) = QR((r - 1) % 8, s)
<1> DEFINE o == QRdaRodada(r).op
<1>1. r \in 1..56
  BY DEF RegrasEgress, total_rodadas
<1>2. ASSUME NEW i, NEW x PROVE tbl_forro_eg(i, r, x) = Estagio(i, o, x)
  BY DEF tbl_forro_eg
<1>s1. PICK s1 : s1 = tbl_forro_eg(0, r, s)
  OBVIOUS
<1>s2. PICK s2 : s2 = tbl_forro_eg(1, r, s1)
  OBVIOUS
<1>s3. PICK s3 : s3 = tbl_forro_eg(2, r, s2)
  OBVIOUS
<1>s4. PICK s4 : s4 = tbl_forro_eg(3, r, s3)
  OBVIOUS
<1>s5. PICK s5 : s5 = tbl_forro_eg(4, r, s4)
  OBVIOUS
<1>s6. PICK s6 : s6 = tbl_forro_eg(5, r, s5)
  OBVIOUS
<1>s7. PICK s7 : s7 = tbl_forro_eg(6, r, s6)
  OBVIOUS
<1>s8. PICK s8 : s8 = tbl_forro_eg(7, r, s7)
  OBVIOUS
<1>s9. PICK s9 : s9 = tbl_forro_eg(8, r, s8)
  OBVIOUS
<1>s10. PICK s10 : s10 = tbl_forro_eg(9, r, s9)
  OBVIOUS
<1>s11. PICK s11 : s11 = tbl_forro_eg(10, r, s10)
  OBVIOUS
<1>s12. PICK s12 : s12 = tbl_forro_eg(11, r, s11)
  OBVIOUS
<1>3. Travessia(tbl_forro_eg, r, s) = s12
  BY <1>s1, <1>s2, <1>s3, <1>s4, <1>s5, <1>s6, <1>s7, <1>s8, <1>s9, <1>s10, <1>s11, <1>s12 DEF Travessia
<1> HIDE DEF o
<1>t1. s1 = Estagio(0, o, s)
  BY <1>2, <1>s1
<1>t2. s2 = Estagio(1, o, s1)
  BY <1>2, <1>s2
<1>t3. s3 = Estagio(2, o, s2)
  BY <1>2, <1>s3
<1>t4. s4 = Estagio(3, o, s3)
  BY <1>2, <1>s4
<1>t5. s5 = Estagio(4, o, s4)
  BY <1>2, <1>s5
<1>t6. s6 = Estagio(5, o, s5)
  BY <1>2, <1>s6
<1>t7. s7 = Estagio(6, o, s6)
  BY <1>2, <1>s7
<1>t8. s8 = Estagio(7, o, s7)
  BY <1>2, <1>s8
<1>t9. s9 = Estagio(8, o, s8)
  BY <1>2, <1>s9
<1>t10. s10 = Estagio(9, o, s9)
  BY <1>2, <1>s10
<1>t11. s11 = Estagio(10, o, s10)
  BY <1>2, <1>s11
<1>t12. s12 = Estagio(11, o, s11)
  BY <1>2, <1>s12
<1>4. s12 = Doze(o, s)
  BY <1>t1, <1>t2, <1>t3, <1>t4, <1>t5, <1>t6, <1>t7, <1>t8, <1>t9, <1>t10, <1>t11, <1>t12 DEF Doze
<1>5. (r - 1) % 8 \in 0..7 /\ o = Operandos[((r - 1) % 8) + 1]
  BY <1>1, OperandosDaRodada DEF o
<1> QED
  BY <1>3, <1>4, <1>5, DozeEhQR

\* The partial computation starts at the initial state, advances by one QR and
\* ends, after 56, in the state forro() adds init to.
LEMMA ParcialPasso ==
  ASSUME NEW s \in Estado
  PROVE  /\ Parcial(0, s) = s
         /\ Parcial(56, s) = Iteracoes(7, s)
         /\ \A n \in 0..55 : Parcial(n, s) \in Estado
         /\ \A n \in 0..55 : QR(n % 8, Parcial(n, s)) = Parcial(n + 1, s)
<1>1. Parcial(0, s) = s
  <2>1. 0 % 8 = 0 /\ 0 \div 8 = 0
    OBVIOUS
  <2> QED
    BY <2>1, IteracoesPasso, PrimeirosQRsPasso DEF Parcial
<1>2. Parcial(56, s) = Iteracoes(7, s)
  <2>1. 56 % 8 = 0 /\ 56 \div 8 = 7
    OBVIOUS
  <2>2. Iteracoes(7, s) \in Estado
    BY IteracoesPasso
  <2> QED
    BY <2>1, <2>2, PrimeirosQRsPasso DEF Parcial
<1>3. ASSUME NEW n \in 0..55
      PROVE  /\ Parcial(n, s) \in Estado
             /\ QR(n % 8, Parcial(n, s)) = Parcial(n + 1, s)
  <2>1. PICK m \in 0..7, k \in 0..6 : m = n % 8 /\ k = n \div 8
    OBVIOUS
  <2>2. PICK x \in Estado : x = Iteracoes(k, s)
    BY IteracoesPasso
  <2>3. Parcial(n, s) = PrimeirosQRs(m, x)
    BY <2>1, <2>2 DEF Parcial
  <2>4. QR(m, PrimeirosQRs(m, x)) = PrimeirosQRs(m + 1, x)
    BY PrimeirosQRsPasso
  <2>5. PrimeirosQRs(m, x) \in Estado
    BY PrimeirosQRsPasso
  <2>6. CASE m < 7
    <3>1. (n + 1) % 8 = m + 1 /\ (n + 1) \div 8 = k
      BY <2>1, <2>6
    <3> QED
      BY <2>1, <2>2, <2>3, <2>4, <2>5, <3>1 DEF Parcial
  <2>7. CASE m = 7
    <3>1. (n + 1) % 8 = 0 /\ (n + 1) \div 8 = k + 1
      BY <2>1, <2>7
    <3>2. PrimeirosQRs(8, x) = Iteracoes(k + 1, s)
      BY <2>2, IteracoesPasso
    <3>3. Iteracoes(k + 1, s) \in Estado
      BY IteracoesPasso
    <3>4. Parcial(n + 1, s) = Iteracoes(k + 1, s)
      BY <3>1, <3>3, PrimeirosQRsPasso DEF Parcial
    <3> QED
      BY <2>1, <2>3, <2>4, <2>5, <2>7, <3>2, <3>4
  <2> QED
    BY <2>6, <2>7
<1> QED
  BY <1>1, <1>2, <1>3

\* forro() of a state is a state.
LEMMA ForroType ==
  ASSUME NEW s \in Estado
  PROVE  forro(s) \in Estado
<1>1. PICK x \in Estado : x = Iteracoes(rounds, s)
  BY IteracoesPasso DEF rounds
<1> QED
  BY <1>1, WordAssumption DEF forro, Estado
-----------------------------------------------------------------------------
(* For every word type, key, id and round, forro-args-dra2 called the way    *)
(* packet_handler of the x86 verifier calls it (nonce = second half of the   *)
(* round, id_rodada = first half) prints the proof of reply_proof, whatever  *)
(* the stack held and whatever SIGMA is, provided the two buffers the        *)
(* program never writes are zero.                                            *)
THEOREM LinhaDeComandoIgualTA ==
  ASSUME NEW input \in Estado, NEW sigma \in [0..3 -> Word],
         NEW key \in [0..7 -> Word], NEW id \in [0..3 -> Word], NEW rid \in [0..3 -> Word]
  PROVE  forro_args_dra(input, [i \in 0..15 |-> Zero], [i \in 0..7 |-> Zero], sigma, key,
                        [j \in 0..1 |-> rid[j + 2]], [j \in 0..1 |-> rid[j]], id)
           = Prova(key, id, rid)
<1> DEFINE zeros == [i \in 0..7 |-> Zero]
           nonce == [j \in 0..1 |-> rid[j + 2]]
           id_rodada == [j \in 0..1 |-> rid[j]]
           cr == [j \in 0..3 |-> IF j < 2 THEN Xor(id_rodada[j], zeros[j])
                                 ELSE Xor(nonce[j - 2], zeros[j + 2])]
           cd == [j \in 0..3 |-> IF j < 2 THEN Xor(id[j], zeros[j + 2])
                                 ELSE Xor(id[j], zeros[j + 4])]
           x == forro_versetup(forro_keysetup(input, key, sigma), cr, cd)
<1>1. cr = [j \in 0..3 |-> Xor(rid[j], Zero)]
  OBVIOUS
<1>2. cd = [j \in 0..3 |-> Xor(id[j], Zero)]
  OBVIOUS
<1> HIDE DEF cr, cd
<1>3. x = EstadoInicial(key, id, rid)
  <2> DEFINE r == [j \in 0..3 |-> Xor(rid[j], Zero)]
             d == [j \in 0..3 |-> Xor(id[j], Zero)]
  <2>1. forro_versetup(forro_keysetup(input, key, sigma), r, d) = forro_setup(key, r, d)
    <3> HIDE DEF r, d
    <3>1. ASSUME NEW i \in 0..15
          PROVE  forro_versetup(forro_keysetup(input, key, sigma), r, d)[i]
                   = forro_setup(key, r, d)[i]
      BY DEF forro_versetup, forro_keysetup, forro_setup
    <3> QED
      BY <3>1 DEF forro_versetup, forro_setup
  <2> QED
    BY <1>1, <1>2, <2>1 DEF EstadoInicial
<1> HIDE DEF x
<1>4. forro_args_dra(input, [i \in 0..15 |-> Zero], zeros, sigma, key, nonce, id_rodada, id)
        = forro_encrypt_bytes(x, [i \in 0..15 |-> Zero])
  BY DEF forro_args_dra, cr, cd, x
<1>5. forro_encrypt_bytes(x, [i \in 0..15 |-> Zero]) = Inverte(forro(x))
  <2>1. Inverte(forro(x)) \in Estado
    <3>1. EstadoInicial(key, id, rid) \in Estado
      <4> DEFINE r == [j \in 0..3 |-> Xor(rid[j], Zero)]
                 d == [j \in 0..3 |-> Xor(id[j], Zero)]
      <4>1. r \in [0..3 -> Word] /\ d \in [0..3 -> Word]
        BY WordAssumption
      <4> HIDE DEF r, d
      <4>2. ASSUME NEW i \in 0..15
            PROVE  forro_setup(key, r, d)[i] \in Word
        <5> DEFINE w == CASE i \in 0..3   -> key[i]
                          [] i \in 4..5   -> r[i - 4]
                          [] i \in 6..7   -> d[i - 6]
                          [] i \in 8..11  -> key[i - 4]
                          [] i \in 12..13 -> r[i - 10]
                          [] OTHER        -> d[i - 12]
        <5>1. w \in Word
          BY <4>1
        <5>2. forro_setup(key, r, d)[i] = Inv(w)
          BY DEF forro_setup
        <5> HIDE DEF w
        <5> QED
          BY <5>1, <5>2, WordAssumption
      <4>3. forro_setup(key, r, d) = [i \in 0..15 |-> forro_setup(key, r, d)[i]]
        BY DEF forro_setup
      <4>4. forro_setup(key, r, d) \in Estado
        BY <4>2, <4>3 DEF Estado
      <4> QED
        BY <4>4 DEF EstadoInicial, r, d
    <3>2. forro(x) \in Estado
      BY <1>3, <3>1, ForroType
    <3> QED
      BY <3>2, WordAssumption DEF Inverte, Estado
  <2> HIDE DEF x
  <2> DEFINE o == Inverte(forro(x))
  <2>2. forro_encrypt_bytes(x, [i \in 0..15 |-> Zero]) = [i \in 0..15 |-> Xor(Zero, o[i])]
    BY DEF forro_encrypt_bytes
  <2> HIDE DEF o
  <2>3. o \in Estado
    BY <2>1 DEF o
  <2>4. [i \in 0..15 |-> Xor(Zero, o[i])] = o
    BY <2>3, WordAssumption DEF Estado
  <2> QED
    BY <2>2, <2>4 DEF o
<1> QED
  BY <1>3, <1>4, <1>5 DEF Prova
=============================================================================
