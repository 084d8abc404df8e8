---------------------------- MODULE Verificador ----------------------------
(***************************************************************************)
(* What a verifier of remote attestation promises, whatever computes it:   *)
(* every packet it takes in is decided once, in one step; a reply attests  *)
(* its device exactly when its proof is valid, start and setup packets are *)
(* passed on, and everything else is discarded.                            *)
(***************************************************************************)
CONSTANTS
  Pacotes,        \* identities of the packets
  Entradas,       \* what may arrive: [oper, rid, id, payload]
  Valida(_,_,_)   \* the proof is the one device id owes for round rid

VARIABLE
  caso            \* what is known and decided of every packet

Init == caso = [p \in Pacotes |-> [fase |-> "rede"]]

Chega(p) ==
  /\ caso[p].fase = "rede"
  /\ \E m \in Entradas :
       caso' = [caso EXCEPT ![p] = [fase |-> "pendente", oper |-> m.oper, rid |-> m.rid,
                                    id |-> m.id, payload |-> m.payload]]

Decisao(c) ==
  CASE c.oper \in {0, 5} -> "encaminhada"
    [] c.oper = 2 /\ Valida(c.id, c.rid, c.payload) -> "atestada"
    [] OTHER -> "descartada"

Decide(p) ==
  /\ caso[p].fase = "pendente"
  /\ caso' = [caso EXCEPT ![p].fase = Decisao(caso[p])]

Next == \E p \in Pacotes : Chega(p) \/ Decide(p)

Spec == Init /\ [][Next]_caso
=============================================================================
