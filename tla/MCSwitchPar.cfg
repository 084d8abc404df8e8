CONSTANTS
  Word <- Word4
  Zero = 0
  Add <- Add4
  Xor <- Xor4
  Rotl <- Rotl4
  Inv <- Inv4
  Pacotes = {p1, p2}
  Entradas <- EntradasPar
  Dispositivos <- DispositivosMC
  Chave <- ChaveMC

SPECIFICATION Spec

INVARIANT
  TypeOK

PROPERTY
  ImplementaVerificador

CHECK_DEADLOCK FALSE
