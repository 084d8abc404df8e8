CONSTANTS
  Word <- Word4
  Zero = 0
  Add <- Add4
  Xor <- Xor4
  Rotl <- Rotl4
  Inv <- Inv4
  Pacotes = {p1}
  Entradas <- EntradasPalavras
  Dispositivos <- DispositivosMC
  Chave <- ChaveMC

SPECIFICATION FairSpec

INVARIANTS
  SoAceitaProvaCorreta
  SoDescartaProvaErrada
  EstadoSegueProva
  NenhumMiss

PROPERTIES
  TodoPacoteDecidido
  TravessiasContadas
  ImplementaSetup

CHECK_DEADLOCK FALSE
