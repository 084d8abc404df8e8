CONSTANTS
  versao_forro = 2
  LarguraRodada = 4
  Pacotes = {p1}
  Entradas <- EntradasMC
  Dispositivos = {1, 2}
  Chave <- ChaveMC
  Ordens <- OrdensMC
  MaxSetups = 3

SPECIFICATION Spec

INVARIANTS
  TypeOK
  SetupNaoAtestaErrado
  SetupRestauraServico

PROPERTIES
  RecirculacaoTermina
  RecirculacaoAvanca

CHECK_DEADLOCK FALSE
