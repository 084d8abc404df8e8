CONSTANTS
  Linhas = 4
  Modulo = 2
  Base = 3
  NumDisp = 2
  TamAnel = 3
  total_pacotes = 3
  Roteiros <- RoteirosMC

SPECIFICATION Spec

INVARIANTS
  TypeOK
  VeredictoExato
  RespostasValidas
  CadaUmComOSeu
  FimNoTotal

PROPERTIES
  RespostaNaoSome
  VerificadorTermina

CHECK_DEADLOCK FALSE
