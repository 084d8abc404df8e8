CONSTANTS
  Linhas = 4
  Modulo = 2
  Base = 3
  NumDisp = 2
  TamAnel = 3
  total_pacotes = 3
  Roteiros <- RoteirosExp1

SPECIFICATION Spec



CHECK_DEADLOCK FALSE

INVARIANT
  VerificaODispositivo
