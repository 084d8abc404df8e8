CONSTANTS
  Procs = {h1, h2}
  Argumentos <- ArgumentosMC
  Rodadas <- RodadasMC
  ChaveZero = ChaveZero
  IdZero = IdZero
  Lixo = Lixo
  Ninguem = Ninguem
  LeituraFalha = TRUE
  MaxAbertos = 3
  k1 = k1
  k2 = k2
  d1 = d1
  d2 = d2
  r1 = r1

SPECIFICATION Spec

INVARIANTS
  TypeOK
  RespostaExplicada
  IdAcompanhaStorage

PROPERTY
  ServicoNaoTrava
