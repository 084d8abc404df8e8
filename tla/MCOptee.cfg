CONSTANTS
  Procs = {h1, h2}
  Argumentos <- ArgumentosMC
  Rodadas = {r1}
  ChaveZero = ChaveZero
  IdZero = IdZero
  Lixo = Lixo
  Ninguem = Ninguem
  LeituraFalha = TRUE
  k1 = k1
  k2 = k2
  d1 = d1
  d2 = d2

SPECIFICATION TASpec

INVARIANTS
  TATypeOK
  ConteudoGravado
  EscritaExclusiva
  SessaoTemDono
  ProvaNaoMistura

PROPERTY
  ProcessoTermina
