CONSTANTS
  cc = 2
  cnt = 0
  Quebra = 2
  Nucleos = {c1, c2}
  MaxChegadas = 4
  MaxQuedas = 1
  Nada = Nada

SPECIFICATION Spec

INVARIANTS
  TypeOK
  PoucosIntrusos
  DespertaExato

PROPERTIES
  ImplementaFila
  TodoQuadroSolto

CHECK_DEADLOCK FALSE
