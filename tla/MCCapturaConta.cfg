CONSTANTS
  cc = 3
  cnt = 3
  Quebra = 0
  Nucleos = {c1, c2}
  MaxChegadas = 5
  MaxQuedas = 0
  Nada = Nada

SPECIFICATION Spec

INVARIANTS
  ContagemExata
  PoucosIntrusos

CHECK_DEADLOCK FALSE
