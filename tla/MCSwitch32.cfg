CONSTANT
  Pacotes = {p1}

SPECIFICATION Spec

INVARIANT
  AceitaSoOVetorDoReadme

CHECK_DEADLOCK FALSE
