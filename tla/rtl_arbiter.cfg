SPECIFICATION BusSpec
CONSTANTS
  NUM_FU = 7
  WordBits = 14
  MantBits = 9
  ExpBits = 3
  Operands <- MCOperands
INVARIANTS TypeOK CircuitGrantsFirst PartialQuotient IntegerQuotient
PROPERTIES PassedOverMovesUp EveryResultLeaves
