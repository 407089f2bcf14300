SPECIFICATION UnitSpec
CONSTANTS
  Size = 4
  Info = {i1, i2}
  Value = {v1, v2}
  NoInfo = none
  NoValue = zero
  MaxDepth = 3
INVARIANTS
  TypeOK
  PositionsAgree
  WindowIsLive
  UnitHoldsWhatItAccepted
PROPERTIES
  ImplementsQueue
