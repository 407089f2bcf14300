SPECIFICATION Spec
CONSTANTS
  WordBits = 2
  ROB_SIZE = 4
  TagSpan = 4
  NUM_REGS = 2
  MEM_SIZE = 1
  Values = {1}
  Instr <- MCInstr
INVARIANTS TypeOK PositionsAgree WindowIsLive
PROPERTY DoneIsFinal
