SPECIFICATION Spec
CONSTANTS
  WordBits = 8
  LaneBits = 2
  ROB_SIZE = 16
  TagSpan = 16
  NUM_REGS = 3
  MEM_SIZE = 32
  IQ_DEPTH = 8
  LSB_SIZE = 8
  NUM_FU = 7
  DivLast = 6
  PipeDepth <- ShippedDepth
  RS_SIZE <- ShippedStations
  Fpu <- MCFpu
  Data <- MCData
  Programs <- FullBufferPrograms
INVARIANT BusNamesCompleting
