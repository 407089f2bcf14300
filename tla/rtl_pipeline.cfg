SPECIFICATION Spec
CONSTANTS
  WordBits = 8
  LaneBits = 2
  ROB_SIZE = 4
  TagSpan = 4
  NUM_REGS = 3
  MEM_SIZE = 16
  IQ_DEPTH = 2
  LSB_SIZE = 2
  NUM_FU = 7
  DivLast = 6
  PipeDepth <- ShippedDepth
  RS_SIZE <- SmallStations
  Fpu <- MCFpu
  Data <- MCData
  Programs <- PipelinePrograms
INVARIANTS
  RatNamesYoungestWriter OperandsAwaitProducers OneOwner StraightLine RobWindow
  BranchResolvesInFlight MemoryInOrder
PROPERTY ImplementsIsa
