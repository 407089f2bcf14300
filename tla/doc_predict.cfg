SPECIFICATION Spec
CONSTANTS
  IntReg <- MCIntReg
  FpReg <- MCFpReg
  XReg <- MCXReg
  FReg <- MCFReg
  Stoi <- MCStoi
  X0 = "x0"
  NoReg = "none"
  LAT <- ShippedLAT
  PIPE <- ShippedPIPE
  WordBits = 8
  LuiShift = 4
  Fpu <- MCFpu
  Sources <- BranchPrograms
  RobSize <- ROB_SIZE
  LsbSize <- LSB_SIZE
  MemWords <- MEM_SIZE
  IqCapacity <- IQ_CAPACITY
  IqFetchWidth <- IQ_FETCH_WIDTH
  StationSize <- ShippedStations
  MaxCycles = 100
PROPERTY PredictsNotTaken
