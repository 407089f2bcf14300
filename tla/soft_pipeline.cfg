SPECIFICATION Spec
CONSTANTS
  IntReg <- MCIntReg
  FpReg <- MCFpReg
  XReg <- MCXReg
  FReg <- MCFReg
  Stoi <- MCStoi
  X0 = "x0"
  NoReg = "none"
  LAT <- SlowLAT
  PIPE <- ShippedPIPE
  WordBits = 8
  LuiShift = 4
  Fpu <- MCFpu
  Sources <- PipelinePrograms
  RobSize = 4
  LsbSize = 3
  MemWords = 4
  IqCapacity = 2
  IqFetchWidth = 2
  StationSize <- SmallStations
  MaxCycles = 70
INVARIANTS
  TypeOK RatNamesYoungestWriter NoLostWakeup OneUnitPerEntry
  OneAtATimeUnpipelined LsbInProgramOrder LoadsSeeOlderStores StallsBehindBranch
  Completes AssemblesTheText LogFollowsProgram
PROPERTY ImplementsIsa
