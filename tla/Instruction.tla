----------------------------- MODULE Instruction -----------------------------
(***************************************************************************)
(* Opcodes, the decoded instruction, and the per-opcode tables of the      *)
(* software simulator (instruction.h, instruction.cpp, config.h).          *)
(*                                                                         *)
(* A register is named by one value ("x1", "f0"): the pair (index, _fp     *)
(* flag) of the code.  NoReg is the index -1, NoTag the ROB tag -1.        *)
(***************************************************************************)
EXTENDS Integers

CONSTANTS
  IntReg,      \* the integer registers, X0 among them
  FpReg,       \* the floating-point registers
  X0,          \* the hardwired zero register
  NoReg,       \* "no register": an unused source or no destination
  LAT,         \* the LAT_* constants of config.h, by functional-unit class
  PIPE         \* the PIPE_* flags of config.h, by functional-unit class

NoTag == -1

Reg == IntReg \cup FpReg

IntRType == {"ADD", "SUB", "AND", "OR", "XOR", "SLL", "SRL", "SRA"}
IntIType == {"ADDI", "LUI", "ANDI", "ORI", "XORI", "SLLI", "SRLI"}
Branches == {"BEQ", "BNE", "BLT", "BGE"}
Jumps    == {"JAL", "JALR"}
Loads    == {"LW", "FLW"}
Stores   == {"SW", "FSW"}
FpArith  == {"FADD_S", "FSUB_S", "FMUL_S", "FDIV_S"}
FpCvt    == {"FCVT_W_S", "FCVT_S_W"}

Opcode == IntRType \cup IntIType \cup Branches \cup Jumps \cup Loads
            \cup Stores \cup FpArith \cup FpCvt \cup {"NOP", "HALT"}

FuClass == {"INT_ALU", "INT_LS", "BRANCH", "FP_ADDSUB", "FP_MUL", "FP_DIV",
            "FP_LS", "FP_CVT", "MISC"}

ASSUME RegAssumption ==
  /\ X0 \in IntReg
  /\ IntReg \cap FpReg = {}
  /\ NoReg \notin Reg

ASSUME ConfigAssumption ==
  /\ LAT  \in [FuClass -> Nat]
  /\ PIPE \in [FuClass -> BOOLEAN]

is_branch(op) == op \in Branches
is_jump(op)   == op \in Jumps
is_load(op)   == op \in Loads
is_store(op)  == op \in Stores

(* The rows latency_of and is_pipelined have in common. *)
UnitOf(op) ==
  CASE op \in {"LW", "SW"}                -> "INT_LS"
    [] op \in {"FLW", "FSW"}              -> "FP_LS"
    [] op \in Branches \cup Jumps         -> "BRANCH"
    [] op \in {"FADD_S", "FSUB_S"}        -> "FP_ADDSUB"
    [] op = "FMUL_S"                      -> "FP_MUL"
    [] op = "FDIV_S"                      -> "FP_DIV"
    [] op \in FpCvt                       -> "FP_CVT"
    [] op \in {"NOP", "HALT"}             -> "MISC"
    [] OTHER                              -> "INT_ALU"

latency_of(op) == LAT[UnitOf(op)]

(* NOP and HALT fall into the default row, which is PIPE_INT_ALU here      *)
(* although it is LAT_MISC in latency_of.                                  *)
is_pipelined(op) ==
  PIPE[IF UnitOf(op) = "MISC" THEN "INT_ALU" ELSE UnitOf(op)]

(* What the logs print. *)
opcode_name(op) ==
  CASE op = "FADD_S"   -> "FADD.S"
    [] op = "FSUB_S"   -> "FSUB.S"
    [] op = "FMUL_S"   -> "FMUL.S"
    [] op = "FDIV_S"   -> "FDIV.S"
    [] op = "FCVT_W_S" -> "FCVT.W.S"
    [] op = "FCVT_S_W" -> "FCVT.S.W"
    [] OTHER           -> op

(* A decoded instruction, before InstructionQueue::load_program stamps its *)
(* pc.                                                                     *)
Decoded ==
  [op : Opcode, rd : Reg \cup {NoReg}, rs1 : Reg \cup {NoReg},
   rs2 : Reg \cup {NoReg}, imm : Int]

-----------------------------------------------------------------------------
(* config.h as shipped: the latencies and pipelining flags by class of     *)
(* functional unit, and the sizes.                                         *)
ShippedLAT ==
  [INT_ALU |-> 1, INT_LS |-> 2, BRANCH |-> 1, FP_ADDSUB |-> 2, FP_MUL |-> 4,
   FP_DIV |-> 8, FP_LS |-> 2, FP_CVT |-> 2, MISC |-> 1]

ShippedPIPE ==
  [INT_ALU |-> TRUE, INT_LS |-> FALSE, BRANCH |-> FALSE, FP_ADDSUB |-> TRUE,
   FP_MUL |-> TRUE, FP_DIV |-> FALSE, FP_LS |-> FALSE, FP_CVT |-> TRUE,
   MISC |-> FALSE]

IQ_CAPACITY    == 8
IQ_FETCH_WIDTH == 1
ROB_SIZE       == 16
LSB_SIZE       == 8
MEM_SIZE       == 1024

(* The RS_*_SIZE constants. *)
ShippedStations ==
  [alu |-> 6, branch |-> 2, fp_addsub |-> 3, fp_mul |-> 2, fp_div |-> 2, fp_cvt |-> 2]
=============================================================================
