-------------------------------- MODULE MCRtl --------------------------------
(***************************************************************************)
(* Small instances of the RTL pipeline for TLC: sizes, and sets of         *)
(* programs.  The pipeline is deterministic once the program is chosen, so *)
(* a run explores every program of its set.                                *)
(***************************************************************************)
EXTENDS RtlProps

(* rv32if_pkg.sv as shipped. *)
ShippedStations ==
  [alu |-> 6, br |-> 2, fp_add |-> 3, fp_mul |-> 2, fp_div |-> 2, fp_cvt |-> 2]
ShippedDepth == [fp_add |-> 2, fp_mul |-> 4, fp_cvt |-> 2]

(* Sizes at which short programs fill every buffer. *)
SmallStations == [s \in Station |-> IF s = "alu" THEN 2 ELSE 1]

(* A total function that tells the float operations and their operands     *)
(* apart.                                                                  *)
MCFpu(op, a, b) ==
  Wrap(CASE op = "FADD_S"   -> a + b + 1
         [] op = "FSUB_S"   -> a - b
         [] op = "FMUL_S"   -> a * b + 1
         [] op = "FDIV_S"   -> a + 2 * b + 3
         [] op = "FCVT_W_S" -> a + 5
         [] op = "FCVT_S_W" -> a + 7)

(* Word w of the image: different lanes, a set sign bit in some of them. *)
MCData == [w \in 0 .. MEM_SIZE - 1 |-> (w * 75 + 27) % WordSize]

-----------------------------------------------------------------------------
Raw(opcode, op, rd, rs1, rs2, imm) ==
  [opcode |-> opcode, op |-> op, rd |-> rd, rs1 |-> rs1, rs2 |-> rs2,
   imm |-> Wrap(imm)]

R(op, rd, rs1, rs2)  == Raw("33", op, rd, rs1, rs2, 0)
I(op, rd, rs1, imm)  == Raw("13", op, rd, rs1, 0, imm)
U(op, rd, imm)       == Raw(IF op = "LUI" THEN "37" ELSE "17", op, rd, 0, 0, imm)
L(op, rd, rs1, imm)  == Raw(IF op = "FLW" THEN "07" ELSE "03", op, rd, rs1, 0, imm)
S(op, rs2, rs1, imm) == Raw(IF op = "FSW" THEN "27" ELSE "23", op, 0, rs1, rs2, imm)
B(op, rs1, rs2, imm) == Raw("63", op, 0, rs1, rs2, imm)
JAL(rd, imm)         == Raw("6F", "JAL", rd, 0, 0, imm)
JALR(rd, rs1, imm)   == Raw("67", "JALR", rd, rs1, 0, imm)
FP(op, rd, rs1, rs2) == Raw("53", op, rd, rs1, rs2, 0)
HALT                 == Raw("73", "HALT", 0, 0, 0, 0)

(* HALT, and a loop in which the clock goes on. *)
Stop == <<HALT, JAL(0, 0)>>

Blocks(alphabet, n)        == [1 .. n -> alphabet]
After(prefix, blocks)      == {prefix \o p : p \in blocks}
Stopped(set)               == {p \o Stop : p \in set}
Repeated(p, n)             == [i \in 1 .. n * Len(p) |-> p[((i - 1) % Len(p)) + 1]]

(* Renaming: true, anti and output dependences between a fast and several  *)
(* slow units, over registers that are written again and again.            *)
RenamePrograms ==
  Stopped(Blocks(
    {I("ADDI", 1, 1, 3), R("SUB", 2, 1, 2), FP("FCVT_S_W", 1, 1, 0),
     FP("FDIV_S", 1, 1, 2), FP("FMUL_S", 2, 1, 2), FP("FCVT_W_S", 1, 1, 0)}, 4))

(* Memory: words, halves and bytes of one word, through a register that    *)
(* loads overwrite, with late data for a float store.                      *)
MemoryPrograms ==
  Stopped(After(<<I("ADDI", 1, 0, 6)>>, Blocks(
    {S("SW", 1, 0, 4), S("SB", 1, 1, -1), S("SH", 2, 1, 0), L("LW", 1, 0, 4),
     L("LB", 2, 1, -1), L("LHU", 2, 1, 0), FP("FCVT_S_W", 1, 2, 0),
     S("FSW", 1, 0, 4)}, 4)))

(* Control: branches taken and not, jumps, and on the wrong path stores,   *)
(* loads, more branches and a multiply that a flush must cancel.           *)
ControlPrograms ==
  Stopped(After(<<I("ADDI", 1, 0, 1)>>, Blocks(
    {B("BEQ", 1, 2, 8), B("BNE", 1, 2, 8), I("ADDI", 2, 2, 1), JAL(0, 8),
     L("LW", 2, 1, 3), S("SW", 2, 0, 4), FP("FMUL_S", 1, 1, 1)}, 4)))

(* HALT with work of every kind in flight behind it, which nothing stops:  *)
(* HALT waits for a divide, and its successors are done before it retires. *)
HaltPrograms ==
  Stopped(After(<<I("ADDI", 1, 0, 1), FP("FDIV_S", 1, 1, 2), HALT>>, Blocks(
    {I("ADDI", 2, 2, 1), S("SW", 1, 0, 4), L("LW", 2, 1, 3), FP("FMUL_S", 2, 1, 1),
     B("BEQ", 1, 2, 8), B("BNE", 1, 2, 8), HALT}, 3)))

PipelinePrograms ==
  RenamePrograms \cup MemoryPrograms \cup ControlPrograms \cup HaltPrograms

(* Every opcode, in one program. *)
EveryOpcode ==
  <<I("ADDI", 1, 0, 77), U("LUI", 2, 48), U("AUIPC", 1, 16),
    I("ANDI", 2, 1, 60), I("ORI", 2, 2, 5), I("XORI", 1, 2, -1),
    I("SLLI", 1, 1, 2), I("SRLI", 2, 1, 3), I("SRAI", 1, 1, 1),
    I("SLTI", 2, 1, -3), I("SLTIU", 2, 1, -3),
    R("ADD", 1, 1, 2), R("SUB", 2, 1, 2), R("AND", 2, 2, 1),
    R("OR", 1, 2, 1), R("XOR", 2, 1, 2), R("SLL", 1, 2, 1),
    R("SRL", 2, 2, 1), R("SRA", 1, 2, 1), R("SLT", 2, 1, 2),
    R("SLTU", 1, 1, 2), R("NOP", 2, 1, 1),
    S("SW", 1, 0, 8), S("SH", 2, 0, 10), S("SB", 1, 0, 9), L("LW", 1, 0, 8),
    L("LH", 2, 0, 10), L("LHU", 2, 0, 8), L("LB", 1, 0, 11), L("LBU", 1, 0, 9),
    L("FLW", 1, 0, 8), FP("FADD_S", 2, 1, 1), FP("FSUB_S", 1, 2, 1),
    FP("FMUL_S", 1, 2, 2), FP("FDIV_S", 2, 1, 2), FP("FCVT_W_S", 1, 2, 0),
    FP("FCVT_S_W", 2, 1, 0), S("FSW", 2, 0, 12),
    B("BLT", 1, 2, 8), B("BGE", 1, 2, 8), B("BLTU", 1, 2, 8),
    B("BGEU", 1, 2, 8), B("BEQ", 1, 1, 8), B("BNE", 1, 2, 8),
    JALR(0, 0, 184), ZeroRaw>>

(* A loop that counts down from 3 and stores on its way. *)
Countdown ==
  <<I("ADDI", 1, 0, 3), S("SW", 1, 1, 1), L("LW", 2, 1, 1), I("ADDI", 1, 1, -1),
    B("BNE", 1, 0, -12), R("ADD", 1, 2, 2)>>

(* Three instructions over and over, until every buffer has wrapped. *)
Wrapping ==
  {Repeated(p, 8) : p \in Blocks(
     {I("ADDI", 1, 1, 3), S("SW", 1, 0, 4), L("LW", 1, 0, 4), L("FLW", 1, 0, 4),
      FP("FADD_S", 2, 1, 2), FP("FDIV_S", 1, 1, 2), FP("FCVT_W_S", 1, 1, 0)}, 3)}

ShippedPrograms == Stopped(Wrapping \cup {EveryOpcode, Countdown})

-----------------------------------------------------------------------------
(* A call and a use of the return address. *)
LinkPrograms ==
  Stopped({<<JAL(1, 8), HALT, R("ADD", 2, 1, 1)>>,
           <<I("ADDI", 2, 0, 12), JALR(1, 2, 0), HALT, R("ADD", 2, 1, 1)>>})

(* A full reorder buffer behind a slow chain whose last result wakes a     *)
(* branch, which is not taken, and its competitors for the bus at once.    *)
FullBufferPrograms ==
  {<<FP("FDIV_S", 1, 1, 2), FP("FDIV_S", 1, 1, 2), FP("FCVT_W_S", 1, 1, 0)>>
     \o p \o Repeated(<<I("ADDI", 2, 0, 1)>>, 14) \o Stop :
   p \in Blocks({B("BEQ", 1, 0, 8), I("ADDI", 2, 1, 1),
                 FP("FCVT_S_W", 1, 1, 0), S("SW", 1, 0, 4)}, 5)}
=============================================================================
