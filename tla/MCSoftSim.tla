------------------------------ MODULE MCSoftSim ------------------------------
(***************************************************************************)
(* Small instances of the software simulator for TLC: the registers, the   *)
(* sizes and the sets of source texts.  The simulator is deterministic     *)
(* once the text is chosen, so a run explores every text of its set.       *)
(***************************************************************************)
EXTENDS SoftSimProps

MCXReg   == [n \in 0 .. 2 |-> <<"x0", "x1", "x2">>[n + 1]]
MCFReg   == <<"f1", "f2">>
MCIntReg == {MCXReg[n] : n \in DOMAIN MCXReg}
MCFpReg  == {MCFReg[n] : n \in DOMAIN MCFReg}

(* Slower integer units and loads, so that results come in other orders,   *)
(* and latencies 0 and 1, at the boundary of the countdown; config.h       *)
(* invites changing every constant.                                        *)
SlowLAT ==
  [ShippedLAT EXCEPT !.INT_ALU = 2, !.INT_LS = 4, !.FP_LS = 1, !.FP_DIV = 4,
                     !.FP_CVT = 0, !.BRANCH = 3]

SmallStations ==
  [s \in Station |-> IF s \in {"alu", "fp_div", "fp_mul"} THEN 2 ELSE 1]

(* A total function that tells the float operations and their operands     *)
(* apart.                                                                  *)
MCFpu(op, a, b) ==
  Wrap(CASE op = "FADD_S"   -> a + b + 1
         [] op = "FSUB_S"   -> a - b
         [] op = "FMUL_S"   -> a * b + 1
         [] op = "FDIV_S"   -> a + 2 * b + 3
         [] op = "FCVT_W_S" -> a + 5
         [] op = "FCVT_S_W" -> a + 7)

-----------------------------------------------------------------------------
W(w)     == [kind |-> "word", word |-> w]
Label(w) == [kind |-> "label", word |-> w]
Num(n)   == [kind |-> "num", num |-> n]
Comma    == [kind |-> "comma"]
Hash     == [kind |-> "hash"]
x0 == [kind |-> "reg", file |-> "x", index |-> 0]
x1 == [x0 EXCEPT !.index = 1]
x2 == [x0 EXCEPT !.index = 2]
f1 == [kind |-> "reg", file |-> "f", index |-> 1]
f2 == [f1 EXCEPT !.index = 2]

(* Lines: three operands, two, a memory operand, a word alone. *)
L3(op, a, b, c)   == <<W(op), a, Comma, b, Comma, c>>
L2(op, a, b)      == <<W(op), a, Comma, b>>
LM(op, r, n, base) ==
  L2(op, r, [kind |-> "mem", num |-> n, index |-> base.index])
I(op, a, b, n)    == L3(op, a, b, Num(n))
L1(op)            == <<W(op)>>
HALT == L1("HALT")
NOP  == L1("NOP")

Sequences(alphabet, n) == [1 .. n -> alphabet]
After(prefix, set)     == {prefix \o p : p \in set}

(* Late results for what follows: an address and a float. *)
Prologue == <<I("ADDI", x1, x0, 4), L3("FDIV.S", f1, f1, f2)>>

(* Renaming: true, anti and output dependences between a fast and several  *)
(* slow units, over registers that are written again and again.            *)
RenameAlphabet ==
  {I("ADDI", x1, x1, 3), L3("SUB", x2, x1, x2),
   L2("FCVT.S.W", f1, x1), L3("FDIV.S", f1, f1, f2),
   L3("FMUL.S", f2, f1, f2), L2("FCVT.W.S", x1, f1)}

(* Memory: stores and loads of two words, one of whose addresses or data   *)
(* come late.                                                              *)
MemoryAlphabet ==
  {LM("SW", x1, 4, x0), LM("LW", x2, 4, x0), LM("SW", x2, 0, x1),
   LM("LW", x1, 4, x2), LM("FSW", f1, 0, x0), LM("FLW", f1, 0, x2)}
DataPrograms ==
  After(Prologue, Sequences(RenameAlphabet, 4) \cup Sequences(MemoryAlphabet, 4))

(* Control: taken and not taken branches, backward ones, jumps through a   *)
(* register, targets outside the program, HALT with younger work.          *)
ControlAlphabet ==
  {I("BEQ", x1, x2, 8), I("BNE", x1, x2, -4), L2("JAL", x1, Num(8)),
   I("JALR", x1, x1, 6), I("ADDI", x1, x1, 4), L3("ADD", x2, x1, x2),
   HALT}
ControlPrograms == Sequences(ControlAlphabet, 4)

(* One program with every opcode. *)
EveryOpcode ==
  <<I("ADDI", x1, x0, -77), L2("LUI", x2, Num(5)),
    L3("SRA", x2, x1, x2), I("SRLI", x1, x1, 3),
    L3("XOR", x1, x1, x2), I("ORI", x2, x1, 40),
    L3("AND", x2, x2, x1), I("XORI", x1, x2, -1),
    L3("SRL", x1, x1, x2), L3("OR", x2, x1, x2),
    I("SLLI", x2, x2, 1), I("ANDI", x1, x2, 6),
    L3("SLL", x2, x2, x1), L3("SUB", x1, x2, x1),
    LM("SW", x1, 8, x0), LM("LW", x2, 8, x0), NOP,
    L2("FCVT.S.W", f1, x2), L3("FADD.S", f2, f1, f1),
    L3("FSUB.S", f1, f2, f1), L3("FMUL.S", f2, f1, f2),
    L3("FDIV.S", f1, f2, f1), LM("FSW", f1, 0, x0),
    LM("FLW", f2, 0, x0), L2("FCVT.W.S", x1, f2),
    L3("ADD", x1, x1, x1), I("BLT", x2, x1, 8),
    I("BGE", x2, x1, 8), I("BEQ", x2, x1, 8), I("BNE", x0, x0, 4),
    L2("JAL", x2, Num(8)), NOP, I("JALR", x1, x2, 12), NOP, HALT, NOP>>

(* Combinations of slow units, memory operations and forward branches. *)
StraightPrograms ==
  {<<a, b, c, d>> :
     a \in {L3("FDIV.S", f1, f1, f2), I("ADDI", x1, x0, 4)},
     b \in {L3("FDIV.S", f2, f1, f1), LM("SW", x1, 0, x1), I("BEQ", x1, x2, 8)},
     c \in {L3("FMUL.S", f1, f1, f1), LM("LW", x1, 0, x1), L2("JAL", x1, Num(8)), HALT},
     d \in {LM("FSW", f1, 4, x0), LM("LW", x1, 4, x0), L3("FDIV.S", f2, f1, f2)}}

(* Labels: forward and backward uses, defined twice, defined on the line   *)
(* of an instruction, or after the last one; comments and empty lines.     *)
LabelAlphabet ==
  {<<Label("top")>>, <<Label("out"), Hash, W("top")>>,
   <<Label("top")>> \o L1("HALT"), <<Hash>> \o HALT, << >>,
   L3("BNE", x1, x2, W("top")), L2("JAL", x1, W("out")),
   I("ADDI", x1, x1, 4) \o <<Hash, Comma>>}
LabelPrograms == Sequences(LabelAlphabet, 4)

(* No program at all, an unknown mnemonic and an unknown label, a label    *)
(* that starts with a digit, and the second form of JALR.                  *)
OddPrograms ==
  {<< >>, <<L3("MUL", x1, x1, x2), I("ADDI", x1, x0, 8), LM("JALR", x2, 4, x1), HALT, NOP>>,
   <<I("BEQ", x1, x2, 8), L2("JAL", x1, W("nowhere"))>>,
   <<L2("JAL", x1, W("8th")), NOP, <<Label("8th")>>, HALT>>}

PipelinePrograms ==
  DataPrograms \cup ControlPrograms \cup StraightPrograms \cup {EveryOpcode}
    \cup LabelPrograms \cup OddPrograms

MCStoi == [w \in {"8th"} |-> 8]

(* A store and a load of the same word at different byte addresses, behind *)
(* a divide that keeps the store from committing.                          *)
MisalignedPrograms ==
  {<<L3("FDIV.S", f1, f1, f2), I("ADDI", x1, x0, 5), LM("SW", x1, 0, x0),
     LM("LW", x2, 2, x0)>>}

(* A branch that waits for a late operand, is not taken, and has work      *)
(* behind it.                                                              *)
BranchPrograms ==
  {<<L3("FDIV.S", f1, f1, f2), L2("FCVT.W.S", x1, f1), I("BEQ", x1, x0, 8),
     I("ADDI", x2, x0, 1), HALT>>}
=============================================================================
