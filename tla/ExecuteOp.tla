------------------------------ MODULE ExecuteOp ------------------------------
(***************************************************************************)
(* What one operation computes: execute_op of reservation_station.cpp, on  *)
(* words.  Float arithmetic is the host's: the constant operator Fpu       *)
(* stands for the float expressions of execute_op, bit pattern to bit      *)
(* pattern.                                                                *)
(***************************************************************************)
EXTENDS Instruction, Words

CONSTANTS
  LuiShift,     \* 12 in the code
  Fpu(_, _, _)  \* Fpu(op, a, b): the float result of op on patterns a and b

ASSUME LuiAssumption == LuiShift \in Nat

(* Powers of two are positive and a bitwise operation on words is a word:  *)
(* arithmetic, for every WordBits.                                         *)
ASSUME WordArithmetic ==
  /\ \A n \in 0 .. WordBits + LuiShift : 2^n \in Nat \ {0}
  /\ \A a, b \in Word : {BitAnd(a, b), BitOr(a, b), BitXor(a, b)} \subseteq Word

(* The float expressions give a bit pattern of a word. *)
ASSUME FpuAssumption ==
  \A op \in FpArith \cup FpCvt : \A a, b \in Word : Fpu(op, a, b) \in Word

Taken(op, vj, vk) ==
  CASE op = "BEQ" -> Signed(vj) = Signed(vk)
    [] op = "BNE" -> Signed(vj) # Signed(vk)
    [] op = "BLT" -> Signed(vj) < Signed(vk)
    [] op = "BGE" -> Signed(vj) >= Signed(vk)

execute_op(op, vj, vk, imm, pc) ==
  CASE op = "ADD"        -> Wrap(vj + vk)
    [] op = "SUB"        -> Wrap(vj - vk)
    [] op = "AND"        -> BitAnd(vj, vk)
    [] op = "OR"         -> BitOr(vj, vk)
    [] op = "XOR"        -> BitXor(vj, vk)
    [] op = "SLL"        -> Wrap(vj * 2^ShiftAmount(vk))
    [] op = "SRL"        -> vj \div 2^ShiftAmount(vk)
    [] op = "SRA"        -> Wrap(Signed(vj) \div 2^ShiftAmount(vk))
    [] op = "ADDI"       -> Wrap(vj + imm)
    [] op = "LUI"        -> Wrap(Wrap(imm) * 2^LuiShift)
    [] op = "ANDI"       -> BitAnd(vj, Wrap(imm))
    [] op = "ORI"        -> BitOr(vj, Wrap(imm))
    [] op = "XORI"       -> BitXor(vj, Wrap(imm))
    [] op = "SLLI"       -> Wrap(vj * 2^ShiftAmount(imm))
    [] op = "SRLI"       -> vj \div 2^ShiftAmount(imm)
    [] op \in Loads \cup Stores -> Wrap(vj + imm)
    [] op \in Branches   -> Wrap(pc + (IF Taken(op, vj, vk) THEN imm ELSE 4))
    [] op = "JAL"        -> Wrap(pc + imm)
    [] op = "JALR"       -> Wrap(vj + imm) - (Wrap(vj + imm) % 2)
    [] op \in FpArith \cup FpCvt -> Fpu(op, vj, vk)
    [] OTHER             -> 0
=============================================================================
