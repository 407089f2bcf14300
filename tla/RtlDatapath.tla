----------------------------- MODULE RtlDatapath -----------------------------
(***************************************************************************)
(* The combinational logic of alu_unit.sv, branch_unit.sv and              *)
(* load_store_buffer.sv, as functions.  e is the rs_entry_t being issued.  *)
(* A word has four byte lanes of LaneBits bits.                            *)
(***************************************************************************)
EXTENDS RtlPkg

CONSTANTS
  LaneBits,        \* 8
  Fpu(_, _, _)     \* the floating-point datapaths: operation and operands

ASSUME LaneAssumption == LaneBits \in Nat \ {0} /\ WordBits = 4 * LaneBits

(* The laws of exponents for the lanes, and that a bitwise operation on    *)
(* words is a word: arithmetic, for every LaneBits.                        *)
ASSUME LaneArithmetic ==
  /\ \A n \in 0 .. WordBits : 2^n \in Nat \ {0}
  /\ 2^WordBits > 1
  /\ 2^(2 * LaneBits) = 2^LaneBits * 2^LaneBits
  /\ 2^(3 * LaneBits) = 2^LaneBits * 2^(2 * LaneBits)
  /\ 2^WordBits = 2^LaneBits * 2^(3 * LaneBits)
  /\ \A a, b \in Word : {BitAnd(a, b), BitOr(a, b), BitXor(a, b)} \subseteq Word

(* A floating-point result is a pattern of a word. *)
ASSUME FpuAssumption ==
  \A op \in FpOps \cup FpCvtOps : \A a, b \in Word : Fpu(op, a, b) \in Word

-----------------------------------------------------------------------------
Less(a, b)       == IF a < b THEN 1 ELSE 0
ShiftLeft(a, n)  == Wrap(a * 2^ShiftAmount(n))
ShiftRight(a, n) == a \div 2^ShiftAmount(n)
ShiftArith(a, n) == Wrap(Signed(a) \div 2^ShiftAmount(n))

alu_result(e) ==
  LET a == e.src[1].val
      b == IF e.op \in ImmOps THEN e.imm ELSE e.src[2].val
  IN CASE e.op \in {"ADD", "ADDI"}   -> Wrap(a + b)
       [] e.op = "SUB"               -> Wrap(a - b)
       [] e.op \in {"AND", "ANDI"}   -> BitAnd(a, b)
       [] e.op \in {"OR", "ORI"}     -> BitOr(a, b)
       [] e.op \in {"XOR", "XORI"}   -> BitXor(a, b)
       [] e.op \in {"SLL", "SLLI"}   -> ShiftLeft(a, b)
       [] e.op \in {"SRL", "SRLI"}   -> ShiftRight(a, b)
       [] e.op \in {"SRA", "SRAI"}   -> ShiftArith(a, b)
       [] e.op \in {"SLT", "SLTI"}   -> Less(Signed(a), Signed(b))
       [] e.op \in {"SLTU", "SLTIU"} -> Less(a, b)
       [] e.op = "LUI"               -> e.imm
       [] e.op = "AUIPC"             -> Wrap(e.pc + e.imm)
       [] OTHER                      -> 0

taken_next(e) ==
  LET a == e.src[1].val
      b == e.src[2].val
  IN CASE e.op = "BEQ"  -> a = b
       [] e.op = "BNE"  -> a # b
       [] e.op = "BLT"  -> Signed(a) < Signed(b)
       [] e.op = "BGE"  -> Signed(a) >= Signed(b)
       [] e.op = "BLTU" -> a < b
       [] e.op = "BGEU" -> a >= b
       [] OTHER         -> e.op \in JumpOps

target_next(e) ==
  CASE e.op \in BranchOps \cup {"JAL"} ->
         Wrap(e.pc + (IF taken_next(e) THEN e.imm ELSE 4))
    [] e.op = "JALR" -> 2 * (Wrap(e.src[1].val + e.imm) \div 2)
    [] OTHER         -> 0

-----------------------------------------------------------------------------
Lane(v, k) == (v \div 2^(LaneBits * k)) % 2^LaneBits

FromLanes(f) ==
  Lane(f[0], 0) + Lane(f[1], 0) * 2^LaneBits
    + Lane(f[2], 0) * 2^(2 * LaneBits) + Lane(f[3], 0) * 2^(3 * LaneBits)

SignExtend(v, bits) == IF v >= 2^(bits - 1) THEN Wrap(v - 2^bits) ELSE v

(* The lane of the source that a store puts on lane k of the write port. *)
SourceLane(op, k) ==
  CASE op = "SB" -> 0 [] op = "SH" -> k % 2 [] OTHER -> k

store_be(op, addr) ==
  CASE op = "SB" -> {addr % 4}
    [] op = "SH" -> IF (addr \div 2) % 2 = 1 THEN {2, 3} ELSE {0, 1}
    [] OTHER     -> 0 .. 3

Stored(old, op, addr, val) ==
  FromLanes([k \in 0 .. 3 |->
    IF k \in store_be(op, addr) THEN Lane(val, SourceLane(op, k))
                                ELSE Lane(old, k)])

Half(v, addr) == (v \div 2^(2 * LaneBits * ((addr \div 2) % 2))) % 2^(2 * LaneBits)

load_result(op, addr, word) ==
  CASE op = "LB"  -> SignExtend(Lane(word, addr % 4), LaneBits)
    [] op = "LBU" -> Lane(word, addr % 4)
    [] op = "LH"  -> SignExtend(Half(word, addr), 2 * LaneBits)
    [] op = "LHU" -> Half(word, addr)
    [] OTHER      -> word
=============================================================================
