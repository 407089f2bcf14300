---------------------------- MODULE RtlCoreProofs ----------------------------
(***************************************************************************)
(* What the RTL pipeline keeps at every clock edge, for every program and  *)
(* every size of its buffers: the types of all its registers, the window   *)
(* of the reorder buffer, the one place of every instruction in flight,    *)
(* renaming, wake-up, the straight line of fetch and the order of memory.  *)
(***************************************************************************)
EXTENDS RtlProps, FiniteSetTheorems, SequenceTheorems, WellFoundedInduction, TLAPS

(* The sizes, one by one. *)
LEMMA Sizes ==
  /\ ROB_SIZE \in Nat \ {0} /\ TagSpan = ROB_SIZE /\ Tag = Slot
  /\ NUM_REGS \in Nat \ {0} /\ MEM_SIZE \in Nat \ {0}
  /\ IQ_DEPTH \in Nat \ {0} /\ LSB_SIZE \in Nat \ {0} /\ NUM_FU = 7
  /\ PipeDepth \in [Pipe -> Nat \ {0}] /\ RS_SIZE \in [Station -> Nat \ {0}]
  BY PkgAssumption, CoreAssumption, IqAssumption, LsbAssumption, UnitAssumption,
     StationAssumption DEF Tag, Slot

-----------------------------------------------------------------------------
(* Words: every operation on words gives a word.                           *)

LEMMA WordFacts ==
  /\ WordSize \in Nat \ {0} /\ 0 \in Word
  /\ \A n \in Int : Wrap(n) \in Word
  /\ \A v \in Word : v \in Nat /\ v < WordSize /\ Signed(v) \in Int
<1>1. WordSize \in Nat \ {0}
  BY LaneArithmetic, WordAssumption DEF WordSize
<1>2. QED
  BY <1>1 DEF Word, Wrap, Signed

(* Division does not make a number larger. *)
LEMMA DivSmaller ==
  ASSUME NEW a \in Nat, NEW b \in Nat \ {0}
  PROVE  a \div b \in 0 .. a
<1> PICK q : q = a \div b
  OBVIOUS
<1>1. q \in Int /\ a = b * q + (a % b) /\ a % b \in Nat /\ a % b < b
  OBVIOUS
<1>2. q >= 0
  <2>1. q <= -1 => b * q <= -b
    BY <1>1
  <2>2. QED
    BY <1>1, <2>1
<1>3. b * q >= q
  BY <1>1, <1>2
<1>4. QED
  BY <1>1, <1>2, <1>3

LEMMA ShiftFacts ==
  ASSUME NEW n \in Int
  PROVE  2^ShiftAmount(n) \in Nat \ {0}
<1>1. ShiftAmount(n) \in 0 .. WordBits
  BY WordAssumption DEF ShiftAmount
<1>2. QED
  BY <1>1, LaneArithmetic

LEMMA WordBelow ==
  ASSUME NEW v \in Word, NEW k \in 0 .. v
  PROVE  k \in Word
  BY WordFacts DEF Word

(* One lane, two lanes. *)
LEMMA LaneFacts ==
  /\ 2^LaneBits \in Nat \ {0} /\ 2^(2 * LaneBits) \in Nat \ {0} /\ 2^(3 * LaneBits) \in Nat \ {0}
  /\ 2^LaneBits <= WordSize /\ 2^(2 * LaneBits) <= WordSize
<1>1. {LaneBits, 2 * LaneBits, 3 * LaneBits} \subseteq 0 .. WordBits
  BY LaneAssumption
<1>2. 2^LaneBits \in Nat \ {0} /\ 2^(2 * LaneBits) \in Nat \ {0} /\ 2^(3 * LaneBits) \in Nat \ {0}
  BY <1>1, LaneArithmetic
<1>3. \A a, b \in Nat \ {0} : a <= a * b
  OBVIOUS
<1>4. 2^LaneBits <= WordSize
  BY <1>2, <1>3, LaneArithmetic DEF WordSize
<1>5. 2^(2 * LaneBits) <= 2^(3 * LaneBits) /\ 2^(3 * LaneBits) <= WordSize
  <2>1. \A a, b \in Nat \ {0} : a <= b * a
    OBVIOUS
  <2>2. QED
    BY <1>2, <2>1, LaneArithmetic DEF WordSize
<1>6. QED
  BY <1>2, <1>4, <1>5, WordFacts

LEMMA LaneTyped ==
  ASSUME NEW v \in Word, NEW k \in 0 .. 3
  PROVE  Lane(v, k) \in Nat /\ Lane(v, k) < 2^LaneBits
<1>1. LaneBits * k \in 0 .. WordBits
  BY LaneAssumption
<1>2. 2^(LaneBits * k) \in Nat \ {0}
  BY <1>1, LaneArithmetic
<1>3. v \div 2^(LaneBits * k) \in Nat
  BY <1>2, DivSmaller, WordFacts
<1>4. \A a \in Nat : \A b \in Nat \ {0} : a % b \in Nat /\ a % b < b
  OBVIOUS
<1>5. QED
  BY <1>3, <1>4, LaneFacts DEF Lane

(* One more lane. *)
LEMMA LaneUp ==
  ASSUME NEW B \in Nat, NEW m \in Nat, NEW x \in Nat, NEW y \in Nat, x < m, y < B,
         NEW M, M = B * m
  PROVE  x + y * m \in Nat /\ x + y * m < M
<1> PICK z, e, r : z = y * m /\ e = B - (y + 1) /\ r = e * m
  OBVIOUS
<1>1. z \in Nat
  BY ONLY y \in Nat, m \in Nat, z = y * m
<1>2. e \in Nat /\ B = (y + 1) + e
  BY ONLY y \in Nat, B \in Nat, y < B, e = B - (y + 1)
<1>3. r \in Nat
  BY ONLY <1>2, m \in Nat, r = e * m
<1>4. M = z + m + r
  <2>1. ((y + 1) + e) * m = y * m + m + e * m
    BY ONLY <1>2, y \in Nat, m \in Nat
  <2>2. QED
    BY ONLY <1>2, <2>1, M = B * m, z = y * m, r = e * m
<1>5. QED
  BY ONLY <1>1, <1>3, <1>4, z = y * m, x \in Nat, m \in Nat, x < m

(* Four lanes are a word. *)
LEMMA FourLanes ==
  ASSUME NEW a \in Nat, NEW b \in Nat, NEW c \in Nat, NEW d \in Nat,
         a < 2^LaneBits, b < 2^LaneBits, c < 2^LaneBits, d < 2^LaneBits
  PROVE  a + b * 2^LaneBits + c * 2^(2 * LaneBits) + d * 2^(3 * LaneBits) \in Word
<1> PICK B, B2, B3, W, x, y, z :
      /\ B = 2^LaneBits /\ B2 = 2^(2 * LaneBits) /\ B3 = 2^(3 * LaneBits) /\ W = WordSize
      /\ x = a + b * B /\ y = x + c * B2 /\ z = y + d * B3
  OBVIOUS
<1>1. /\ B \in Nat /\ B2 \in Nat /\ B3 \in Nat
      /\ B2 = B * B /\ B3 = B * B2 /\ W = B * B3
  BY LaneFacts, LaneArithmetic DEF WordSize
<1>2. a < B /\ b < B /\ c < B /\ d < B
  OBVIOUS
<1>3. x \in Nat /\ x < B2
  BY ONLY <1>1, <1>2, a \in Nat, b \in Nat, x = a + b * B, LaneUp
<1>4. y \in Nat /\ y < B3
  BY ONLY <1>1, <1>2, <1>3, c \in Nat, y = x + c * B2, LaneUp
<1>5. z \in Nat /\ z < W
  BY ONLY <1>1, <1>2, <1>4, d \in Nat, z = y + d * B3, LaneUp
<1>6. QED
  BY <1>5, WordFacts DEF Word

-----------------------------------------------------------------------------
(* The types of the registers.                                             *)

Bus      == [valid : BOOLEAN, tag : Slot, value : Word]
Operands == [ready : BOOLEAN, val : Word, tag : Slot]
RsEntry  == [op : Opcode, rob_tag : Slot, src : Operands \X Operands, imm : Word, pc : Word]
RobEntry == [state : {"IDLE", "IN_FLIGHT", "DONE"}, op : Opcode, rd : Reg, rd_valid : BOOLEAN,
             result : Word, pc : Word, is_branch : BOOLEAN, branch_taken : BOOLEAN,
             branch_target : Word]
Decoded  == [op : Opcode, rd : Reg, rs1 : Reg, rs2 : Reg, imm : Word, rd_valid : BOOLEAN,
             pc : Word]
BrResult == [valid : BOOLEAN, tag : Slot, target : Word, taken : BOOLEAN]
Address  == 0 .. MEM_SIZE - 1

(* The datapaths. *)

LEMMA AluTyped ==
  ASSUME NEW e \in RsEntry
  PROVE  alu_result(e) \in Word
<1> PICK a, b, c : a = e.src[1].val /\ b = (IF e.op \in ImmOps THEN e.imm ELSE e.src[2].val)
                   /\ c = e.op
  OBVIOUS
<1>1. a \in Word /\ b \in Word /\ e.imm \in Word /\ e.pc \in Word
  BY DEF RsEntry, Operands
<1>2. a \in Nat /\ b \in Nat /\ Signed(a) \in Int /\ Signed(b) \in Int /\ e.pc + e.imm \in Int
  BY <1>1, WordFacts
<1>3. Wrap(a + b) \in Word /\ Wrap(a - b) \in Word /\ Wrap(e.pc + e.imm) \in Word
  BY <1>2, WordFacts
<1>4. BitAnd(a, b) \in Word /\ BitOr(a, b) \in Word /\ BitXor(a, b) \in Word
  BY <1>1, LaneArithmetic
<1>5. ShiftLeft(a, b) \in Word
  <2>1. a * 2^ShiftAmount(b) \in Int
    BY <1>2, ShiftFacts
  <2>2. QED
    BY <2>1, WordFacts DEF ShiftLeft
<1>6. ShiftRight(a, b) \in Word
  <2> PICK m : m = 2^ShiftAmount(b)
    OBVIOUS
  <2>0. m \in Nat \ {0}
    BY <1>2, ShiftFacts
  <2>1. a \div m \in 0 .. a
    BY <1>2, <2>0, DivSmaller
  <2>2. QED
    BY <1>1, <2>1, WordBelow DEF ShiftRight
<1>7. ShiftArith(a, b) \in Word
  <2>1. Signed(a) \div 2^ShiftAmount(b) \in Int
    BY <1>2, ShiftFacts
  <2>2. QED
    BY <2>1, WordFacts DEF ShiftArith
<1>8. 0 \in Word /\ \A x, y : Less(x, y) \in Word
  <2>1. 1 \in Word
    <3>1. WordSize > 1
      BY LaneArithmetic DEF WordSize
    <3>2. QED
      BY <3>1, WordFacts DEF Word
  <2>2. QED
    BY <2>1, WordFacts DEF Less
<1> HIDE DEF ShiftLeft, ShiftRight, ShiftArith, Less, Wrap, BitAnd, BitOr, BitXor
<1>9. alu_result(e) \in {Wrap(a + b), Wrap(a - b), BitAnd(a, b), BitOr(a, b), BitXor(a, b),
                         ShiftLeft(a, b), ShiftRight(a, b), ShiftArith(a, b),
                         Less(Signed(a), Signed(b)), Less(a, b), e.imm, Wrap(e.pc + e.imm), 0}
  <2>1. c \in {"ADD", "ADDI"} => alu_result(e) = Wrap(a + b)
    BY DEF alu_result
  <2>2. c \in {"SUB"} => alu_result(e) = Wrap(a - b)
    BY DEF alu_result
  <2>3. c \in {"AND", "ANDI"} => alu_result(e) = BitAnd(a, b)
    BY DEF alu_result
  <2>4. c \in {"OR", "ORI"} => alu_result(e) = BitOr(a, b)
    BY DEF alu_result
  <2>5. c \in {"XOR", "XORI"} => alu_result(e) = BitXor(a, b)
    BY DEF alu_result
  <2>6. c \in {"SLL", "SLLI"} => alu_result(e) = ShiftLeft(a, b)
    BY DEF alu_result
  <2>7. c \in {"SRL", "SRLI"} => alu_result(e) = ShiftRight(a, b)
    BY DEF alu_result
  <2>8. c \in {"SRA", "SRAI"} => alu_result(e) = ShiftArith(a, b)
    BY DEF alu_result
  <2>9. c \in {"SLT", "SLTI"} => alu_result(e) = Less(Signed(a), Signed(b))
    BY DEF alu_result
  <2>10. c \in {"SLTU", "SLTIU"} => alu_result(e) = Less(a, b)
    BY DEF alu_result
  <2>11. c \in {"LUI"} => alu_result(e) = e.imm
    BY DEF alu_result
  <2>12. c \in {"AUIPC"} => alu_result(e) = Wrap(e.pc + e.imm)
    BY DEF alu_result
  <2>13. c \notin RegOps \cup ImmOps \cup UpperOps => alu_result(e) = 0
    BY DEF alu_result, RegOps, ImmOps, UpperOps
  <2>14. QED
    BY <2>1, <2>2, <2>3, <2>4, <2>5, <2>6, <2>7, <2>8, <2>9, <2>10, <2>11, <2>12, <2>13 DEF RegOps, ImmOps, UpperOps
<1>10. QED
  BY <1>1, <1>3, <1>4, <1>5, <1>6, <1>7, <1>8, <1>9

LEMMA BranchTyped ==
  ASSUME NEW e \in RsEntry
  PROVE  taken_next(e) \in BOOLEAN /\ target_next(e) \in Word
<1>1. e.src[1].val \in Word /\ e.imm \in Word /\ e.pc \in Word
  BY DEF RsEntry, Operands
<1>2. taken_next(e) \in BOOLEAN
  <2>1. e.op = "BEQ" => taken_next(e) \in BOOLEAN
    BY DEF taken_next
  <2>2. e.op = "BNE" => taken_next(e) \in BOOLEAN
    BY DEF taken_next
  <2>3. e.op = "BLT" => taken_next(e) \in BOOLEAN
    BY DEF taken_next
  <2>4. e.op = "BGE" => taken_next(e) \in BOOLEAN
    BY DEF taken_next
  <2>5. e.op = "BLTU" => taken_next(e) \in BOOLEAN
    BY DEF taken_next
  <2>6. e.op = "BGEU" => taken_next(e) \in BOOLEAN
    BY DEF taken_next
  <2>7. e.op \notin BranchOps => taken_next(e) \in BOOLEAN
    <3>1. e.op \notin BranchOps => taken_next(e) = (e.op \in JumpOps)
      BY DEF taken_next, BranchOps
    <3>2. (e.op \in JumpOps) \in BOOLEAN
      OBVIOUS
    <3>3. QED
      BY ONLY <3>1, <3>2, Zenon
  <2>8. QED
    BY <2>1, <2>2, <2>3, <2>4, <2>5, <2>6, <2>7 DEF BranchOps
<1>3. e.pc + (IF taken_next(e) THEN e.imm ELSE 4) \in Int /\ e.src[1].val + e.imm \in Int
  BY <1>1, WordFacts
<1>4. Wrap(e.pc + (IF taken_next(e) THEN e.imm ELSE 4)) \in Word
  BY <1>3, WordFacts
<1>5. 2 * (Wrap(e.src[1].val + e.imm) \div 2) \in Word
  <2> PICK w : w = Wrap(e.src[1].val + e.imm)
    OBVIOUS
  <2>1. w \in Word /\ w \in Nat
    BY <1>3, WordFacts
  <2>2. 2 * (w \div 2) \in 0 .. w
    BY <2>1
  <2>3. QED
    BY <2>1, <2>2, WordBelow
<1>6. target_next(e) \in Word
  <2>1. CASE e.op \in BranchOps \cup {"JAL"}
    <3>1. target_next(e) = Wrap(e.pc + (IF taken_next(e) THEN e.imm ELSE 4))
      BY <2>1 DEF target_next, BranchOps
    <3>2. QED
      BY <1>4, <3>1
  <2>2. CASE e.op = "JALR"
    <3>1. target_next(e) = 2 * (Wrap(e.src[1].val + e.imm) \div 2)
      BY <2>2 DEF target_next, BranchOps
    <3>2. QED
      BY <1>5, <3>1
  <2>3. CASE e.op \notin BranchOps \cup {"JAL", "JALR"}
    BY <2>3, WordFacts DEF target_next
  <2>4. QED
    BY <2>1, <2>2, <2>3
<1>7. QED
  BY <1>2, <1>6

LEMMA SignExtendTyped ==
  ASSUME NEW v \in Word, NEW bits, 2^bits \in Nat
  PROVE  SignExtend(v, bits) \in Word
<1>1. v - 2^bits \in Int
  BY WordFacts
<1>2. QED
  BY <1>1, WordFacts DEF SignExtend

LEMMA LoadTyped ==
  ASSUME NEW op, NEW addr \in Word, NEW word \in Word
  PROVE  load_result(op, addr, word) \in Word
<1>1. addr \in Nat /\ addr % 4 \in 0 .. 3
  BY WordFacts
<1>2. Lane(word, addr % 4) \in Word
  <2>1. Lane(word, addr % 4) \in Nat /\ Lane(word, addr % 4) < 2^LaneBits
    BY <1>1, LaneTyped
  <2>2. QED
    BY <2>1, LaneFacts, WordFacts DEF Word
<1>3. Half(word, addr) \in Word
  <2>8. \A d \in Nat \ {0} : word \div d \in Nat
    BY DivSmaller, WordFacts
  <2>9. \A a \in Nat : \A b \in Nat \ {0} : b <= WordSize => a % b \in Word
    <3>1. \A a \in Nat : \A b \in Nat \ {0} : a % b \in Nat /\ a % b < b
      OBVIOUS
    <3>2. QED
      BY <3>1, WordFacts DEF Word
  <2> PICK k, h, m : /\ k = 2 * LaneBits * ((addr \div 2) % 2) /\ m = 2^(2 * LaneBits)
                     /\ h = 2^(2 * LaneBits * ((addr \div 2) % 2))
    OBVIOUS
  <2>1. k \in 0 .. WordBits
    <3>1. (addr \div 2) % 2 \in {0, 1}
      BY <1>1
    <3>2. \A b \in {0, 1} : 2 * LaneBits * b \in 0 .. WordBits
      BY LaneAssumption
    <3>3. QED
      BY <3>1, <3>2
  <2>2. h \in Nat \ {0} /\ m \in Nat \ {0} /\ m <= WordSize
    BY <2>1, LaneArithmetic, LaneFacts
  <2>3. word \div h \in Nat
    BY ONLY <2>2, <2>8
  <2>5. (word \div h) % m \in Word
    BY ONLY <2>2, <2>3, <2>9
  <2>6. QED
    BY <2>5 DEF Half
<1>4. SignExtend(Lane(word, addr % 4), LaneBits) \in Word
  BY <1>2, SignExtendTyped, LaneFacts
<1>5. SignExtend(Half(word, addr), 2 * LaneBits) \in Word
  BY <1>3, SignExtendTyped, LaneFacts
<1>6. QED
  <2>1. CASE op = "LB"
    BY <2>1, <1>4 DEF load_result
  <2>2. CASE op = "LBU"
    BY <2>2, <1>2 DEF load_result
  <2>3. CASE op = "LH"
    BY <2>3, <1>5 DEF load_result
  <2>4. CASE op = "LHU"
    BY <2>4, <1>3 DEF load_result
  <2>5. CASE op \notin {"LB", "LBU", "LH", "LHU"}
    BY <2>5 DEF load_result
  <2>6. QED
    BY <2>1, <2>2, <2>3, <2>4, <2>5

LEMMA StoredTyped ==
  ASSUME NEW old \in Word, NEW op, NEW addr \in Word, NEW val \in Word
  PROVE  Stored(old, op, addr, val) \in Word
<1> DEFINE f == [k \in 0 .. 3 |-> IF k \in store_be(op, addr) THEN Lane(val, SourceLane(op, k))
                                                              ELSE Lane(old, k)]
<1>1. \A k \in 0 .. 3 : f[k] \in Word
  <2> SUFFICES ASSUME NEW k \in 0 .. 3 PROVE f[k] \in Word
    OBVIOUS
  <2>1. SourceLane(op, k) \in 0 .. 3
    <3>1. k % 2 \in 0 .. 3
      OBVIOUS
    <3>2. QED
      BY <3>1 DEF SourceLane
  <2>2. /\ Lane(val, SourceLane(op, k)) \in Nat /\ Lane(val, SourceLane(op, k)) < 2^LaneBits
        /\ Lane(old, k) \in Nat /\ Lane(old, k) < 2^LaneBits
    BY <2>1, LaneTyped
  <2>3. QED
    BY <2>2, LaneFacts, WordFacts DEF Word
<1>2. Stored(old, op, addr, val) = FromLanes(f)
  BY DEF Stored
<1> HIDE DEF f
<1>3. \A k \in 0 .. 3 : Lane(f[k], 0) \in Nat /\ Lane(f[k], 0) < 2^LaneBits
  BY <1>1, LaneTyped
<1>4. FromLanes(f) \in Word
  BY <1>3, FourLanes DEF FromLanes
<1>5. QED
  BY <1>2, <1>4

-----------------------------------------------------------------------------
(* Type correctness, register by register.  The number of occupied slots   *)
(* of the reorder buffer is bounded further down.                          *)

LsbSlot == 0 .. LSB_SIZE - 1

FetchT ==
  /\ imem \in [Address -> RawWord] /\ instr_raw \in RawWord
  /\ fetch \in [pc : Word, pc_d : Word, valid : BOOLEAN]
  /\ iq \in [entries : [0 .. IQ_DEPTH - 1 -> Decoded], head : 0 .. IQ_DEPTH - 1,
             tail : 0 .. IQ_DEPTH - 1, count : 0 .. IQ_DEPTH]
RobT ==
  /\ entries \in [Slot -> RobEntry] /\ head \in Slot /\ tail \in Slot
  /\ count \in Int /\ rob_head_reg \in Slot
RenameT ==
  /\ rat \in [Reg -> [valid : BOOLEAN, tag : Slot]]
  /\ regs \in [Reg -> Word]
StationT ==
  \A s \in Station :
    /\ busy[s] \subseteq Slots(s)
    /\ slots[s] \in [Slots(s) -> RsEntry]
    /\ \A i \in busy[s] : target(slots[s][i].op) = s
UnitT ==
  /\ alu \in Bus /\ alu_cdb \in Bus /\ br_cdb \in Bus /\ br \in BrResult
  /\ br_d \in [op : Opcode, pc : Word]
  /\ \A u \in Pipe : pipe[u] \in [1 .. PipeDepth[u] -> Bus]
  /\ div \in [state : {"IDLE", "DIVIDE", "DONE"}, cnt : Nat, tag : Slot, value : Word]
LsbT ==
  /\ lsb \in [entries : [LsbSlot -> RsEntry], valid : SUBSET LsbSlot,
              notified : SUBSET LsbSlot, head : LsbSlot, tail : LsbSlot, count : Int]
  /\ load \in [pending : BOOLEAN, tag : Slot, op : Opcode, addr : Word]
MemT == dmem \in [Address -> Word] /\ mem_rd_data \in Word
BusT == last_grant \in Fu /\ halted \in BOOLEAN

TInv == FetchT /\ RobT /\ RenameT /\ StationT /\ UnitT /\ LsbT /\ MemT /\ BusT

-----------------------------------------------------------------------------
(* The wires.                                                              *)

LEMMA TargetFacts ==
  ASSUME NEW op \in Opcode
  PROVE  /\ target(op) \in Station \cup {"lsb"}
         /\ target(op) \in Pipe \cup {"fp_div"} => op \in FpOps \cup FpCvtOps
         /\ target(op) = "lsb" <=> op \in LoadOps \cup StoreOps
         /\ target(op) = "br" <=> op \in BranchOps \cup JumpOps
<1> USE DEF Station, Pipe, BranchOps, JumpOps, FpAddOps, FpOps, FpCvtOps, LoadOps, StoreOps
<1>1. CASE op \in BranchOps \cup JumpOps
  BY <1>1 DEF target
<1>2. CASE op \in FpAddOps
  BY <1>2 DEF target
<1>3. CASE op = "FMUL_S"
  BY <1>3 DEF target
<1>4. CASE op = "FDIV_S"
  BY <1>4 DEF target
<1>5. CASE op \in LoadOps \cup StoreOps
  BY <1>5 DEF target
<1>6. CASE op \in FpCvtOps
  BY <1>6 DEF target
<1>7. CASE op \notin BranchOps \cup JumpOps \cup FpAddOps \cup {"FMUL_S", "FDIV_S"}
                       \cup LoadOps \cup StoreOps \cup FpCvtOps
  <2>1. target(op) = "alu"
    BY <1>7 DEF target
  <2>2. QED
    BY <2>1, <1>7
<1>8. QED
  BY <1>1, <1>2, <1>3, <1>4, <1>5, <1>6, <1>7

(* A nonempty set of numbers has a least one. *)
LEMMA MinIn ==
  ASSUME NEW S \in SUBSET Nat, S # {}
  PROVE  Min(S) \in S /\ \A y \in S : Min(S) <= y
<1>1. \E x \in S : \A y \in S : ~ <<y, x>> \in OpToRel(<, Nat)
  BY NatLessThanWellFounded, WFMin, Zenon
<1>2. PICK x \in S : \A y \in S : ~ <<y, x>> \in OpToRel(<, Nat)
  BY <1>1
<1>3. \A y \in S : x <= y
  <2> SUFFICES ASSUME NEW y \in S, ~(x <= y) PROVE FALSE
    OBVIOUS
  <2>1. x \in Nat /\ y \in Nat /\ y < x
    OBVIOUS
  <2>2. <<y, x>> \in OpToRel(<, Nat)
    BY <2>1 DEF OpToRel
  <2>3. QED
    BY <1>2, <2>2
<1>4. QED
  BY <1>3 DEF Min

(* The arbiter serves a requester. *)
LEMMA GrantIn ==
  ASSUME last_grant \in Fu, NEW req \in SUBSET Fu, req # {}
  PROVE  Grant(req) \in req
<1> DEFINE R == {Rank(i) : i \in req}
<1>1. \A i \in Fu : Rank(i) \in Nat
  BY FuAssumption DEF Fu, base, Rank
<1>2. R \in SUBSET Nat /\ R # {}
  BY <1>1
<1> HIDE DEF R
<1>3. Min(R) \in R /\ \A y \in R : Min(R) <= y
  BY <1>2, MinIn
<1>4. \E i \in req : \A j \in req : Rank(i) <= Rank(j)
  BY <1>3 DEF R
<1>5. QED
  BY <1>4 DEF Grant

LEMMA NotifyIn ==
  ASSUME LsbT
  PROVE  /\ store_ready_vec \subseteq lsb.valid \ lsb.notified
         /\ store_ready_vec # {} => store_notify_idx \in store_ready_vec
         /\ store_notify_idx \in LsbSlot
<1>1. store_ready_vec \subseteq lsb.valid \ lsb.notified
  BY DEF store_ready_vec
<1>2. store_ready_vec \in SUBSET Nat /\ store_ready_vec \subseteq LsbSlot
  BY <1>1, Sizes DEF LsbT, LsbSlot
<1>3. store_ready_vec # {} => store_notify_idx \in store_ready_vec
  BY <1>2, MinIn DEF store_notify_idx
<1>4. store_ready_vec = {} => store_notify_idx = LSB_SIZE - 1
  BY DEF store_notify_idx
<1>5. LSB_SIZE - 1 \in LsbSlot
  BY Sizes DEF LsbSlot
<1>6. QED
  BY ONLY <1>1, <1>2, <1>3, <1>4, <1>5

LEMMA HeadTyped ==
  ASSUME LsbT
  PROVE  head_entry \in RsEntry /\ head_addr \in Word
<1>1. head_entry \in RsEntry
  BY DEF head_entry, LsbT, LsbSlot
<1>2. head_entry.src[1].val + head_entry.imm \in Int
  BY <1>1, WordFacts DEF RsEntry, Operands
<1>3. QED
  BY <1>1, <1>2, WordFacts DEF head_addr

LEMMA LsbBusTyped ==
  ASSUME LsbT, MemT
  PROVE  lsb_bus \in Bus
<1>1. lsb.entries[store_notify_idx].rob_tag \in Slot
  BY NotifyIn DEF LsbT, RsEntry
<1>2. load_result(load.op, load.addr, mem_rd_data) \in Word
  BY LoadTyped DEF LsbT, MemT
<1>3. load.pending \in BOOLEAN /\ load.tag \in Slot
  BY DEF LsbT
<1>4. lsb_bus.valid \in BOOLEAN
  BY <1>3 DEF lsb_bus
<1>5. QED
  BY <1>1, <1>2, <1>3, <1>4, WordFacts DEF lsb_bus, Bus

LEMMA ResultsTyped ==
  ASSUME TInv, NEW i \in Fu
  PROVE  fu_results(i) \in Bus
<1>1. \A u \in Pipe : pipe[u][PipeDepth[u]] \in Bus
  BY Sizes DEF TInv, UnitT
<1>2. div_bus \in Bus
  BY DEF TInv, UnitT, div_bus, Bus
<1>3. alu_cdb \in Bus /\ br_cdb \in Bus /\ lsb_bus \in Bus
  BY LsbBusTyped DEF TInv, UnitT
<1>4. i \in {0, 1, 2, 3, 4, 5, 6}
  BY Sizes DEF Fu
<1>5. QED
  BY <1>1, <1>2, <1>3, <1>4 DEF fu_results, Pipe

LEMMA CdbTyped ==
  ASSUME TInv
  PROVE  /\ Requests \subseteq Fu
         /\ Requests # {} => Grant(Requests) \in Requests
         /\ cdb_w \in Bus
         /\ cdb_w.valid <=> Requests # {}
<1>1. Requests \subseteq Fu
  BY DEF Requests
<1>2. Requests # {} => Grant(Requests) \in Requests
  BY <1>1, GrantIn DEF TInv, BusT
<1>3. ZeroBus \in Bus
  BY Sizes, WordFacts DEF ZeroBus, Bus, Slot
<1>4. QED
  BY <1>1, <1>2, <1>3, ResultsTyped DEF cdb_w, Requests, ZeroBus

LEMMA CommitTyped ==
  ASSUME TInv
  PROVE  /\ retiring \in RobEntry
         /\ wr.reg \in Reg /\ wr.tag \in Slot /\ wr.val \in Word /\ wr.en \in BOOLEAN
         /\ redirect \in Word /\ flush \in BOOLEAN /\ commit \in BOOLEAN
         /\ halted_core \in BOOLEAN
<1>1. retiring \in RobEntry
  BY DEF TInv, RobT, retiring, ROB!commit_entry_o
<1>2. commit \in BOOLEAN
  BY DEF commit, ROB!commit_valid_o
<1>3. wr.reg \in Reg /\ wr.tag \in Slot /\ wr.val \in Word
  BY <1>1 DEF wr, RobEntry, TInv, RobT
<1>4. wr.en \in BOOLEAN
  BY <1>1, <1>2 DEF wr, RobEntry
<1>5. redirect \in Word /\ flush \in BOOLEAN
  BY <1>1, <1>2, WordFacts DEF redirect, RobEntry, flush
<1>6. QED
  BY <1>1, <1>2, <1>3, <1>4, <1>5 DEF halted_core

LEMMA OperandTyped ==
  ASSUME TInv, NEW r \in Reg
  PROVE  operand(r) \in Operands
<1>1. rat[r].tag \in Slot
  BY DEF TInv, RenameT
<1>2. reg_val_o(r, wr) \in Word
  BY CommitTyped DEF TInv, RenameT, reg_val_o
<1>3. ROB!lookup_val(rat[r].tag) \in Word
  BY <1>1 DEF TInv, RobT, RobEntry, ROB!lookup_val
<1>4. cdb_w.value \in Word /\ 0 \in Word
  BY CdbTyped, WordFacts DEF Bus
<1>5. QED
  BY <1>1, <1>2, <1>3, <1>4 DEF operand, Operands

LEMMA EntryTyped ==
  ASSUME TInv
  PROVE  iq_instr \in Decoded /\ entry \in RsEntry /\ iq_instr.op \in Opcode
<1>1. iq_instr \in Decoded
  BY DEF TInv, FetchT, iq_instr
<1>2. operand(iq_instr.rs1) \in Operands /\ operand(iq_instr.rs2) \in Operands
  BY <1>1, OperandTyped DEF Decoded
<1>3. QED
  BY <1>1, <1>2 DEF entry, RsEntry, Decoded, TInv, RobT
-----------------------------------------------------------------------------
(* Reset.                                                                  *)

LEMMA ZeroTyped ==
  /\ ZeroBus \in Bus /\ ZeroRobEntry \in RobEntry /\ ZeroRsEntry \in RsEntry
  /\ ZeroBr \in BrResult /\ X0 \in Reg /\ 0 \in Slot
  /\ ZeroRaw \in RawWord
  /\ ZeroDiv \in [state : {"IDLE", "DIVIDE", "DONE"}, cnt : Nat, tag : Slot, value : Word]
  /\ \A u \in Pipe : ZeroPipe[u] \in [1 .. PipeDepth[u] -> Bus]
  /\ {"ADD", "NOP", "LW"} \subseteq Opcode
<1>1. 0 \in Slot /\ 0 \in Word /\ 0 \in 0 .. NUM_REGS - 1
  BY Sizes, WordFacts DEF Slot
<1>2. X0 \in Reg
  BY <1>1 DEF X0, X, Reg
<1>3. {"ADD", "NOP", "LW"} \subseteq Opcode
  BY DEF Opcode, RegOps, LoadOps
<1>4. ZeroBus \in Bus /\ ZeroBr \in BrResult
  BY <1>1 DEF ZeroBus, Bus, ZeroBr, BrResult
<1>5. ZeroRobEntry \in RobEntry
  BY <1>1, <1>2, <1>3 DEF ZeroRobEntry, RobEntry
<1>6. ZeroRsEntry \in RsEntry
  BY <1>1, <1>3 DEF ZeroRsEntry, RsEntry, ZeroSource, Operands
<1>7. ZeroRaw \in RawWord
  <2>1. "NOP" \notin StoreOps \cup BranchOps
    BY DEF StoreOps, BranchOps
  <2>2. "00" \in Major
    BY DEF Major
  <2>3. ZeroRaw \in [opcode : Major, op : Opcode, rd : 0 .. NUM_REGS - 1,
            rs1 : 0 .. NUM_REGS - 1, rs2 : 0 .. NUM_REGS - 1, imm : Word]
    BY <1>1, <1>3, <2>2 DEF ZeroRaw
  <2>4. ZeroRaw.op = "NOP"
    BY DEF ZeroRaw
  <2>5. QED
    BY <2>1, <2>3, <2>4 DEF RawWord
<1>8. QED
  BY <1>1, <1>2, <1>3, <1>4, <1>5, <1>6, <1>7 DEF ZeroDiv, ZeroPipe

(* The reorder buffer, an instance, has its own copies of the package. *)
LEMMA RobNames ==
  /\ ROB!Slot = Slot /\ ROB!ZeroRobEntry = ZeroRobEntry
  /\ \A op : ROB!is_branch_op(op) \/ ROB!is_jump_op(op) <=> op \in BranchOps \cup JumpOps
  BY DEF ROB!Slot, Slot, ROB!ZeroRobEntry, ZeroRobEntry, ROB!X0, X0, ROB!X, X,
         ROB!is_branch_op, ROB!is_jump_op, ROB!BranchOps, BranchOps, ROB!JumpOps, JumpOps

LEMMA DecodeTyped ==
  ASSUME NEW raw \in RawWord, NEW pc \in Word
  PROVE  decode(raw, pc) \in Decoded
<1>1. /\ raw.op \in Opcode /\ raw.imm \in Word
      /\ {raw.rd, raw.rs1, raw.rs2} \subseteq 0 .. NUM_REGS - 1
  BY DEF RawWord
<1>3. writes_rd(raw) \in BOOLEAN
  BY DEF writes_rd
<1>4. /\ Field(writes_rd(raw), raw.op \in FpRdOps, raw.rd) \in Reg
      /\ Field(raw.opcode \in Rs1Opcodes \/ raw.op \in Rs1Ops, raw.op \in FpRs1Ops, raw.rs1) \in Reg
      /\ Field(raw.opcode \in Rs2Opcodes \/ raw.op \in Rs2Ops, raw.op \in FpRs2Ops, raw.rs2) \in Reg
  BY <1>1, ZeroTyped DEF Field, Reg
<1>5. QED
  BY <1>1, <1>3, <1>4 DEF decode, Decoded

LEMMA InitT == Init => TInv
<1> SUFFICES ASSUME Init PROVE TInv
  OBVIOUS
<1>1. FetchT
  <2>1. PICK p \in Programs : imem = [w \in 0 .. MEM_SIZE - 1 |->
                 IF w < Len(p) THEN p[w + 1] ELSE ZeroRaw]
    BY DEF Init
  <2>2. p \in Seq(RawWord)
    BY ImageAssumption
  <2>3. imem \in [Address -> RawWord]
    <3> SUFFICES ASSUME NEW w \in 0 .. MEM_SIZE - 1
                 PROVE (IF w < Len(p) THEN p[w + 1] ELSE ZeroRaw) \in RawWord
      BY <2>1 DEF Address
    <3>1. w < Len(p) => w + 1 \in 1 .. Len(p)
      BY <2>2, Sizes
    <3>2. QED
      BY <3>1, <2>2, ZeroTyped
  <2>4. decode(ZeroRaw, 0) \in Decoded
    BY DecodeTyped, ZeroTyped, WordFacts
  <2>5. instr_raw \in RawWord
    BY ZeroTyped DEF Init, FetchInit
  <2>6. fetch \in [pc : Word, pc_d : Word, valid : BOOLEAN]
    BY WordFacts DEF Init, FetchInit
  <2>7. 0 \in 0 .. IQ_DEPTH - 1 /\ 0 \in 0 .. IQ_DEPTH
    BY Sizes
  <2>8. [i \in 0 .. IQ_DEPTH - 1 |-> decode(ZeroRaw, 0)] \in [0 .. IQ_DEPTH - 1 -> Decoded]
    BY <2>4
  <2>9. EmptyQueue \in [entries : [0 .. IQ_DEPTH - 1 -> Decoded], head : 0 .. IQ_DEPTH - 1,
                        tail : 0 .. IQ_DEPTH - 1, count : 0 .. IQ_DEPTH]
    BY <2>7, <2>8 DEF EmptyQueue
  <2>10. iq = EmptyQueue
    BY DEF Init, FetchInit
  <2>11. QED
    BY <2>3, <2>5, <2>6, <2>9, <2>10 DEF FetchT
<1>2. RobT
  BY ZeroTyped, RobNames DEF Init, ROB!RobInit, RobT
<1>3. RenameT
  BY ZeroTyped, WordFacts DEF Init, RenameInit, RenameT, Unmapped
<1>4. StationT
  BY ZeroTyped DEF Init, StationInit, StationT
<1>5. UnitT
  BY ZeroTyped, WordFacts DEF Init, UnitInit, UnitT
<1>6. LsbT
  <2>1. 0 \in LsbSlot
    BY Sizes DEF LsbSlot
  <2>2. QED
    BY <2>1, ZeroTyped, WordFacts DEF Init, LsbInit, LsbT, EmptyLsb, NoLoad, LsbSlot
<1>7. MemT
  BY ImageAssumption, WordFacts DEF Init, MemT, Address
<1>8. BusT
  <2>1. 0 \in Fu
    BY Sizes DEF Fu
  <2>2. QED
    BY <2>1 DEF Init, BusT, CdbInit
<1>9. QED
  BY <1>1, <1>2, <1>3, <1>4, <1>5, <1>6, <1>7, <1>8 DEF TInv
-----------------------------------------------------------------------------
(* One edge keeps the types.                                               *)

LEMMA IndexTyped ==
  ASSUME NEW a \in Word
  PROVE  WordIndex(a) \in Address
<1>1. a \div 4 \in Int
  BY WordFacts
<1>2. QED
  BY <1>1, Sizes DEF WordIndex, Address

LEMMA TagTyped ==
  ASSUME NEW t \in Slot
  PROVE  ROB!NextTag(t) \in Slot /\ ROB!NextTag(t) = IF t = ROB_SIZE - 1 THEN 0 ELSE t + 1
<1> USE Sizes DEF Slot, ROB!NextTag
<1>1. CASE t = ROB_SIZE - 1
  BY <1>1
<1>2. CASE t # ROB_SIZE - 1
  BY <1>2
<1>3. QED
  BY <1>1, <1>2

LEMMA WrapsSmall ==
  ASSUME NEW n \in Nat \ {0}, NEW a \in 0 .. n - 1
  PROVE  (a + 1) % n = (IF a = n - 1 THEN 0 ELSE a + 1) /\ (a + 0) % n = a
<1>1. CASE a = n - 1
  BY <1>1
<1>2. CASE a # n - 1
  BY <1>2
<1>3. QED
  BY <1>1, <1>2

(* The instruction queue moves by one place at each end. *)
LEMMA QueueEdgeFacts ==
  ASSUME TInv, Clock, ~flush
  PROVE  /\ iq'.entries = IF fetch.valid /\ ~iq_full
                            THEN [iq.entries EXCEPT ![iq.tail] = decode(instr_raw, fetch.pc_d)]
                            ELSE iq.entries
         /\ iq'.tail = IF fetch.valid /\ ~iq_full
                         THEN IF iq.tail = IQ_DEPTH - 1 THEN 0 ELSE iq.tail + 1 ELSE iq.tail
         /\ iq'.head = IF dispatch
                         THEN IF iq.head = IQ_DEPTH - 1 THEN 0 ELSE iq.head + 1 ELSE iq.head
         /\ iq'.count = iq.count + (IF fetch.valid /\ ~iq_full THEN 1 ELSE 0)
                                 - (IF dispatch THEN 1 ELSE 0)
         /\ iq' = [entries |-> iq'.entries, tail |-> iq'.tail, head |-> iq'.head,
                   count |-> iq'.count]
<1>1. iq.tail \in 0 .. IQ_DEPTH - 1 /\ iq.head \in 0 .. IQ_DEPTH - 1
  BY DEF TInv, FetchT
<1>2. dispatch => iq_valid
  BY DEF dispatch
<1>3. /\ (iq.tail + 1) % IQ_DEPTH = (IF iq.tail = IQ_DEPTH - 1 THEN 0 ELSE iq.tail + 1)
      /\ (iq.head + 1) % IQ_DEPTH = (IF iq.head = IQ_DEPTH - 1 THEN 0 ELSE iq.head + 1)
      /\ (iq.tail + 0) % IQ_DEPTH = iq.tail /\ (iq.head + 0) % IQ_DEPTH = iq.head
  BY <1>1, WrapsSmall, Sizes
<1>4. iq' = [entries |-> IF fetch.valid /\ ~iq_full
                           THEN [iq.entries EXCEPT ![iq.tail] = decode(instr_raw, fetch.pc_d)]
                           ELSE iq.entries,
             tail  |-> (iq.tail + (IF fetch.valid /\ ~iq_full THEN 1 ELSE 0)) % IQ_DEPTH,
             head  |-> (iq.head + (IF dispatch THEN 1 ELSE 0)) % IQ_DEPTH,
             count |-> iq.count + (IF fetch.valid /\ ~iq_full THEN 1 ELSE 0)
                                - (IF dispatch THEN 1 ELSE 0)]
  BY <1>2 DEF Clock, QueueClock
<1>5. QED
  BY <1>3, <1>4

LEMMA FetchStepT ==
  ASSUME TInv, Clock
  PROVE  FetchT'
<1>1. imem_read_pc \in Word /\ fetch.pc_d \in Word /\ fetch.pc \in Word
  BY DEF TInv, FetchT, imem_read_pc
<1>2. imem' \in [Address -> RawWord] /\ instr_raw' \in RawWord
  BY <1>1, IndexTyped DEF TInv, FetchT, Clock, FetchClock
<1>3. fetch' \in [pc : Word, pc_d : Word, valid : BOOLEAN]
  <2>1. Wrap(fetch.pc + 4) \in Word
    BY <1>1, WordFacts
  <2>2. QED
    BY <1>1, <2>1, CommitTyped DEF TInv, FetchT, Clock, FetchClock
<1>4. iq' \in [entries : [0 .. IQ_DEPTH - 1 -> Decoded], head : 0 .. IQ_DEPTH - 1,
               tail : 0 .. IQ_DEPTH - 1, count : 0 .. IQ_DEPTH]
  <2>1. CASE flush
    <3>1. iq' = [iq EXCEPT !.head = 0, !.tail = 0, !.count = 0]
      BY <2>1 DEF Clock, QueueClock
    <3>2. 0 \in 0 .. IQ_DEPTH - 1 /\ 0 \in 0 .. IQ_DEPTH
      BY Sizes
    <3>3. QED
      BY <3>1, <3>2 DEF TInv, FetchT
  <2>2. CASE ~flush
    <3>1. decode(instr_raw, fetch.pc_d) \in Decoded
      BY <1>1, DecodeTyped DEF TInv, FetchT
    <3>2. iq'.entries \in [0 .. IQ_DEPTH - 1 -> Decoded]
      BY <2>2, <3>1, QueueEdgeFacts DEF TInv, FetchT
    <3>3. iq'.head \in 0 .. IQ_DEPTH - 1 /\ iq'.tail \in 0 .. IQ_DEPTH - 1
      <4> PICK n, h, t : n = IQ_DEPTH /\ h = iq.head /\ t = iq.tail
        OBVIOUS
      <4>1. n \in Nat \ {0} /\ h \in 0 .. n - 1 /\ t \in 0 .. n - 1
        BY Sizes DEF TInv, FetchT
      <4>2. /\ iq'.head \in {h, 0} \/ (iq'.head = h + 1 /\ h # n - 1)
            /\ iq'.tail \in {t, 0} \/ (iq'.tail = t + 1 /\ t # n - 1)
        BY ONLY <2>2, TInv, Clock, QueueEdgeFacts, n = IQ_DEPTH, h = iq.head, t = iq.tail
      <4>3. iq'.head \in 0 .. n - 1
        BY ONLY <4>1, <4>2
      <4>4. iq'.tail \in 0 .. n - 1
        BY ONLY <4>1, <4>2
      <4>5. QED
        BY <4>3, <4>4
    <3>4. iq'.count \in 0 .. IQ_DEPTH
      <4>1. dispatch => iq.count # 0
        BY DEF dispatch, iq_valid
      <4>2. ~iq_full <=> iq.count # IQ_DEPTH
        BY DEF iq_full
      <4>3. iq.count \in 0 .. IQ_DEPTH
        BY DEF TInv, FetchT
      <4>4. QED
        BY <2>2, <4>1, <4>2, <4>3, QueueEdgeFacts, Sizes
    <3>5. QED
      BY <2>2, <3>2, <3>3, <3>4, QueueEdgeFacts
  <2>3. QED
    BY <2>1, <2>2
<1>5. QED
  BY <1>2, <1>3, <1>4 DEF FetchT

(* What an edge does to the reorder buffer. *)
LEMMA RobEdgeFacts ==
  ASSUME TInv, Clock
  PROVE  /\ flush => /\ entries' = [t \in Slot |-> ZeroRobEntry]
                     /\ head' = 0 /\ tail' = 0 /\ count' = 0 /\ rob_head_reg' = 0
         /\ ~flush =>
              /\ entries' = [t \in Slot |->
                   ROB!NextEntry(t, dispatch, iq_instr, cdb_w, br, commit)]
              /\ tail' = IF dispatch THEN ROB!NextTag(tail) ELSE tail
              /\ head' = IF commit THEN ROB!NextTag(head) ELSE head
              /\ count' = count + (IF dispatch THEN 1 ELSE 0) - (IF commit THEN 1 ELSE 0)
              /\ rob_head_reg' = IF commit THEN ROB!NextTag(rob_head_reg) ELSE rob_head_reg
         /\ dispatch => count # ROB_SIZE
<1>1. dispatch => ~ROB!rob_full_o
  BY DEF dispatch
<1>2. commit <=> ROB!commit_valid_o
  BY DEF commit
<1>3. flush => ROB!RobFlush
  BY DEF Clock, ROB!RobClock
<1>4. ~flush => ROB!RobEdge(dispatch /\ ~ROB!rob_full_o, iq_instr, cdb_w, br,
                            commit /\ ROB!commit_valid_o)
  BY DEF Clock, ROB!RobClock
<1>5. (dispatch /\ ~ROB!rob_full_o) = dispatch /\ (commit /\ ROB!commit_valid_o) = commit
  BY <1>1, <1>2, Zenon DEF dispatch, commit, ROB!commit_valid_o
<1>6. ~flush => ROB!RobEdge(dispatch, iq_instr, cdb_w, br, commit)
  BY <1>4, <1>5
<1>7. QED
  BY <1>1, <1>3, <1>6, RobNames DEF ROB!RobFlush, ROB!RobEdge, ROB!rob_full_o, Clock, HeadClock

LEMMA RobStepT ==
  ASSUME TInv, Clock
  PROVE  RobT'
<1>1. CASE flush
  BY <1>1, RobEdgeFacts, ZeroTyped DEF RobT
<1>2. CASE ~flush
  <2>1. \A t \in Slot : ROB!NextEntry(t, dispatch, iq_instr, cdb_w, br, commit) \in RobEntry
    <3> SUFFICES ASSUME NEW t \in Slot
                 PROVE  ROB!NextEntry(t, dispatch, iq_instr, cdb_w, br, commit) \in RobEntry
      OBVIOUS
    <3> PICK e : e = entries[t]
      OBVIOUS
    <3>1. e \in RobEntry
      BY DEF TInv, RobT
    <3>2. ROB!Retired(e) \in RobEntry
      BY <3>1 DEF ROB!Retired, RobEntry
    <3>3. ROB!Allocated(iq_instr) \in RobEntry
      <4>1. (ROB!is_branch_op(iq_instr.op) \/ ROB!is_jump_op(iq_instr.op)) \in BOOLEAN
        OBVIOUS
      <4>2. QED
        BY <4>1, EntryTyped, WordFacts DEF ROB!Allocated, RobEntry, Decoded
    <3>4. ROB!Resolved(e, br) \in RobEntry
      <4>1. br.taken \in BOOLEAN /\ br.target \in Word
        BY DEF TInv, UnitT, BrResult
      <4>2. QED
        BY <3>1, <4>1 DEF ROB!Resolved, RobEntry
    <3>5. ROB!Written(e, cdb_w.value) \in RobEntry
      <4>1. cdb_w.value \in Word
        BY CdbTyped DEF Bus
      <4>2. QED
        BY <3>1, <4>1 DEF ROB!Written, RobEntry
    <3>6. QED
      BY <3>1, <3>2, <3>3, <3>4, <3>5 DEF ROB!NextEntry
  <2>2. head' \in Slot /\ tail' \in Slot /\ count' \in Int /\ rob_head_reg' \in Slot
    BY <1>2, RobEdgeFacts, TagTyped DEF TInv, RobT
  <2>3. QED
    BY <1>2, <2>1, <2>2, RobEdgeFacts DEF RobT
<1>3. QED
  BY <1>1, <1>2

LEMMA RenameStepT ==
  ASSUME TInv, Clock
  PROVE  RenameT'
<1>1. rat' \in [Reg -> [valid : BOOLEAN, tag : Slot]]
  <2>1. Unmapped \in [valid : BOOLEAN, tag : Slot]
    BY ZeroTyped DEF Unmapped
  <2>2. \A r \in Reg : NextMapping(r, map, wr) \in [valid : BOOLEAN, tag : Slot]
    BY <2>1 DEF NextMapping, map, TInv, RobT, RenameT
  <2>3. QED
    BY <2>1, <2>2 DEF Clock, RatClock
<1>2. regs' \in [Reg -> Word]
  BY CommitTyped DEF Clock, RegfileClock, TInv, RenameT
<1>3. QED
  BY <1>1, <1>2 DEF RenameT

LEMMA SnoopTyped ==
  ASSUME NEW e \in RsEntry, NEW c \in Bus
  PROVE  Snooped(e, c) \in RsEntry /\ Snooped(e, c).op = e.op
         /\ Snooped(e, c).rob_tag = e.rob_tag
<1>1. e.src[1] \in Operands /\ e.src[2] \in Operands
  BY DEF RsEntry
<1>2. \A x \in Operands : Captured(x, c) \in Operands
  BY DEF Captured, Operands, Bus
<1>3. QED
  BY <1>1, <1>2 DEF Snooped, RsEntry

(* What an edge does to the stations. *)
LEMMA StationEdgeFacts ==
  ASSUME TInv, Clock, NEW s \in Station
  PROVE  /\ flush => busy'[s] = {} /\ slots'[s] = [i \in Slots(s) |-> ZeroRsEntry]
         /\ ~flush =>
              /\ busy'[s] = (busy[s] \cup
                   (IF s = dispatch_to /\ ~rs_full_o(s) THEN {dispatch_idx(s)} ELSE {}))
                     \ (IF issue(s) THEN {issue_idx(s)} ELSE {})
              /\ slots'[s] = [i \in Slots(s) |->
                   NextSlot(s, i, s = dispatch_to /\ ~rs_full_o(s), entry, cdb_w)]
         /\ dispatch_idx(s) \in Slots(s) /\ issue_idx(s) \in Slots(s)
         /\ ~rs_full_o(s) => dispatch_idx(s) \notin busy[s]
         /\ issue(s) => issue_idx(s) \in busy[s] /\ BothReady(slots[s][issue_idx(s)])
         /\ s = dispatch_to => ~rs_full_o(s)
<1>1. Slots(s) \in SUBSET Nat /\ RS_SIZE[s] - 1 \in Slots(s) /\ busy[s] \subseteq Slots(s)
  BY Sizes DEF Slots, TInv, StationT
<1>2. \A S \in SUBSET Slots(s) : Lowest(s, S) \in Slots(s) /\ (S # {} => Lowest(s, S) \in S)
  BY <1>1, MinIn DEF Lowest
<1>3. dispatch_idx(s) \in Slots(s) /\ (~rs_full_o(s) => dispatch_idx(s) \notin busy[s])
  <2>1. ~rs_full_o(s) => Slots(s) \ busy[s] # {}
    BY <1>1 DEF rs_full_o
  <2>2. QED
    BY <1>2, <2>1 DEF dispatch_idx
<1>4. /\ issue_idx(s) \in Slots(s)
      /\ issue(s) => issue_idx(s) \in busy[s] /\ BothReady(slots[s][issue_idx(s)])
  <2>1. ready_vec(s) \in SUBSET Slots(s)
    BY <1>1 DEF ready_vec
  <2>2. issue_idx(s) \in Slots(s) /\ (ready_vec(s) # {} => issue_idx(s) \in ready_vec(s))
    BY <1>2, <2>1 DEF issue_idx
  <2>3. issue(s) => ready_vec(s) # {}
    BY DEF issue, issue_valid_o
  <2>4. QED
    BY <2>2, <2>3 DEF ready_vec
<1>5. s = dispatch_to => ~rs_full_o(s)
  BY DEF dispatch_to, dispatch, target_full, Station
<1>6. issue_valid_o(s, s \in {x \in Station : fu_ready(x)}) <=> issue(s)
  BY DEF issue, issue_valid_o
<1>7. flush => busy'[s] = {} /\ slots'[s] = [i \in Slots(s) |-> ZeroRsEntry]
  BY DEF Clock, StationClock
<1>8. ~flush =>
        /\ busy'[s] = (busy[s] \cup
             (IF s = dispatch_to /\ ~rs_full_o(s) THEN {dispatch_idx(s)} ELSE {}))
               \ (IF issue(s) THEN {issue_idx(s)} ELSE {})
        /\ slots'[s] = [i \in Slots(s) |->
             NextSlot(s, i, s = dispatch_to /\ ~rs_full_o(s), entry, cdb_w)]
  BY <1>6 DEF Clock, StationClock
<1>9. QED
  BY <1>3, <1>4, <1>5, <1>7, <1>8

LEMMA StationStepT ==
  ASSUME TInv, Clock
  PROVE  StationT'
<1> SUFFICES ASSUME NEW s \in Station
             PROVE  /\ busy'[s] \subseteq Slots(s)
                    /\ slots'[s] \in [Slots(s) -> RsEntry]
                    /\ \A i \in busy'[s] : target(slots'[s][i].op) = s
  BY DEF StationT, target
<1>1. CASE flush
  <2>1. busy'[s] = {} /\ slots'[s] = [i \in Slots(s) |-> ZeroRsEntry]
    BY <1>1, StationEdgeFacts
  <2>2. ZeroRsEntry \in RsEntry
    BY ZeroTyped
  <2>3. QED
    BY ONLY <2>1, <2>2
<1>2. CASE ~flush
  <2>1. busy[s] \subseteq Slots(s) /\ slots[s] \in [Slots(s) -> RsEntry]
        /\ \A i \in busy[s] : target(slots[s][i].op) = s
    BY DEF TInv, StationT
  <2>2. busy'[s] \subseteq Slots(s)
    BY <1>2, <2>1, StationEdgeFacts
  <2>3. \A i \in Slots(s) :
          /\ NextSlot(s, i, s = dispatch_to /\ ~rs_full_o(s), entry, cdb_w) \in RsEntry
          /\ i \in busy'[s] =>
               target(NextSlot(s, i, s = dispatch_to /\ ~rs_full_o(s), entry, cdb_w).op) = s
    <3> SUFFICES ASSUME NEW i \in Slots(s)
          PROVE /\ NextSlot(s, i, s = dispatch_to /\ ~rs_full_o(s), entry, cdb_w) \in RsEntry
                /\ i \in busy'[s] =>
                     target(NextSlot(s, i, s = dispatch_to /\ ~rs_full_o(s), entry, cdb_w).op) = s
      OBVIOUS
    <3>1. CASE s = dispatch_to /\ ~rs_full_o(s) /\ i = dispatch_idx(s)
      <4>1. NextSlot(s, i, s = dispatch_to /\ ~rs_full_o(s), entry, cdb_w) = entry
        BY <3>1 DEF NextSlot
      <4>2. target(entry.op) = s
        BY <3>1 DEF dispatch_to, Station, entry
      <4>3. QED
        BY <4>1, <4>2, EntryTyped
    <3>2. CASE ~(s = dispatch_to /\ ~rs_full_o(s) /\ i = dispatch_idx(s))
      <4>1. NextSlot(s, i, s = dispatch_to /\ ~rs_full_o(s), entry, cdb_w)
              = IF i \in busy[s] THEN Snooped(slots[s][i], cdb_w) ELSE slots[s][i]
        BY <3>2 DEF NextSlot
      <4>2. i \in busy'[s] => i \in busy[s]
        BY <1>2, <3>2, StationEdgeFacts
      <4>3. QED
        BY <2>1, <4>1, <4>2, SnoopTyped, CdbTyped
    <3>3. QED
      BY <3>1, <3>2
  <2> DEFINE N(i) == NextSlot(s, i, s = dispatch_to /\ ~rs_full_o(s), entry, cdb_w)
  <2>4. slots'[s] = [i \in Slots(s) |-> N(i)]
    BY <1>2, StationEdgeFacts
  <2>5. \A i \in Slots(s) : N(i) \in RsEntry /\ (i \in busy'[s] => target(N(i).op) = s)
    BY <2>3
  <2> HIDE DEF N
  <2>6. QED
    BY ONLY <2>2, <2>4, <2>5
<1>3. QED
  BY <1>1, <1>2

LEMMA ShiftIn ==
  ASSUME NEW S, NEW D \in Nat \ {0}, NEW q \in [1 .. D -> S], NEW x \in S,
         NEW r, r = <<x>> \o SubSeq(q, 1, D - 1)
  PROVE  /\ r \in [1 .. D -> S] /\ r[1] = x
         /\ \A k \in 2 .. D : r[k] = q[k - 1]
<1>1. q \in Seq(S) /\ Len(q) = D
  <2>1. q \in Seq(S)
    OBVIOUS
  <2>2. QED
    BY <2>1, LenProperties
<1>2. PICK t : t = SubSeq(q, 1, D - 1)
  OBVIOUS
<1>3. t \in Seq(S) /\ Len(t) = D - 1 /\ \A k \in 1 .. D - 1 : t[k] = q[k]
  BY <1>1, <1>2
<1>4. r = <<x>> \o t /\ <<x>> \in Seq(S) /\ Len(<<x>>) = 1
  BY <1>2
<1>5. r \in Seq(S) /\ Len(r) = D /\ r[1] = x /\ \A k \in 2 .. D : r[k] = t[k - 1]
  BY <1>3, <1>4
<1>6. r \in [1 .. D -> S]
  BY <1>5, LenProperties
<1>7. QED
  BY <1>3, <1>5, <1>6

LEMMA IssueTyped ==
  ASSUME TInv, NEW s \in Station
  PROVE  /\ issue_entry_o(s) \in RsEntry
         /\ issue(s) => /\ issue_idx(s) \in busy[s] /\ BothReady(issue_entry_o(s))
                        /\ target(issue_entry_o(s).op) = s /\ fu_ready(s)
<1>1. Slots(s) \in SUBSET Nat /\ RS_SIZE[s] - 1 \in Slots(s) /\ busy[s] \subseteq Slots(s)
  BY Sizes DEF Slots, TInv, StationT
<1>2. ready_vec(s) \in SUBSET Nat /\ ready_vec(s) \subseteq busy[s]
  BY <1>1 DEF ready_vec
<1>3. issue_idx(s) \in Slots(s) /\ (ready_vec(s) # {} => issue_idx(s) \in ready_vec(s))
  BY <1>1, <1>2, MinIn DEF issue_idx, Lowest
<1>4. issue_entry_o(s) \in RsEntry
  BY <1>3 DEF issue_entry_o, TInv, StationT
<1>5. issue(s) => issue_idx(s) \in ready_vec(s) /\ fu_ready(s)
  BY <1>3 DEF issue, issue_valid_o
<1>6. QED
  BY <1>4, <1>5 DEF issue_entry_o, TInv, StationT, ready_vec

(* What an edge does to the output registers and their latches. *)
LEMMA UnitEdgeFacts ==
  ASSUME Clock
  PROVE  /\ alu' = IF issue("alu")
                     THEN [valid |-> TRUE, tag |-> issue_entry_o("alu").rob_tag,
                           value |-> alu_result(issue_entry_o("alu"))]
                     ELSE [alu EXCEPT !.valid = FALSE]
         /\ br' = IF issue("br")
                    THEN [valid |-> TRUE, tag |-> issue_entry_o("br").rob_tag,
                          target |-> target_next(issue_entry_o("br")),
                          taken |-> taken_next(issue_entry_o("br"))]
                    ELSE ZeroBr
         /\ br_d' = [op |-> issue_entry_o("br").op, pc |-> issue_entry_o("br").pc]
         /\ alu_cdb' = IF flush THEN ZeroBus
                       ELSE IF alu.valid
                         THEN [valid |-> TRUE, tag |-> alu.tag, value |-> alu.value]
                       ELSE IF fu_grant("alu") THEN [alu_cdb EXCEPT !.valid = FALSE]
                       ELSE alu_cdb
         /\ br_cdb' = IF flush THEN ZeroBus
                      ELSE IF br.valid
                        THEN [valid |-> TRUE, tag |-> br.tag, value |-> br_cdb_val]
                      ELSE IF fu_grant("br") THEN [br_cdb EXCEPT !.valid = FALSE]
                      ELSE br_cdb
  BY DEF Clock, UnitClock, AluClock, BranchClock, LatchClock, NextLatch

LEMMA UnitStepT ==
  ASSUME TInv, Clock
  PROVE  UnitT'
<1>1. issue_entry_o("alu") \in RsEntry /\ issue_entry_o("br") \in RsEntry
  BY IssueTyped DEF Station
<1>2. \A e \in RsEntry : e.rob_tag \in Slot /\ e.op \in Opcode /\ e.pc \in Word
  BY DEF RsEntry
<1>3. alu' \in Bus
  <2> PICK e : e = issue_entry_o("alu")
    OBVIOUS
  <2>1. alu' = IF issue("alu") THEN [valid |-> TRUE, tag |-> e.rob_tag, value |-> alu_result(e)]
                               ELSE [alu EXCEPT !.valid = FALSE]
    BY UnitEdgeFacts
  <2>2. e.rob_tag \in Slot /\ alu_result(e) \in Word /\ alu \in Bus
    BY <1>1, <1>2, AluTyped DEF TInv, UnitT
  <2>3. QED
    BY ONLY <2>1, <2>2 DEF Bus
<1>4. br' \in BrResult
  <2>1. /\ taken_next(issue_entry_o("br")) \in BOOLEAN
        /\ target_next(issue_entry_o("br")) \in Word
    BY <1>1, BranchTyped
  <2>2. CASE issue("br")
    <3> PICK e : e = issue_entry_o("br")
      OBVIOUS
    <3>1. br' = [valid |-> TRUE, tag |-> e.rob_tag, target |-> target_next(e), taken |-> taken_next(e)]
      BY <2>2, UnitEdgeFacts
    <3>2. e.rob_tag \in Slot /\ target_next(e) \in Word /\ taken_next(e) \in BOOLEAN
      BY <1>1, <1>2, <2>1
    <3>3. QED
      BY ONLY <3>1, <3>2 DEF BrResult
  <2>3. CASE ~issue("br")
    BY <2>3, UnitEdgeFacts, ZeroTyped
  <2>4. QED
    BY <2>2, <2>3
<1>5. br_d' \in [op : Opcode, pc : Word]
  BY <1>1, <1>2, UnitEdgeFacts
<1>6. alu_cdb' \in Bus
  BY UnitEdgeFacts, ZeroTyped DEF TInv, UnitT, Bus
<1>7. br_cdb' \in Bus
  <2>1. br_cdb_val \in Word
    <3>1. br_d.pc + 4 \in Int /\ br.target \in Word
      BY WordFacts DEF TInv, UnitT, BrResult
    <3>2. QED
      BY <3>1, WordFacts DEF br_cdb_val
  <2>2. br.tag \in Slot
    BY DEF TInv, UnitT, BrResult
  <2>3. QED
    <3>1. br_cdb \in Bus /\ ZeroBus \in Bus
      BY ZeroTyped DEF TInv, UnitT
    <3>2. br_cdb' \in {ZeroBus, [valid |-> TRUE, tag |-> br.tag, value |-> br_cdb_val],
                       [br_cdb EXCEPT !.valid = FALSE], br_cdb}
      BY UnitEdgeFacts
    <3>3. [valid |-> TRUE, tag |-> br.tag, value |-> br_cdb_val] \in Bus
      BY <2>1, <2>2 DEF Bus
    <3>4. [br_cdb EXCEPT !.valid = FALSE] \in Bus
      BY <3>1 DEF Bus
    <3>5. QED
      BY ONLY <3>1, <3>2, <3>3, <3>4
<1>8. ASSUME NEW u \in Pipe PROVE pipe'[u] \in [1 .. PipeDepth[u] -> Bus]
  <2>1. pipe'[u] = NextPipe(u, flush, issue(u), issue_entry_o(u), fu_grant(u))
    BY DEF Clock, UnitClock
  <2>2. u \in Station /\ pipe[u] \in [1 .. PipeDepth[u] -> Bus] /\ PipeDepth[u] \in Nat \ {0}
    BY Sizes DEF Pipe, Station, TInv, UnitT
  <2>3. Entering(issue(u), issue_entry_o(u)) \in Bus
    <3> PICK e : e = issue_entry_o(u)
      OBVIOUS
    <3>1. e \in RsEntry /\ (issue(u) => target(e.op) = u)
      BY <2>2, IssueTyped
    <3>2. issue(u) => e.op \in FpOps \cup FpCvtOps
      BY <1>2, <3>1, TargetFacts
    <3>3. e.src[1].val \in Word /\ e.src[2].val \in Word
      BY <3>1 DEF RsEntry, Operands
    <3>4. issue(u) => Fpu(e.op, e.src[1].val, e.src[2].val) \in Word
      BY <3>2, <3>3, FpuAssumption
    <3>5. issue(u) \in BOOLEAN
      BY DEF issue, issue_valid_o
    <3>6. QED
      BY <1>2, <3>1, <3>4, <3>5, WordFacts DEF Entering, Bus
  <2>4. <<Entering(issue(u), issue_entry_o(u))>> \o SubSeq(pipe[u], 1, PipeDepth[u] - 1)
          \in [1 .. PipeDepth[u] -> Bus]
    <3> PICK x, q, r : /\ x = Entering(issue(u), issue_entry_o(u)) /\ q = pipe[u]
                       /\ r = <<x>> \o SubSeq(q, 1, PipeDepth[u] - 1)
      OBVIOUS
    <3>1. r \in [1 .. PipeDepth[u] -> Bus]
      BY <2>2, <2>3, ShiftIn
    <3>2. QED
      BY <3>1
  <2>5. QED
    BY <2>1, <2>2, <2>4, ZeroTyped DEF NextPipe
<1>9. div' \in [state : {"IDLE", "DIVIDE", "DONE"}, cnt : Nat, tag : Slot, value : Word]
  <2> PICK e : e = issue_entry_o("fp_div")
    OBVIOUS
  <2>1. div' = NextDiv(flush, issue("fp_div"), e, fu_grant("fp_div"))
    BY DEF Clock, UnitClock
  <2>2. e \in RsEntry /\ (issue("fp_div") => target(e.op) = "fp_div")
    BY IssueTyped DEF Station
  <2>3. issue("fp_div") => e.op \in FpOps \cup FpCvtOps
    BY <1>2, <2>2, TargetFacts
  <2>4. e.src[1].val \in Word /\ e.src[2].val \in Word
    BY <2>2 DEF RsEntry, Operands
  <2>5. issue("fp_div") => Fpu(e.op, e.src[1].val, e.src[2].val) \in Word
    BY <2>3, <2>4, FpuAssumption
  <2>6. div \in [state : {"IDLE", "DIVIDE", "DONE"}, cnt : Nat, tag : Slot, value : Word]
    BY DEF TInv, UnitT
  <2>7. CASE flush
    BY <2>1, <2>7, ZeroTyped DEF NextDiv
  <2>8. CASE ~flush /\ div.state = "IDLE"
    BY <1>2, <2>1, <2>2, <2>5, <2>6, <2>8 DEF NextDiv
  <2>9. CASE ~flush /\ div.state = "DIVIDE"
    BY <2>1, <2>6, <2>9 DEF NextDiv
  <2>10. CASE ~flush /\ div.state = "DONE"
    BY <2>1, <2>6, <2>10 DEF NextDiv
  <2>11. QED
    BY <2>6, <2>7, <2>8, <2>9, <2>10, CommitTyped
<1>10. QED
  BY <1>3, <1>4, <1>5, <1>6, <1>7, <1>8, <1>9 DEF UnitT

(* What an edge without a flush does to the load/store buffer. *)
Pushed   == dispatch_to = "lsb"
Popped   == do_pop(store_commit)
Notified == ~load.pending /\ store_ready_vec # {} /\ fu_grant("lsb")

LEMMA LsbEdgeFacts ==
  ASSUME TInv, Clock, ~flush
  PROVE  /\ lsb' = [entries |-> lsb'.entries, valid |-> lsb'.valid,
                    notified |-> lsb'.notified, head |-> lsb'.head, tail |-> lsb'.tail,
                    count |-> lsb'.count]
         /\ lsb'.entries = [i \in LsbSlot |->
              IF Pushed /\ i = lsb.tail THEN entry
              ELSE IF i \in lsb.valid THEN Snooped(lsb.entries[i], cdb_w)
              ELSE lsb.entries[i]]
         /\ lsb'.valid = (lsb.valid \ (IF Popped THEN {lsb.head} ELSE {}))
                           \cup (IF Pushed THEN {lsb.tail} ELSE {})
         /\ lsb'.notified = ((lsb.notified \cup (IF Notified THEN {store_notify_idx} ELSE {}))
                               \ (IF Popped THEN {lsb.head} ELSE {}))
                               \ (IF Pushed THEN {lsb.tail} ELSE {})
         /\ lsb'.head = IF Popped THEN NextPtr(lsb.head) ELSE lsb.head
         /\ lsb'.tail = IF Pushed THEN NextPtr(lsb.tail) ELSE lsb.tail
         /\ lsb'.count = lsb.count + (IF Pushed THEN 1 ELSE 0) - (IF Popped THEN 1 ELSE 0)
         /\ Pushed => lsb.count # LSB_SIZE
         /\ \A p \in LsbSlot : NextPtr(p) \in LsbSlot
                                 /\ NextPtr(p) = IF p = LSB_SIZE - 1 THEN 0 ELSE p + 1
<1>1. Pushed => ~lsb_full
  BY DEF Pushed, dispatch_to, dispatch, target_full
<1>2. QueueEdge(Pushed /\ ~lsb_full, entry, cdb_w, store_commit, fu_grant("lsb"))
  BY DEF Clock, LsbClock, Pushed
<1>3. \A p \in LsbSlot : NextPtr(p) \in LsbSlot
                           /\ NextPtr(p) = IF p = LSB_SIZE - 1 THEN 0 ELSE p + 1
  <2>1. \A p \in LsbSlot : NextPtr(p) = IF p = LSB_SIZE - 1 THEN 0 ELSE p + 1
    BY WrapsSmall, Sizes DEF LsbSlot, NextPtr
  <2>2. QED
    BY <2>1, Sizes DEF LsbSlot
<1>4. /\ Cardinality(IF Popped THEN {lsb.head} ELSE {}) = IF Popped THEN 1 ELSE 0
      /\ Cardinality(IF Pushed THEN {lsb.tail} ELSE {}) = IF Pushed THEN 1 ELSE 0
  BY FS_Singleton, FS_EmptySet
<1>5. lsb' =
     [entries |-> [i \in LsbSlot |->
        IF i \in (IF Pushed THEN {lsb.tail} ELSE {}) THEN entry
        ELSE IF i \in lsb.valid THEN Snooped(lsb.entries[i], cdb_w)
        ELSE lsb.entries[i]],
      valid    |-> (lsb.valid \ (IF Popped THEN {lsb.head} ELSE {}))
                     \cup (IF Pushed THEN {lsb.tail} ELSE {}),
      notified |-> ((lsb.notified \cup (IF Notified THEN {store_notify_idx} ELSE {}))
                      \ (IF Popped THEN {lsb.head} ELSE {}))
                      \ (IF Pushed THEN {lsb.tail} ELSE {}),
      head     |-> IF Popped THEN NextPtr(lsb.head) ELSE lsb.head,
      tail     |-> IF Pushed THEN NextPtr(lsb.tail) ELSE lsb.tail,
      count    |-> lsb.count + Cardinality(IF Pushed THEN {lsb.tail} ELSE {})
                     - Cardinality(IF Popped THEN {lsb.head} ELSE {})]
  BY <1>1, <1>2 DEF QueueEdge, Popped, Notified, LsbSlot
<1>6. QED
  BY <1>1, <1>3, <1>4, <1>5 DEF lsb_full

LEMMA LsbStepT ==
  ASSUME TInv, Clock
  PROVE  LsbT'
<1>1. lsb' \in [entries : [LsbSlot -> RsEntry], valid : SUBSET LsbSlot,
                notified : SUBSET LsbSlot, head : LsbSlot, tail : LsbSlot, count : Int]
  <2>1. CASE flush
    <3>1. lsb' = EmptyLsb
      BY <2>1 DEF Clock, LsbClock
    <3>2. 0 \in LsbSlot
      BY Sizes DEF LsbSlot
    <3>3. QED
      BY <3>1, <3>2, ZeroTyped DEF EmptyLsb, LsbSlot
  <2>2. CASE ~flush
    <3>1. /\ lsb.entries \in [LsbSlot -> RsEntry] /\ lsb.valid \subseteq LsbSlot
          /\ lsb.notified \subseteq LsbSlot /\ lsb.head \in LsbSlot /\ lsb.tail \in LsbSlot
          /\ lsb.count \in Int /\ store_notify_idx \in LsbSlot
      BY NotifyIn DEF TInv, LsbT
    <3>2. lsb'.entries \in [LsbSlot -> RsEntry]
      <4>1. \A i \in LsbSlot : Snooped(lsb.entries[i], cdb_w) \in RsEntry
        BY <3>1, SnoopTyped, CdbTyped
      <4>2. QED
        BY <2>2, <3>1, <4>1, EntryTyped, LsbEdgeFacts
    <3>3. lsb'.valid \subseteq LsbSlot /\ lsb'.notified \subseteq LsbSlot
      BY <2>2, <3>1, LsbEdgeFacts
    <3>4. lsb'.head \in LsbSlot /\ lsb'.tail \in LsbSlot /\ lsb'.count \in Int
      BY <2>2, <3>1, LsbEdgeFacts
    <3>5. QED
      BY <2>2, <3>2, <3>3, <3>4, LsbEdgeFacts
  <2>3. QED
    BY <2>1, <2>2
<1>2. load' \in [pending : BOOLEAN, tag : Slot, op : Opcode, addr : Word]
  <2>1. load' = IF flush THEN NoLoad
                ELSE IF load_issue
                  THEN [pending |-> TRUE, tag |-> head_entry.rob_tag,
                        op |-> head_entry.op, addr |-> head_addr]
                ELSE [load EXCEPT !.pending = @ /\ ~fu_grant("lsb")]
    BY DEF Clock, LsbClock, LoadClock
  <2>2. NoLoad \in [pending : BOOLEAN, tag : Slot, op : Opcode, addr : Word]
    BY ZeroTyped, WordFacts DEF NoLoad
  <2>3. head_entry.rob_tag \in Slot /\ head_entry.op \in Opcode /\ head_addr \in Word
    BY HeadTyped DEF TInv, RsEntry
  <2>4. load \in [pending : BOOLEAN, tag : Slot, op : Opcode, addr : Word]
    BY DEF TInv, LsbT
  <2>5. QED
    BY <2>1, <2>2, <2>3, <2>4
<1>3. QED
  BY <1>1, <1>2 DEF LsbT

LEMMA MemStepT ==
  ASSUME TInv, Clock
  PROVE  MemT'
<1>1. head_addr \in Word /\ head_entry \in RsEntry /\ mem_rd_addr_o \in Word
  BY HeadTyped DEF TInv, LsbT, mem_rd_addr_o
<1>2. head_entry.src[2].val \in Word
  BY <1>1 DEF RsEntry, Operands
<1>3. WordIndex(head_addr) \in Address /\ WordIndex(mem_rd_addr_o) \in Address
  BY <1>1, IndexTyped
<1>4. dmem \in [Address -> Word]
  BY DEF TInv, MemT
<1>5. Stored(dmem[WordIndex(head_addr)], head_entry.op, head_addr, head_entry.src[2].val) \in Word
  BY <1>1, <1>2, <1>3, <1>4, StoredTyped
<1>6. QED
  BY <1>3, <1>4, <1>5 DEF Clock, MemClock, MemT

LEMMA BusStepT ==
  ASSUME TInv, Clock
  PROVE  BusT'
<1>1. last_grant' \in Fu
  BY CdbTyped DEF TInv, BusT, Clock, CdbClock
<1>2. halted' \in BOOLEAN
  BY CommitTyped DEF TInv, BusT, Clock
<1>3. QED
  BY <1>1, <1>2 DEF BusT

LEMMA StepT ==
  ASSUME TInv, [Clock]_vars
  PROVE  TInv'
<1>1. CASE Clock
  <2>1. FetchT' /\ RobT' /\ RenameT' /\ StationT' /\ UnitT' /\ LsbT' /\ MemT' /\ BusT'
    BY <1>1, FetchStepT, RobStepT, RenameStepT, StationStepT, UnitStepT, LsbStepT, MemStepT,
       BusStepT
  <2>2. QED
    BY <2>1 DEF TInv
<1>2. CASE UNCHANGED vars
  <2>1. /\ UNCHANGED <<imem, fetch, instr_raw, iq>> /\ UNCHANGED <<rat, regs>>
        /\ UNCHANGED last_grant /\ UNCHANGED <<busy, slots>>
        /\ UNCHANGED <<alu, alu_cdb, br, br_d, br_cdb, pipe, div>>
        /\ UNCHANGED <<lsb, load, dmem, mem_rd_data>>
        /\ UNCHANGED <<entries, head, tail, count>> /\ UNCHANGED <<rob_head_reg, halted>>
    BY <1>2 DEF vars, fetchVars, renameVars, stationVars, unitVars, lsbVars, ROB!robVars
  <2>2. FetchT' /\ RobT' /\ RenameT' /\ UnitT' /\ LsbT' /\ MemT' /\ BusT'
    BY <2>1 DEF TInv, FetchT, RobT, RenameT, UnitT, LsbT, MemT, BusT
  <2>3. StationT'
    BY <2>1 DEF TInv, StationT
  <2>4. QED
    BY <2>2, <2>3 DEF TInv
<1>3. QED
  BY <1>1, <1>2

LEMMA Typed == Spec => []TInv
<1>1. QED
  BY InitT, StepT, PTL DEF Spec
-----------------------------------------------------------------------------
(* Rings of n places: the distance of a place from h, the next place and   *)
(* the place c further on.  The reorder buffer and the two queues are      *)
(* rings.                                                                  *)

RingPos(n, h, i) == IF i >= h THEN i - h ELSE i - h + n
RingNext(n, i)   == IF i = n - 1 THEN 0 ELSE i + 1
RingEnd(n, h, c) == IF h + c < n THEN h + c ELSE h + c - n

LEMMA RingRange ==
  ASSUME NEW n \in Nat \ {0}, NEW h \in 0 .. n - 1, NEW i \in 0 .. n - 1
  PROVE  /\ RingPos(n, h, i) \in 0 .. n - 1 /\ RingNext(n, i) \in 0 .. n - 1
         /\ RingPos(n, h, i) = 0 <=> i = h
  BY DEF RingPos, RingNext

LEMMA RingSame ==
  ASSUME NEW n \in Nat \ {0}, NEW h \in 0 .. n - 1, NEW i \in 0 .. n - 1, NEW j \in 0 .. n - 1
  PROVE  RingPos(n, h, i) = RingPos(n, h, j) <=> i = j
  BY DEF RingPos

LEMMA RingAt ==
  ASSUME NEW n \in Nat \ {0}, NEW h \in 0 .. n - 1, NEW i \in 0 .. n - 1, NEW c \in 0 .. n - 1
  PROVE  RingPos(n, h, i) = c <=> i = RingEnd(n, h, c)
  BY DEF RingPos, RingEnd

LEMMA RingHead ==
  ASSUME NEW n \in Nat \ {0}, NEW h \in 0 .. n - 1, NEW i \in 0 .. n - 1
  PROVE  RingPos(n, RingNext(n, h), i) = IF i = h THEN n - 1 ELSE RingPos(n, h, i) - 1
<1>1. CASE h = n - 1
  BY <1>1 DEF RingPos, RingNext
<1>2. CASE h # n - 1
  BY <1>2 DEF RingPos, RingNext
<1>3. QED
  BY <1>1, <1>2

LEMMA RingSucc ==
  ASSUME NEW n \in Nat \ {0}, NEW h \in 0 .. n - 1, NEW i \in 0 .. n - 1
  PROVE  RingPos(n, h, RingNext(n, i)) =
           IF RingPos(n, h, i) = n - 1 THEN 0 ELSE RingPos(n, h, i) + 1
<1>1. CASE i = n - 1
  BY <1>1 DEF RingPos, RingNext
<1>2. CASE i # n - 1
  BY <1>2 DEF RingPos, RingNext
<1>3. QED
  BY <1>1, <1>2

LEMMA RingEndFacts ==
  ASSUME NEW n \in Nat \ {0}, NEW h \in 0 .. n - 1, NEW c \in 0 .. n
  PROVE  /\ RingEnd(n, h, c) \in 0 .. n - 1
         /\ c < n => RingEnd(n, h, c + 1) = RingNext(n, RingEnd(n, h, c))
         /\ c > 0 => RingEnd(n, RingNext(n, h), c - 1) = RingEnd(n, h, c)
         /\ RingEnd(n, h, 0) = h /\ RingEnd(n, h, n) = h
<1> USE DEF RingNext, RingEnd
<1>1. RingEnd(n, h, c) \in 0 .. n - 1 /\ RingEnd(n, h, 0) = h /\ RingEnd(n, h, n) = h
  OBVIOUS
<1>2. c < n => RingEnd(n, h, c + 1) = RingNext(n, RingEnd(n, h, c))
  OBVIOUS
<1>3. c > 0 => RingEnd(n, RingNext(n, h), c - 1) = RingEnd(n, h, c)
  <2>1. CASE h = n - 1
    BY <2>1
  <2>2. CASE h # n - 1
    BY <2>2
  <2>3. QED
    BY <2>1, <2>2
<1>4. QED
  BY <1>1, <1>2, <1>3

(* The place (h + k) % n, which the properties are written with. *)
LEMMA RingMod ==
  ASSUME NEW n \in Nat \ {0}, NEW h \in 0 .. n - 1, NEW k \in 0 .. n - 1
  PROVE  (h + k) % n = RingEnd(n, h, k)
<1>1. CASE h + k < n
  BY <1>1 DEF RingEnd
<1>2. CASE h + k >= n
  <2> PICK m : m = h + k - n
    OBVIOUS
  <2>1. m \in 0 .. n - 1 /\ h + k = m + n
    BY <1>2
  <2>2. (m + n) % n = m
    BY <2>1
  <2>3. QED
    BY <1>2, <2>1, <2>2 DEF RingEnd
<1>3. QED
  BY <1>1, <1>2

(* A ring whose count grows at the end and shrinks at the head. *)
LEMMA RingEdge ==
  ASSUME NEW n \in Nat \ {0}, NEW h \in 0 .. n - 1, NEW c \in 0 .. n,
         NEW push \in BOOLEAN, NEW pop \in BOOLEAN, push => c < n, pop => c > 0,
         NEW h2, h2 = IF pop THEN RingNext(n, h) ELSE h,
         NEW c2, c2 = c + (IF push THEN 1 ELSE 0) - (IF pop THEN 1 ELSE 0)
  PROVE  RingEnd(n, h2, c2) = IF push THEN RingNext(n, RingEnd(n, h, c)) ELSE RingEnd(n, h, c)
<1>1. RingNext(n, h) \in 0 .. n - 1
  BY DEF RingNext
<1> PICK d : d = c - 1
  OBVIOUS
<1>2. CASE pop
  <2>1. d \in 0 .. n /\ d < n /\ c2 = d + (IF push THEN 1 ELSE 0) /\ h2 = RingNext(n, h)
    BY <1>2
  <2>2. RingEnd(n, h2, d) = RingEnd(n, h, c)
    BY <1>2, <2>1, RingEndFacts
  <2>3. RingEnd(n, h2, d + 1) = RingNext(n, RingEnd(n, h2, d))
    <3>1. h2 \in 0 .. n - 1 /\ d \in 0 .. n /\ d < n
      BY <1>1, <2>1
    <3>2. QED
      BY ONLY <3>1, n \in Nat \ {0}, RingEndFacts
  <2>4. CASE push
    BY <2>1, <2>2, <2>3, <2>4
  <2>5. CASE ~push
    BY <2>1, <2>2, <2>5
  <2>6. QED
    BY <2>4, <2>5
<1>3. CASE ~pop
  <2>1. c2 = (IF push THEN c + 1 ELSE c) /\ h2 = h
    BY <1>3
  <2>2. push => RingEnd(n, h, c + 1) = RingNext(n, RingEnd(n, h, c))
    BY RingEndFacts
  <2>3. QED
    BY <2>1, <2>2
<1>4. QED
  BY <1>2, <1>3

LEMMA RingStep ==
  ASSUME NEW n \in Nat \ {0}, NEW h \in 0 .. n - 1, NEW i \in 0 .. n - 1, NEW pop \in BOOLEAN,
         NEW h2, h2 = IF pop THEN RingNext(n, h) ELSE h
  PROVE  /\ h2 \in 0 .. n - 1
         /\ RingPos(n, h2, i) = IF pop THEN IF i = h THEN n - 1 ELSE RingPos(n, h, i) - 1
                                       ELSE RingPos(n, h, i)
<1>1. CASE pop
  <2>1. h2 = RingNext(n, h) /\ RingNext(n, h) \in 0 .. n - 1
    BY <1>1 DEF RingNext
  <2>2. RingPos(n, RingNext(n, h), i) = IF i = h THEN n - 1 ELSE RingPos(n, h, i) - 1
    BY RingHead
  <2>3. QED
    BY <1>1, <2>1, <2>2
<1>2. CASE ~pop
  BY <1>2
<1>3. QED
  BY <1>1, <1>2

(* In a ring that is not overfull, the occupied places after an edge are   *)
(* the old ones without the head, and the pushed one.                      *)
LEMMA RingWindow ==
  ASSUME NEW n \in Nat \ {0}, NEW h \in 0 .. n - 1, NEW c \in 0 .. n, NEW i \in 0 .. n - 1,
         NEW push \in BOOLEAN, NEW pop \in BOOLEAN, push => c < n, pop => c > 0,
         NEW h2, h2 = IF pop THEN RingNext(n, h) ELSE h,
         NEW c2, c2 = c + (IF push THEN 1 ELSE 0) - (IF pop THEN 1 ELSE 0)
  PROVE  /\ c2 \in 0 .. n
         /\ RingPos(n, h2, i) < c2 <=>
              \/ RingPos(n, h, i) < c /\ ~(pop /\ i = h)
              \/ push /\ i = RingEnd(n, h, c)
         /\ RingPos(n, h, i) < c /\ ~(pop /\ i = h) =>
              RingPos(n, h2, i) = RingPos(n, h, i) - (IF pop THEN 1 ELSE 0)
         /\ push /\ i = RingEnd(n, h, c) =>
              /\ RingPos(n, h, i) = c /\ RingPos(n, h2, i) = c - (IF pop THEN 1 ELSE 0)
              /\ ~(pop /\ i = h)
<1> PICK p, p2, e : p = RingPos(n, h, i) /\ p2 = RingPos(n, h2, i) /\ e = RingEnd(n, h, c)
  OBVIOUS
<1>1. p \in 0 .. n - 1 /\ (p = 0 <=> i = h)
  BY RingRange
<1>2. p2 = IF pop THEN IF i = h THEN n - 1 ELSE p - 1 ELSE p
  <2>1. RingPos(n, h2, i) = IF pop THEN IF i = h THEN n - 1 ELSE RingPos(n, h, i) - 1
                                       ELSE RingPos(n, h, i)
    BY RingStep
  <2>2. QED
    BY <2>1
<1>3. c < n => (p = c <=> i = e)
  <2>1. c < n => c \in 0 .. n - 1
    OBVIOUS
  <2>2. c \in 0 .. n - 1 => (RingPos(n, h, i) = c <=> i = RingEnd(n, h, c))
    BY RingAt
  <2>3. QED
    BY <2>1, <2>2
<1>4. c2 \in 0 .. n
  <2>1. CASE pop
    BY <2>1
  <2>2. CASE ~pop
    BY <2>2
  <2>3. QED
    BY <2>1, <2>2
<1>5. p2 < c2 <=> (p < c /\ ~(pop /\ i = h)) \/ (push /\ i = e)
  <2>1. CASE pop
    BY <1>1, <1>2, <1>3, <2>1
  <2>2. CASE ~pop
    BY <1>1, <1>2, <1>3, <2>2
  <2>3. QED
    BY <2>1, <2>2
<1>6. p < c /\ ~(pop /\ i = h) => p2 = p - (IF pop THEN 1 ELSE 0)
  BY <1>1, <1>2
<1>7. push /\ i = e => p = c /\ p2 = c - (IF pop THEN 1 ELSE 0) /\ ~(pop /\ i = h)
  BY <1>1, <1>2, <1>3
<1>8. QED
  BY <1>4, <1>5, <1>6, <1>7
-----------------------------------------------------------------------------
(* The load/store buffer as a queue: its valid slots are the count ones    *)
(* from its head on, and only valid slots are marked as notified.          *)

LsbPos(i) == RingPos(LSB_SIZE, lsb.head, i)

LsbShape ==
  /\ lsb.count \in 0 .. LSB_SIZE
  /\ lsb.tail = RingEnd(LSB_SIZE, lsb.head, lsb.count)
  /\ \A i \in LsbSlot : i \in lsb.valid <=> LsbPos(i) < lsb.count
  /\ lsb.notified \subseteq lsb.valid
  /\ Cardinality(lsb.valid) = lsb.count

LEMMA PoppedIn == Popped => lsb.head \in lsb.valid
  BY DEF Popped, do_pop, load_issue, store_write

(* How far from the head a slot is after an edge. *)
LEMMA LsbPosEdge ==
  ASSUME TInv, LsbShape, Clock, ~flush, NEW i \in LsbSlot
  PROVE  /\ LsbPos(i) \in 0 .. LSB_SIZE - 1
         /\ LsbPos(i)' = IF Popped THEN IF i = lsb.head THEN LSB_SIZE - 1 ELSE LsbPos(i) - 1
                                   ELSE LsbPos(i)
         /\ LsbPos(i) = 0 <=> i = lsb.head
         /\ lsb.count # LSB_SIZE => (LsbPos(i) = lsb.count <=> i = lsb.tail)
<1> PICK h, h2, c : h = lsb.head /\ h2 = lsb'.head /\ c = lsb.count
  OBVIOUS
<1>1. h \in 0 .. LSB_SIZE - 1 /\ i \in 0 .. LSB_SIZE - 1 /\ c \in 0 .. LSB_SIZE
      /\ LSB_SIZE \in Nat \ {0} /\ lsb.tail = RingEnd(LSB_SIZE, h, c)
  BY Sizes DEF TInv, LsbT, LsbSlot, LsbShape
<1>2. h2 = IF Popped THEN RingNext(LSB_SIZE, h) ELSE h
  BY <1>1, LsbEdgeFacts DEF RingNext, LsbSlot
<1>3. LsbPos(i) = RingPos(LSB_SIZE, h, i) /\ LsbPos(i)' = RingPos(LSB_SIZE, h2, i)
  BY DEF LsbPos
<1>4. c # LSB_SIZE => c \in 0 .. LSB_SIZE - 1
  BY <1>1
<1>5. /\ RingPos(LSB_SIZE, h, i) \in 0 .. LSB_SIZE - 1
      /\ RingPos(LSB_SIZE, h, i) = 0 <=> i = h
      /\ RingPos(LSB_SIZE, RingNext(LSB_SIZE, h), i)
           = IF i = h THEN LSB_SIZE - 1 ELSE RingPos(LSB_SIZE, h, i) - 1
      /\ \A k \in 0 .. LSB_SIZE - 1 : RingPos(LSB_SIZE, h, i) = k <=> i = RingEnd(LSB_SIZE, h, k)
  <2>1. RingPos(LSB_SIZE, h, i) \in 0 .. LSB_SIZE - 1 /\ (RingPos(LSB_SIZE, h, i) = 0 <=> i = h)
    BY ONLY <1>1, RingRange
  <2>2. RingPos(LSB_SIZE, RingNext(LSB_SIZE, h), i)
           = IF i = h THEN LSB_SIZE - 1 ELSE RingPos(LSB_SIZE, h, i) - 1
    BY ONLY <1>1, RingHead
  <2>3. \A k \in 0 .. LSB_SIZE - 1 : RingPos(LSB_SIZE, h, i) = k <=> i = RingEnd(LSB_SIZE, h, k)
    BY ONLY <1>1, RingAt
  <2>4. QED
    BY <2>1, <2>2, <2>3
<1>6. LsbPos(i)' = IF Popped THEN IF i = h THEN LSB_SIZE - 1 ELSE LsbPos(i) - 1 ELSE LsbPos(i)
  BY ONLY <1>2, <1>3, <1>5
<1>7. c # LSB_SIZE => (LsbPos(i) = c <=> i = lsb.tail)
  BY ONLY <1>1, <1>3, <1>4, <1>5
<1>8. LsbPos(i) \in 0 .. LSB_SIZE - 1 /\ (LsbPos(i) = 0 <=> i = h)
  BY ONLY <1>3, <1>5
<1>9. QED
  BY <1>6, <1>7, <1>8

LEMMA LsbShapeStep ==
  ASSUME TInv, LsbShape, Clock
  PROVE  LsbShape'
<1>1. CASE flush
  <2>1. lsb' = EmptyLsb
    BY <1>1 DEF Clock, LsbClock
  <2>2. /\ lsb'.count = 0 /\ lsb'.tail = 0 /\ lsb'.head = 0 /\ lsb'.valid = {} /\ lsb'.notified = {}
    BY <2>1 DEF EmptyLsb
  <2>3. \A i \in LsbSlot : LsbPos(i)' \in Nat
    BY <2>2, RingRange, Sizes DEF LsbPos, LsbSlot
  <2>4. 0 \in 0 .. LSB_SIZE /\ RingEnd(LSB_SIZE, 0, 0) = 0
    BY Sizes DEF RingEnd
  <2>5. QED
    BY <2>2, <2>3, <2>4, FS_EmptySet DEF LsbShape
<1>2. CASE ~flush
  <2>1. /\ lsb.head \in LsbSlot /\ lsb.tail \in LsbSlot /\ lsb.valid \subseteq LsbSlot
        /\ lsb.count \in 0 .. LSB_SIZE /\ lsb.notified \subseteq lsb.valid
        /\ Cardinality(lsb.valid) = lsb.count
    BY DEF TInv, LsbT, LsbShape
  <2>2. Popped => lsb.count > 0
    <3>1. LsbPos(lsb.head) = 0
      BY <1>2, <2>1, LsbPosEdge
    <3>2. QED
      BY <2>1, <3>1, PoppedIn DEF LsbShape
  <2>3. Pushed => lsb.count < LSB_SIZE /\ lsb.tail \notin lsb.valid
    <3>1. Pushed => lsb.count # LSB_SIZE
      BY <1>2, LsbEdgeFacts
    <3>2. lsb.count # LSB_SIZE => LsbPos(lsb.tail) = lsb.count
      BY <1>2, <2>1, LsbPosEdge
    <3>3. lsb.tail \in lsb.valid <=> LsbPos(lsb.tail) < lsb.count
      BY <2>1 DEF LsbShape
    <3>4. QED
      BY <2>1, <3>1, <3>2, <3>3, Sizes
  <2>4. /\ lsb'.valid = (lsb.valid \ (IF Popped THEN {lsb.head} ELSE {}))
                           \cup (IF Pushed THEN {lsb.tail} ELSE {})
        /\ lsb'.count = lsb.count + (IF Pushed THEN 1 ELSE 0) - (IF Popped THEN 1 ELSE 0)
        /\ lsb'.head = (IF Popped THEN IF lsb.head = LSB_SIZE - 1 THEN 0 ELSE lsb.head + 1 ELSE lsb.head)
        /\ lsb'.tail = (IF Pushed THEN IF lsb.tail = LSB_SIZE - 1 THEN 0 ELSE lsb.tail + 1 ELSE lsb.tail)
    BY <1>2, <2>1, LsbEdgeFacts
  <2>5. lsb'.count \in 0 .. LSB_SIZE
    BY <2>1, <2>2, <2>3, <2>4, Sizes
  <2>6. lsb'.tail = RingEnd(LSB_SIZE, lsb'.head, lsb'.count)
    <3> PICK h, c, t : h = lsb.head /\ c = lsb.count /\ t = lsb.tail
      OBVIOUS
    <3>1. /\ h \in 0 .. LSB_SIZE - 1 /\ c \in 0 .. LSB_SIZE /\ LSB_SIZE \in Nat \ {0}
          /\ t = RingEnd(LSB_SIZE, h, c)
      BY <2>1, Sizes DEF LsbShape, LsbSlot
    <3>2. /\ lsb'.tail = (IF Pushed THEN RingNext(LSB_SIZE, t) ELSE t)
          /\ lsb'.head = (IF Popped THEN RingNext(LSB_SIZE, h) ELSE h)
          /\ lsb'.count = c + (IF Pushed THEN 1 ELSE 0) - (IF Popped THEN 1 ELSE 0)
          /\ (Popped => c > 0) /\ (Pushed => c < LSB_SIZE)
      BY <2>2, <2>3, <2>4 DEF RingNext
    <3>3. Pushed \in BOOLEAN /\ Popped \in BOOLEAN
      BY DEF Pushed, Popped, do_pop, load_issue, store_write
    <3>4. QED
      BY ONLY <3>1, <3>2, <3>3, RingEdge
  <2>7. ASSUME NEW i \in LsbSlot PROVE i \in lsb'.valid <=> LsbPos(i)' < lsb'.count
    <3>1. i \in lsb.valid <=> LsbPos(i) < lsb.count
      BY DEF LsbShape
    <3>2. /\ LsbPos(i) \in 0 .. LSB_SIZE - 1
          /\ LsbPos(i)' = IF Popped THEN IF i = lsb.head THEN LSB_SIZE - 1 ELSE LsbPos(i) - 1
                                   ELSE LsbPos(i)
          /\ LsbPos(i) = 0 <=> i = lsb.head
          /\ lsb.count # LSB_SIZE => (LsbPos(i) = lsb.count <=> i = lsb.tail)
      BY <1>2, LsbPosEdge
    <3>3. i \in lsb'.valid <=> (i \in lsb.valid /\ ~(Popped /\ i = lsb.head)) \/ (Pushed /\ i = lsb.tail)
      BY <2>4
    <3>4. QED
      BY <2>1, <2>2, <2>3, <2>4, <3>1, <3>2, <3>3, Sizes
  <2>8. lsb'.notified \subseteq lsb'.valid
    <3>1. Notified => store_notify_idx \in lsb.valid
      BY NotifyIn DEF Notified, TInv
    <3>2. QED
      BY <1>2, <2>1, <3>1, LsbEdgeFacts
  <2>9. Cardinality(lsb'.valid) = lsb'.count
    <3>1. IsFiniteSet(lsb.valid)
      <4>1. 0 \in Int /\ LSB_SIZE - 1 \in Int
        BY Sizes
      <4>2. IsFiniteSet(LsbSlot)
        BY <4>1, FS_Interval DEF LsbSlot
      <4>3. QED
        BY <2>1, <4>2, FS_Subset
    <3> PICK S : S = lsb.valid \ (IF Popped THEN {lsb.head} ELSE {})
      OBVIOUS
    <3>2. IsFiniteSet(S) /\ Cardinality(S) = lsb.count - (IF Popped THEN 1 ELSE 0)
      <4>1. CASE Popped
        <5>1. S = lsb.valid \ {lsb.head}
          BY <4>1
        <5>2. IsFiniteSet(S) /\ Cardinality(S) = Cardinality(lsb.valid) - 1
          BY <3>1, <4>1, <5>1, PoppedIn, FS_RemoveElement
        <5>3. QED
          BY <2>1, <4>1, <5>2
      <4>2. CASE ~Popped
        BY <2>1, <3>1, <4>2
      <4>3. QED
        BY <4>1, <4>2
    <3>3. lsb'.valid = S \cup (IF Pushed THEN {lsb.tail} ELSE {})
      BY <2>4
    <3>4. CASE Pushed
      <4>1. lsb.tail \notin S /\ lsb'.valid = S \cup {lsb.tail}
        BY <2>3, <3>3, <3>4
      <4>2. Cardinality(lsb'.valid) = Cardinality(S) + 1
        BY <3>2, <4>1, FS_AddElement
      <4>3. QED
        BY <2>1, <2>4, <3>2, <3>4, <4>2
    <3>5. CASE ~Pushed
      BY <2>1, <2>4, <3>2, <3>3, <3>5
    <3>6. QED
      BY <3>4, <3>5
  <2>10. QED
    BY <2>5, <2>6, <2>7, <2>8, <2>9 DEF LsbShape
<1>3. QED
  BY <1>1, <1>2
-----------------------------------------------------------------------------
(* The straight line of fetch: every queued instruction is the decoded     *)
(* word at its pc, the pcs of the queue follow one another, and fetch goes *)
(* on behind the last of them.  A queue that is not empty has a fetched    *)
(* word behind it.                                                         *)

IqSlot    == 0 .. IQ_DEPTH - 1
IqPos(i)  == RingPos(IQ_DEPTH, iq.head, i)

IqLine ==
  /\ iq.tail = RingEnd(IQ_DEPTH, iq.head, iq.count)
  /\ ~fetch.valid => iq.count = 0
  /\ fetch.valid => /\ fetch.pc = Wrap(fetch.pc_d + 4)
                    /\ instr_raw = imem[WordIndex(fetch.pc_d)]
  /\ \A i \in IqSlot : IqPos(i) < iq.count =>
       /\ iq.entries[i] = decode(imem[WordIndex(iq.entries[i].pc)], iq.entries[i].pc)
       /\ Wrap(iq.entries[i].pc + 4) =
            IF IqPos(i) + 1 < iq.count THEN iq.entries[RingNext(IQ_DEPTH, i)].pc
                                       ELSE fetch.pc_d

IqPush == fetch.valid /\ ~iq_full

LEMMA IqLineStep ==
  ASSUME TInv, IqLine, Clock
  PROVE  IqLine'
<1>0. imem' = imem /\ IQ_DEPTH \in Nat \ {0}
  BY Sizes DEF Clock, FetchClock
<1>1. CASE flush
  <2>1. iq'.head = 0 /\ iq'.tail = 0 /\ iq'.count = 0 /\ fetch'.valid = FALSE
    BY <1>1 DEF Clock, QueueClock, FetchClock, TInv, FetchT
  <2>2. \A i \in IqSlot : IqPos(i)' \in Nat
    <3>1. \A i \in IqSlot : IqPos(i)' = RingPos(IQ_DEPTH, 0, i)
      BY <2>1 DEF IqPos
    <3>2. 0 \in 0 .. IQ_DEPTH - 1
      BY <1>0
    <3>3. QED
      BY <1>0, <3>1, <3>2, RingRange DEF IqSlot
  <2>3. RingEnd(IQ_DEPTH, 0, 0) = 0
    BY <1>0 DEF RingEnd
  <2>4. QED
    BY <2>1, <2>2, <2>3 DEF IqLine
<1>2. CASE ~flush
  <2> PICK h, c, t, h2, c2, es, es2 :
        /\ h = iq.head /\ c = iq.count /\ t = iq.tail /\ h2 = iq'.head /\ c2 = iq'.count
        /\ es = iq.entries /\ es2 = iq'.entries
    OBVIOUS
  <2>1. /\ h \in 0 .. IQ_DEPTH - 1 /\ c \in 0 .. IQ_DEPTH /\ t = RingEnd(IQ_DEPTH, h, c)
        /\ es \in [IqSlot -> Decoded] /\ t \in IqSlot
    BY DEF TInv, FetchT, IqLine, IqSlot
  <2>2. /\ IqPush \in BOOLEAN /\ dispatch \in BOOLEAN
        /\ IqPush => c < IQ_DEPTH /\ fetch.valid
        /\ dispatch => c > 0
        /\ ~IqPush => iq_full \/ c = 0
        /\ c # 0 => fetch.valid
    <3>1. IqPush \in BOOLEAN /\ dispatch \in BOOLEAN
      BY DEF IqPush, dispatch
    <3>2. iq_full <=> c = IQ_DEPTH
      BY DEF iq_full
    <3>3. dispatch => c # 0
      BY DEF dispatch, iq_valid
    <3>4. c # 0 => fetch.valid
      BY DEF IqLine
    <3>5. QED
      BY <1>0, <2>1, <3>1, <3>2, <3>3, <3>4 DEF IqPush
  <2>3. /\ h2 = IF dispatch THEN RingNext(IQ_DEPTH, h) ELSE h
        /\ c2 = c + (IF IqPush THEN 1 ELSE 0) - (IF dispatch THEN 1 ELSE 0)
        /\ iq'.tail = IF IqPush THEN RingNext(IQ_DEPTH, t) ELSE t
        /\ es2 = IF IqPush THEN [es EXCEPT ![t] = decode(instr_raw, fetch.pc_d)] ELSE es
    BY <1>2, QueueEdgeFacts DEF RingNext, IqPush
  <2> PICK push, pop : push = IqPush /\ pop = dispatch
    OBVIOUS
  <2>12. /\ push \in BOOLEAN /\ pop \in BOOLEAN /\ (push => c < IQ_DEPTH) /\ (pop => c > 0)
         /\ h2 = IF pop THEN RingNext(IQ_DEPTH, h) ELSE h
         /\ c2 = c + (IF push THEN 1 ELSE 0) - (IF pop THEN 1 ELSE 0)
         /\ iq'.tail = IF push THEN RingNext(IQ_DEPTH, t) ELSE t
    BY <2>2, <2>3
  <2>4. iq'.tail = RingEnd(IQ_DEPTH, h2, c2)
    BY ONLY <1>0, <2>1, <2>12, RingEdge
  <2>5. fetch' = IF iq_full THEN [fetch EXCEPT !.valid = TRUE]
                 ELSE [pc |-> Wrap(fetch.pc + 4), pc_d |-> fetch.pc, valid |-> TRUE]
    BY <1>2 DEF Clock, FetchClock
  <2>6. /\ fetch'.valid /\ (iq_full => fetch'.pc_d = fetch.pc_d)
        /\ IqPush => fetch'.pc_d = Wrap(fetch.pc_d + 4)
        /\ fetch'.pc = Wrap(fetch'.pc_d + 4)
    BY <1>0, <2>1, <2>2, <2>5 DEF TInv, FetchT, IqLine, IqPush, iq_full
  <2>7. instr_raw' = imem'[WordIndex(fetch'.pc_d)]
    <3>1. instr_raw' = imem[WordIndex(imem_read_pc)]
      BY DEF Clock, FetchClock
    <3>2. imem_read_pc = fetch'.pc_d
      BY <2>5 DEF TInv, FetchT, imem_read_pc
    <3>3. QED
      BY <1>0, <3>1, <3>2
  <2>8. ASSUME NEW i \in IqSlot, RingPos(IQ_DEPTH, h2, i) < c2
        PROVE  /\ es2[i] = decode(imem[WordIndex(es2[i].pc)], es2[i].pc)
               /\ Wrap(es2[i].pc + 4) =
                    IF RingPos(IQ_DEPTH, h2, i) + 1 < c2 THEN es2[RingNext(IQ_DEPTH, i)].pc
                                                         ELSE fetch'.pc_d
    <3> PICK p, p2 : p = RingPos(IQ_DEPTH, h, i) /\ p2 = RingPos(IQ_DEPTH, h2, i)
      OBVIOUS
    <3>1. \/ p < c /\ p2 = p - (IF dispatch THEN 1 ELSE 0) /\ p \in 0 .. IQ_DEPTH - 1
             /\ (IqPush => i # t)
          \/ IqPush /\ i = t /\ p2 = c - (IF dispatch THEN 1 ELSE 0)
      <4>1. i \in 0 .. IQ_DEPTH - 1 /\ p \in 0 .. IQ_DEPTH - 1
        BY <1>0, <2>1, RingRange DEF IqSlot
      <4>2. /\ RingPos(IQ_DEPTH, h2, i) < c2 <=>
              \/ RingPos(IQ_DEPTH, h, i) < c /\ ~(pop /\ i = h)
              \/ push /\ i = RingEnd(IQ_DEPTH, h, c)
            /\ RingPos(IQ_DEPTH, h, i) < c /\ ~(pop /\ i = h) =>
              RingPos(IQ_DEPTH, h2, i) = RingPos(IQ_DEPTH, h, i) - (IF pop THEN 1 ELSE 0)
            /\ push /\ i = RingEnd(IQ_DEPTH, h, c) =>
              /\ RingPos(IQ_DEPTH, h, i) = c
              /\ RingPos(IQ_DEPTH, h2, i) = c - (IF pop THEN 1 ELSE 0)
        BY ONLY <1>0, <2>1, <2>12, <4>1, RingWindow
      <4>3. QED
        BY <2>1, <2>8, <4>1, <4>2
    <3>2. CASE IqPush /\ i = t /\ p2 = c - (IF dispatch THEN 1 ELSE 0)
      <4>1. es2[i] = decode(instr_raw, fetch.pc_d)
        BY <2>1, <2>3, <3>2
      <4>2. es2[i].pc = fetch.pc_d
        BY <4>1 DEF decode
      <4>3. instr_raw = imem[WordIndex(fetch.pc_d)]
        BY <3>2, <2>2 DEF IqLine
      <4>4. ~(p2 + 1 < c2)
        BY <2>1, <2>2, <2>3, <3>2
      <4>5. QED
        BY <2>6, <3>2, <4>1, <4>2, <4>3, <4>4
    <3>3. CASE p < c /\ p2 = p - (IF dispatch THEN 1 ELSE 0) /\ p \in 0 .. IQ_DEPTH - 1
             /\ (IqPush => i # t)
      <4>1. es2[i] = es[i]
        BY <2>1, <2>3, <3>3
      <4>2. /\ es[i] = decode(imem[WordIndex(es[i].pc)], es[i].pc)
            /\ Wrap(es[i].pc + 4) = IF p + 1 < c THEN es[RingNext(IQ_DEPTH, i)].pc ELSE fetch.pc_d
        BY <3>3 DEF IqLine, IqPos
      <4>3. p2 + 1 < c2 <=> p + 1 < c + (IF IqPush THEN 1 ELSE 0)
        BY <2>1, <2>2, <2>3, <3>3
      <4>4. CASE p + 1 < c
        <5>1. RingPos(IQ_DEPTH, h, RingNext(IQ_DEPTH, i)) = p + 1 /\ RingNext(IQ_DEPTH, i) \in IqSlot
          <6>1. p # IQ_DEPTH - 1
            BY <2>1, <3>3, <4>4, <1>0
          <6>2. QED
            <7>1. i \in 0 .. IQ_DEPTH - 1
              BY DEF IqSlot
            <7>2. RingPos(IQ_DEPTH, h, RingNext(IQ_DEPTH, i)) =
                    IF RingPos(IQ_DEPTH, h, i) = IQ_DEPTH - 1 THEN 0 ELSE RingPos(IQ_DEPTH, h, i) + 1
              BY ONLY <1>0, <2>1, <7>1, RingSucc
            <7>3. RingNext(IQ_DEPTH, i) \in 0 .. IQ_DEPTH - 1
              BY ONLY <1>0, <2>1, <7>1, RingRange
            <7>4. QED
              BY <6>1, <7>2, <7>3 DEF IqSlot
        <5>2. IqPush => RingNext(IQ_DEPTH, i) # t
          <6>1. IqPush => RingPos(IQ_DEPTH, h, t) = c
            <7>1. IqPush => c \in 0 .. IQ_DEPTH - 1
              BY <1>0, <2>1, <2>2
            <7>2. QED
              BY <1>0, <2>1, <7>1, RingAt DEF IqSlot
          <6>2. QED
            BY <2>1, <3>3, <4>4, <5>1, <6>1
        <5>3. es2[RingNext(IQ_DEPTH, i)] = es[RingNext(IQ_DEPTH, i)]
          BY <2>1, <2>3, <5>1, <5>2
        <5>4. p2 + 1 < c2
          BY <2>1, <3>3, <4>3, <4>4
        <5>5. QED
          BY <4>1, <4>2, <4>4, <5>3, <5>4
      <4>5. CASE ~(p + 1 < c) /\ IqPush
        <5>1. p + 1 = c /\ p2 + 1 < c2 /\ c < IQ_DEPTH
          BY <2>1, <2>2, <3>3, <4>3, <4>5
        <5>2. RingNext(IQ_DEPTH, i) = t
          <6>1. p # IQ_DEPTH - 1 /\ c \in 0 .. IQ_DEPTH - 1
            BY <1>0, <2>1, <3>3, <5>1
          <6>2. RingPos(IQ_DEPTH, h, RingNext(IQ_DEPTH, i)) = c /\ RingNext(IQ_DEPTH, i) \in IqSlot
            <7>1. i \in 0 .. IQ_DEPTH - 1
              BY DEF IqSlot
            <7>2. RingPos(IQ_DEPTH, h, RingNext(IQ_DEPTH, i)) =
                    IF RingPos(IQ_DEPTH, h, i) = IQ_DEPTH - 1 THEN 0 ELSE RingPos(IQ_DEPTH, h, i) + 1
              BY ONLY <1>0, <2>1, <7>1, RingSucc
            <7>3. RingNext(IQ_DEPTH, i) \in 0 .. IQ_DEPTH - 1
              BY ONLY <1>0, <2>1, <7>1, RingRange
            <7>4. QED
              BY <5>1, <6>1, <7>2, <7>3 DEF IqSlot
          <6>3. QED
            BY <1>0, <2>1, <6>1, <6>2, RingAt DEF IqSlot
        <5>3. es2[t].pc = fetch.pc_d
          <6>1. es2[t] = decode(instr_raw, fetch.pc_d)
            BY <2>1, <2>3, <4>5
          <6>2. QED
            BY <6>1 DEF decode
        <5>4. QED
          BY <4>1, <4>2, <4>5, <5>1, <5>2, <5>3
      <4>6. CASE ~(p + 1 < c) /\ ~IqPush
        <5>1. c # 0 /\ ~(p2 + 1 < c2)
          BY <2>1, <3>3, <4>3, <4>6
        <5>2. fetch'.pc_d = fetch.pc_d
          BY <2>2, <2>6, <4>6, <5>1
        <5>3. QED
          BY <4>1, <4>2, <4>6, <5>1, <5>2
      <4>7. QED
        BY <4>4, <4>5, <4>6
    <3>4. QED
      BY <3>1, <3>2, <3>3
  <2>9. \A i \in IqSlot : IqPos(i)' = RingPos(IQ_DEPTH, h2, i)
    BY DEF IqPos
  <2>10. \A i \in IqSlot : IqPos(i)' < iq'.count =>
       /\ iq'.entries[i] = decode(imem'[WordIndex(iq'.entries[i].pc)], iq'.entries[i].pc)
       /\ Wrap(iq'.entries[i].pc + 4) =
            IF IqPos(i)' + 1 < iq'.count THEN iq'.entries[RingNext(IQ_DEPTH, i)].pc
                                       ELSE fetch'.pc_d
    BY <1>0, <2>8, <2>9
  <2>11. QED
    BY <2>4, <2>6, <2>7, <2>10 DEF IqLine
<1>3. QED
  BY <1>1, <1>2

LEMMA InitLines == Init => LsbShape /\ IqLine
<1> SUFFICES ASSUME Init PROVE LsbShape /\ IqLine
  OBVIOUS
<1>1. LSB_SIZE \in Nat \ {0} /\ IQ_DEPTH \in Nat \ {0}
  BY Sizes
<1>2. RingEnd(LSB_SIZE, 0, 0) = 0 /\ RingEnd(IQ_DEPTH, 0, 0) = 0
  BY <1>1 DEF RingEnd
<1>3. LsbShape
  <2>1. lsb.count = 0 /\ lsb.tail = 0 /\ lsb.head = 0 /\ lsb.valid = {} /\ lsb.notified = {}
    BY DEF Init, LsbInit, EmptyLsb
  <2>2. \A i \in LsbSlot : LsbPos(i) \in Nat
    <3>1. 0 \in 0 .. LSB_SIZE - 1
      BY <1>1
    <3>2. QED
      BY <1>1, <2>1, <3>1, RingRange DEF LsbPos, LsbSlot
  <2>3. 0 \in 0 .. LSB_SIZE
    BY <1>1
  <2>4. QED
    BY <1>2, <2>1, <2>2, <2>3, FS_EmptySet DEF LsbShape
<1>4. IqLine
  <2>1. iq.count = 0 /\ iq.tail = 0 /\ iq.head = 0 /\ ~fetch.valid
    BY DEF Init, FetchInit, EmptyQueue
  <2>2. \A i \in IqSlot : IqPos(i) \in Nat
    <3>1. 0 \in 0 .. IQ_DEPTH - 1
      BY <1>1
    <3>2. QED
      BY <1>1, <2>1, <3>1, RingRange DEF IqPos, IqSlot
  <2>4. QED
    BY <1>2, <2>1, <2>2 DEF IqLine
<1>5. QED
  BY <1>3, <1>4

-----------------------------------------------------------------------------
(* The reorder buffer in the machine.                                      *)

RobOK ==
  /\ count \in 0 .. ROB_SIZE
  /\ tail = RingEnd(ROB_SIZE, head, count)
  /\ \A t \in Slot : Live(t) <=> RingPos(ROB_SIZE, head, t) < count
  /\ rob_head_reg = head

LEMMA AgeIs == \A t : ROB!Age(t) = RingPos(ROB_SIZE, head, t)
  BY DEF ROB!Age, RingPos

LEMMA RobOKMeans ==
  ASSUME RobOK
  PROVE  RobWindow
  BY AgeIs, RobNames DEF RobOK, RobWindow, ROB!PositionsAgree, ROB!WindowIsLive, RingEnd, Live

(* A dispatch takes a free slot, and only a live one retires. *)
LEMMA RobPorts ==
  ASSUME TInv, RobOK
  PROVE  /\ dispatch => ~Live(tail) /\ count < ROB_SIZE /\ iq.count # 0
         /\ commit <=> entries[head].state = "DONE"
         /\ commit => count > 0 /\ Live(head) /\ ~InFlight(head)
         /\ dispatch \in BOOLEAN /\ commit \in BOOLEAN
         /\ head \in 0 .. ROB_SIZE - 1 /\ tail \in 0 .. ROB_SIZE - 1 /\ ROB_SIZE \in Nat \ {0}
<1>1. head \in 0 .. ROB_SIZE - 1 /\ tail \in 0 .. ROB_SIZE - 1 /\ ROB_SIZE \in Nat \ {0}
      /\ count \in 0 .. ROB_SIZE
  BY Sizes DEF TInv, RobT, Slot, RobOK
<1>2. dispatch => count # ROB_SIZE /\ iq.count # 0
  BY DEF dispatch, ROB!rob_full_o, iq_valid
<1>3. dispatch => count \in 0 .. ROB_SIZE - 1 /\ count < ROB_SIZE
  BY <1>1, <1>2
<1>4. dispatch => RingPos(ROB_SIZE, head, tail) = count
  BY <1>1, <1>3, RingAt DEF RobOK
<1>5. dispatch => ~Live(tail)
  BY <1>1, <1>4 DEF RobOK, Slot
<1>6. commit <=> entries[head].state = "DONE"
  BY DEF commit, ROB!commit_valid_o, ROB!commit_entry_o
<1>7. RingPos(ROB_SIZE, head, head) = 0
  BY <1>1, RingRange
<1>8. Live(head) <=> 0 < count
  BY <1>1, <1>7 DEF RobOK, Slot
<1>9. commit => count > 0 /\ Live(head) /\ ~InFlight(head)
  BY <1>1, <1>6, <1>8 DEF Live, InFlight
<1>10. dispatch \in BOOLEAN /\ commit \in BOOLEAN
  BY DEF dispatch, commit, ROB!commit_valid_o
<1>11. QED
  BY <1>1, <1>2, <1>3, <1>5, <1>6, <1>9, <1>10

(* The branch port and the bus finish a slot. *)
Finished(t) ==
  \/ br.valid /\ t = br.tag /\ entries[t].is_branch
  \/ cdb_w.valid /\ t = cdb_w.tag

(* What an edge does to one slot.  A slot is allocated, retired, or keeps  *)
(* its instruction.                                                        *)
LEMMA SlotEdge ==
  ASSUME TInv, RobOK, BranchResolvesInFlight, Clock, ~flush, NEW t \in Slot
  PROVE  /\ dispatch /\ t = tail =>
              /\ ~(commit /\ t = head)
              /\ InFlight(t)' /\ Live(t)'
              /\ entries'[t].op = iq_instr.op /\ entries'[t].rd = iq_instr.rd
              /\ entries'[t].rd_valid = iq_instr.rd_valid /\ entries'[t].pc = iq_instr.pc
              /\ entries'[t].is_branch = (iq_instr.op \in BranchOps \cup JumpOps)
         /\ commit /\ t = head => ~Live(t)' /\ ~InFlight(t)'
         /\ ~(dispatch /\ t = tail) /\ ~(commit /\ t = head) =>
              /\ Live(t)' <=> Live(t)
              /\ InFlight(t)' <=> InFlight(t) /\ ~Finished(t)
              /\ entries'[t].op = entries[t].op /\ entries'[t].rd = entries[t].rd
              /\ entries'[t].rd_valid = entries[t].rd_valid
              /\ entries'[t].pc = entries[t].pc
              /\ entries'[t].is_branch = entries[t].is_branch
<1> PICK e, e2 : e = entries[t] /\ e2 = entries'[t]
  OBVIOUS
<1>0. e \in RobEntry
  BY DEF TInv, RobT
<1>1. e2 = ROB!NextEntry(t, dispatch, iq_instr, cdb_w, br, commit)
  BY RobEdgeFacts
<1>2. dispatch /\ t = tail => ~(commit /\ t = head)
  BY RobPorts
<1>3. /\ Live(t) <=> e.state # "IDLE"
      /\ InFlight(t) <=> e.state = "IN_FLIGHT"
      /\ Live(t)' <=> e2.state # "IDLE"
      /\ InFlight(t)' <=> e2.state = "IN_FLIGHT"
  BY DEF Live, InFlight
<1>4. CASE commit /\ t = head
  <2>1. e2 = [e EXCEPT !.state = "IDLE"]
    BY <1>1, <1>4 DEF ROB!NextEntry, ROB!Retired
  <2>2. e2.state = "IDLE"
    BY <1>0, <2>1 DEF RobEntry
  <2>3. QED
    BY <1>2, <1>3, <1>4, <2>2
<1>5. CASE dispatch /\ t = tail
  <2>1. e2 = ROB!Allocated(iq_instr)
    BY <1>1, <1>2, <1>5 DEF ROB!NextEntry
  <2>2. (ROB!is_branch_op(iq_instr.op) \/ ROB!is_jump_op(iq_instr.op))
          = (iq_instr.op \in BranchOps \cup JumpOps)
    BY RobNames
  <2>3. /\ e2.state = "IN_FLIGHT" /\ e2.op = iq_instr.op /\ e2.rd = iq_instr.rd
        /\ e2.rd_valid = iq_instr.rd_valid /\ e2.pc = iq_instr.pc
        /\ e2.is_branch = (iq_instr.op \in BranchOps \cup JumpOps)
    BY <2>1, <2>2 DEF ROB!Allocated
  <2>4. QED
    BY <1>2, <1>3, <1>5, <2>3
<1>6. CASE ~(dispatch /\ t = tail) /\ ~(commit /\ t = head)
  <2>1. CASE br.valid /\ t = br.tag /\ e.is_branch
    <3>1. e2 = [e EXCEPT !.branch_taken = br.taken, !.branch_target = br.target, !.state = "DONE"]
      BY <1>1, <1>6, <2>1 DEF ROB!NextEntry, ROB!Resolved
    <3>2. InFlight(t)
      BY <2>1 DEF BranchResolvesInFlight
    <3>3. Finished(t)
      BY <2>1 DEF Finished
    <3>4. e2.state = "DONE" /\ e2.op = e.op /\ e2.rd = e.rd /\ e2.rd_valid = e.rd_valid
          /\ e2.pc = e.pc /\ e2.is_branch = e.is_branch
      BY <1>0, <3>1 DEF RobEntry
    <3>5. QED
      BY <1>3, <1>6, <3>2, <3>3, <3>4
  <2>2. CASE ~(br.valid /\ t = br.tag /\ e.is_branch) /\ cdb_w.valid /\ t = cdb_w.tag
             /\ e.state = "IN_FLIGHT"
    <3>1. e2 = [e EXCEPT !.result = cdb_w.value, !.state = "DONE"]
      BY <1>1, <1>6, <2>2 DEF ROB!NextEntry, ROB!Written
    <3>2. Finished(t)
      BY <2>2 DEF Finished
    <3>3. e2.state = "DONE" /\ e2.op = e.op /\ e2.rd = e.rd /\ e2.rd_valid = e.rd_valid
          /\ e2.pc = e.pc /\ e2.is_branch = e.is_branch
      BY <1>0, <3>1 DEF RobEntry
    <3>4. QED
      BY <1>3, <1>6, <2>2, <3>2, <3>3
  <2>3. CASE ~(br.valid /\ t = br.tag /\ e.is_branch)
             /\ ~(cdb_w.valid /\ t = cdb_w.tag /\ e.state = "IN_FLIGHT")
    <3>1. e2 = e
      BY <1>1, <1>6, <2>3 DEF ROB!NextEntry
    <3>2. Finished(t) => e.state # "IN_FLIGHT"
      BY <2>3 DEF Finished
    <3>3. QED
      BY <1>3, <1>6, <3>1, <3>2
  <2>4. QED
    BY <2>1, <2>2, <2>3
<1>7. QED
  BY <1>4, <1>5, <1>6

(* The ages of the slots after an edge. *)
LEMMA AgeEdge ==
  ASSUME TInv, RobOK, Clock, ~flush
  PROVE  /\ count' \in 0 .. ROB_SIZE /\ tail' = RingEnd(ROB_SIZE, head', count')
         /\ rob_head_reg' = head'
         /\ \A t \in Slot :
              /\ RingPos(ROB_SIZE, head', t) < count' <=>
                   (Live(t) /\ ~(commit /\ t = head)) \/ (dispatch /\ t = tail)
              /\ Live(t) /\ ~(commit /\ t = head) =>
                   RingPos(ROB_SIZE, head', t)
                     = RingPos(ROB_SIZE, head, t) - (IF commit THEN 1 ELSE 0)
              /\ dispatch /\ t = tail =>
                   RingPos(ROB_SIZE, head', t) = count - (IF commit THEN 1 ELSE 0)
<1> PICK h, c, h2, c2, push, pop, n :
      /\ h = head /\ c = count /\ h2 = head' /\ c2 = count' /\ push = dispatch /\ pop = commit
      /\ n = ROB_SIZE
  OBVIOUS
<1>1. /\ n \in Nat \ {0} /\ h \in 0 .. n - 1 /\ c \in 0 .. n /\ tail = RingEnd(n, h, c)
      /\ push \in BOOLEAN /\ pop \in BOOLEAN /\ (push => c < n) /\ (pop => c > 0)
  BY RobPorts DEF RobOK
<1>2. \A t \in 0 .. n - 1 : ROB!NextTag(t) = RingNext(n, t)
  BY TagTyped DEF Slot, RingNext
<1>3. /\ h2 = IF pop THEN RingNext(n, h) ELSE h
      /\ c2 = c + (IF push THEN 1 ELSE 0) - (IF pop THEN 1 ELSE 0)
      /\ tail' = IF push THEN RingNext(n, tail) ELSE tail
  BY <1>1, <1>2, RobEdgeFacts, RobPorts
<1>4. rob_head_reg' = head'
  BY RobEdgeFacts DEF RobOK
<1>5. tail' = RingEnd(n, h2, c2)
  BY ONLY <1>1, <1>3, RingEdge
<1>6. ASSUME NEW t \in Slot
      PROVE  /\ c2 \in 0 .. n
             /\ RingPos(n, h2, t) < c2 <=>
                   (Live(t) /\ ~(pop /\ t = h)) \/ (push /\ t = tail)
             /\ Live(t) /\ ~(pop /\ t = h) =>
                   RingPos(n, h2, t) = RingPos(n, h, t) - (IF pop THEN 1 ELSE 0)
             /\ push /\ t = tail => RingPos(n, h2, t) = c - (IF pop THEN 1 ELSE 0)
  <2>1. t \in 0 .. n - 1 /\ (Live(t) <=> RingPos(n, h, t) < c)
    BY DEF Slot, RobOK
  <2>2. /\ c2 \in 0 .. n
        /\ RingPos(n, h2, t) < c2 <=>
              \/ RingPos(n, h, t) < c /\ ~(pop /\ t = h)
              \/ push /\ t = RingEnd(n, h, c)
        /\ RingPos(n, h, t) < c /\ ~(pop /\ t = h) =>
              RingPos(n, h2, t) = RingPos(n, h, t) - (IF pop THEN 1 ELSE 0)
        /\ push /\ t = RingEnd(n, h, c) =>
              RingPos(n, h2, t) = c - (IF pop THEN 1 ELSE 0)
    BY ONLY <1>1, <1>3, <2>1, RingWindow
  <2>3. QED
    BY <1>1, <2>1, <2>2
<1>7. c2 \in 0 .. n
  BY <1>6, ZeroTyped
<1>8. QED
  BY <1>4, <1>5, <1>6, <1>7

LEMMA RobOKStep ==
  ASSUME TInv, RobOK, BranchResolvesInFlight, Clock
  PROVE  RobOK'
<1>1. CASE flush
  <2>1. /\ head' = 0 /\ tail' = 0 /\ count' = 0 /\ rob_head_reg' = 0
        /\ entries' = [t \in Slot |-> ZeroRobEntry]
    BY <1>1, RobEdgeFacts
  <2>2. \A t \in Slot : ~Live(t)'
    BY <2>1 DEF Live, ZeroRobEntry
  <2>3. ROB_SIZE \in Nat \ {0} /\ RingEnd(ROB_SIZE, 0, 0) = 0 /\ 0 \in 0 .. ROB_SIZE - 1
    BY Sizes DEF RingEnd
  <2>4. \A t \in Slot : RingPos(ROB_SIZE, 0, t) \in 0 .. ROB_SIZE - 1
    BY <2>3, RingRange DEF Slot
  <2>5. \A t \in Slot : ~(RingPos(ROB_SIZE, 0, t) < 0)
    BY <2>3, <2>4
  <2>6. QED
    BY <2>1, <2>2, <2>3, <2>5 DEF RobOK
<1>2. CASE ~flush
  <2>1. ASSUME NEW t \in Slot PROVE Live(t)' <=> RingPos(ROB_SIZE, head', t) < count'
    <3>1. RingPos(ROB_SIZE, head', t) < count' <=>
             (Live(t) /\ ~(commit /\ t = head)) \/ (dispatch /\ t = tail)
      BY <1>2, AgeEdge
    <3>2. Live(t)' <=> (Live(t) /\ ~(commit /\ t = head)) \/ (dispatch /\ t = tail)
      BY <1>2, SlotEdge
    <3>3. QED
      BY <3>1, <3>2
  <2>2. QED
    BY <1>2, <2>1, AgeEdge DEF RobOK
<1>3. QED
  BY <1>1, <1>2

-----------------------------------------------------------------------------
(* The places of an instruction in flight, from its dispatch to its        *)
(* result.  A place is <<kind, unit, number>>.  The registers of the       *)
(* integer and branch units, which a flush does not clear, count only      *)
(* while the reorder buffer is not empty.                                  *)

Place == {"station", "stage", "lsb", "alu", "alu_cdb", "br", "div", "load"}
           \X (Station \cup {"lsb"}) \X Nat

AluPlace   == <<"alu", "alu", 0>>
LatchPlace == <<"alu_cdb", "alu", 0>>
BrPlace    == <<"br", "br", 0>>
DivPlace   == <<"div", "fp_div", 0>>
LoadPlace  == <<"load", "lsb", 0>>

Held(p) ==
  \/ p[1] = "station" /\ p[2] \in Station /\ p[3] \in busy[p[2]]
  \/ p[1] = "stage" /\ p[2] \in Pipe /\ p[3] \in 1 .. PipeDepth[p[2]] /\ pipe[p[2]][p[3]].valid
  \/ p[1] = "lsb" /\ p[2] = "lsb" /\ p[3] \in lsb.valid \ lsb.notified
  \/ p = AluPlace /\ alu.valid /\ count # 0
  \/ p = LatchPlace /\ alu_cdb.valid /\ count # 0
  \/ p = BrPlace /\ br.valid /\ count # 0
  \/ p = DivPlace /\ div.state # "IDLE"
  \/ p = LoadPlace /\ load.pending

TagOf(p) ==
  CASE p[1] = "station" -> slots[p[2]][p[3]].rob_tag
    [] p[1] = "stage"   -> pipe[p[2]][p[3]].tag
    [] p[1] = "lsb"     -> lsb.entries[p[3]].rob_tag
    [] p[1] = "alu"     -> alu.tag
    [] p[1] = "alu_cdb" -> alu_cdb.tag
    [] p[1] = "br"      -> br.tag
    [] p[1] = "div"     -> div.tag
    [] p[1] = "load"    -> load.tag

(* The place by place reading of Held and TagOf, before and after an edge. *)
LEMMA PlaceNames ==
  /\ {AluPlace, LatchPlace, BrPlace, DivPlace, LoadPlace} \subseteq Place
  /\ \A s \in Station, i \in Nat : <<"station", s, i>> \in Place
  /\ \A u \in Pipe, k \in Nat : <<"stage", u, k>> \in Place
  /\ \A i \in Nat : <<"lsb", "lsb", i>> \in Place
  BY DEF Place, Station, Pipe, AluPlace, LatchPlace, BrPlace, DivPlace, LoadPlace

LEMMA HeldIs ==
  /\ \A s \in Station, i \in Nat :
       /\ Held(<<"station", s, i>>) <=> i \in busy[s]
       /\ TagOf(<<"station", s, i>>) = slots[s][i].rob_tag
  /\ \A u \in Pipe, k \in Nat :
       /\ Held(<<"stage", u, k>>) <=> k \in 1 .. PipeDepth[u] /\ pipe[u][k].valid
       /\ TagOf(<<"stage", u, k>>) = pipe[u][k].tag
  /\ \A i \in Nat :
       /\ Held(<<"lsb", "lsb", i>>) <=> i \in lsb.valid \ lsb.notified
       /\ TagOf(<<"lsb", "lsb", i>>) = lsb.entries[i].rob_tag
  /\ Held(AluPlace) <=> alu.valid /\ count # 0
  /\ Held(LatchPlace) <=> alu_cdb.valid /\ count # 0
  /\ Held(BrPlace) <=> br.valid /\ count # 0
  /\ Held(DivPlace) <=> div.state # "IDLE"
  /\ Held(LoadPlace) <=> load.pending
  /\ TagOf(AluPlace) = alu.tag /\ TagOf(LatchPlace) = alu_cdb.tag /\ TagOf(BrPlace) = br.tag
  /\ TagOf(DivPlace) = div.tag /\ TagOf(LoadPlace) = load.tag
<1> USE DEF Held, TagOf, AluPlace, LatchPlace, BrPlace, DivPlace, LoadPlace
<1>1. ASSUME NEW s \in Station, NEW i \in Nat
      PROVE  /\ Held(<<"station", s, i>>) <=> i \in busy[s]
             /\ TagOf(<<"station", s, i>>) = slots[s][i].rob_tag
  OBVIOUS
<1>2. ASSUME NEW u \in Pipe, NEW k \in Nat
      PROVE  /\ Held(<<"stage", u, k>>) <=> k \in 1 .. PipeDepth[u] /\ pipe[u][k].valid
             /\ TagOf(<<"stage", u, k>>) = pipe[u][k].tag
  OBVIOUS
<1>3. ASSUME NEW i \in Nat
      PROVE  /\ Held(<<"lsb", "lsb", i>>) <=> i \in lsb.valid \ lsb.notified
             /\ TagOf(<<"lsb", "lsb", i>>) = lsb.entries[i].rob_tag
  OBVIOUS
<1>4. (Held(AluPlace) <=> alu.valid /\ count # 0) /\ TagOf(AluPlace) = alu.tag
  OBVIOUS
<1>5. (Held(LatchPlace) <=> alu_cdb.valid /\ count # 0) /\ TagOf(LatchPlace) = alu_cdb.tag
  OBVIOUS
<1>6. (Held(BrPlace) <=> br.valid /\ count # 0) /\ TagOf(BrPlace) = br.tag
  OBVIOUS
<1>7. (Held(DivPlace) <=> div.state # "IDLE") /\ TagOf(DivPlace) = div.tag
  OBVIOUS
<1>8. (Held(LoadPlace) <=> load.pending) /\ TagOf(LoadPlace) = load.tag
  OBVIOUS
<1> HIDE DEF Held, TagOf, AluPlace, LatchPlace, BrPlace, DivPlace, LoadPlace
<1>9. QED
  BY <1>1, <1>2, <1>3, <1>4, <1>5, <1>6, <1>7, <1>8

LEMMA HeldIsNext ==
  /\ \A s \in Station, i \in Nat :
       /\ Held(<<"station", s, i>>)' <=> i \in busy'[s]
       /\ TagOf(<<"station", s, i>>)' = slots'[s][i].rob_tag
  /\ \A u \in Pipe, k \in Nat :
       /\ Held(<<"stage", u, k>>)' <=> k \in 1 .. PipeDepth[u] /\ pipe'[u][k].valid
       /\ TagOf(<<"stage", u, k>>)' = pipe'[u][k].tag
  /\ \A i \in Nat :
       /\ Held(<<"lsb", "lsb", i>>)' <=> i \in lsb'.valid \ lsb'.notified
       /\ TagOf(<<"lsb", "lsb", i>>)' = lsb'.entries[i].rob_tag
  /\ Held(AluPlace)' <=> alu'.valid /\ count' # 0
  /\ Held(LatchPlace)' <=> alu_cdb'.valid /\ count' # 0
  /\ Held(BrPlace)' <=> br'.valid /\ count' # 0
  /\ Held(DivPlace)' <=> div'.state # "IDLE"
  /\ Held(LoadPlace)' <=> load'.pending
  /\ TagOf(AluPlace)' = alu'.tag /\ TagOf(LatchPlace)' = alu_cdb'.tag /\ TagOf(BrPlace)' = br'.tag
  /\ TagOf(DivPlace)' = div'.tag /\ TagOf(LoadPlace)' = load'.tag
<1> USE DEF Held, TagOf, AluPlace, LatchPlace, BrPlace, DivPlace, LoadPlace
<1>1. ASSUME NEW s \in Station, NEW i \in Nat
      PROVE  /\ Held(<<"station", s, i>>)' <=> i \in busy'[s]
             /\ TagOf(<<"station", s, i>>)' = slots'[s][i].rob_tag
  OBVIOUS
<1>2. ASSUME NEW u \in Pipe, NEW k \in Nat
      PROVE  /\ Held(<<"stage", u, k>>)' <=> k \in 1 .. PipeDepth[u] /\ pipe'[u][k].valid
             /\ TagOf(<<"stage", u, k>>)' = pipe'[u][k].tag
  OBVIOUS
<1>3. ASSUME NEW i \in Nat
      PROVE  /\ Held(<<"lsb", "lsb", i>>)' <=> i \in lsb'.valid \ lsb'.notified
             /\ TagOf(<<"lsb", "lsb", i>>)' = lsb'.entries[i].rob_tag
  OBVIOUS
<1>4. (Held(AluPlace)' <=> alu'.valid /\ count' # 0) /\ TagOf(AluPlace)' = alu'.tag
  OBVIOUS
<1>5. (Held(LatchPlace)' <=> alu_cdb'.valid /\ count' # 0) /\ TagOf(LatchPlace)' = alu_cdb'.tag
  OBVIOUS
<1>6. (Held(BrPlace)' <=> br'.valid /\ count' # 0) /\ TagOf(BrPlace)' = br'.tag
  OBVIOUS
<1>7. (Held(DivPlace)' <=> div'.state # "IDLE") /\ TagOf(DivPlace)' = div'.tag
  OBVIOUS
<1>8. (Held(LoadPlace)' <=> load'.pending) /\ TagOf(LoadPlace)' = load'.tag
  OBVIOUS
<1> HIDE DEF Held, TagOf, AluPlace, LatchPlace, BrPlace, DivPlace, LoadPlace
<1>9. QED
  BY <1>1, <1>2, <1>3, <1>4, <1>5, <1>6, <1>7, <1>8

(* Every held place is one of the kinds. *)
LEMMA HeldCases ==
  ASSUME NEW p \in Place, Held(p)
  PROVE  \/ \E s \in Station : \E i \in busy[s] : p = <<"station", s, i>>
         \/ \E u \in Pipe : \E k \in 1 .. PipeDepth[u] : pipe[u][k].valid /\ p = <<"stage", u, k>>
         \/ \E i \in lsb.valid \ lsb.notified : p = <<"lsb", "lsb", i>>
         \/ p = AluPlace /\ alu.valid /\ count # 0
         \/ p = LatchPlace /\ alu_cdb.valid /\ count # 0
         \/ p = BrPlace /\ br.valid /\ count # 0
         \/ p = DivPlace /\ div.state # "IDLE"
         \/ p = LoadPlace /\ load.pending
<1>1. p = <<p[1], p[2], p[3]>>
  BY DEF Place
<1>2. QED
  BY <1>1 DEF Held

LEMMA HeldCasesNext ==
  ASSUME NEW p \in Place, Held(p)'
  PROVE  \/ \E s \in Station : \E i \in busy'[s] : p = <<"station", s, i>>
         \/ \E u \in Pipe : \E k \in 1 .. PipeDepth[u] : pipe'[u][k].valid /\ p = <<"stage", u, k>>
         \/ \E i \in lsb'.valid \ lsb'.notified : p = <<"lsb", "lsb", i>>
         \/ p = AluPlace /\ alu'.valid /\ count' # 0
         \/ p = LatchPlace /\ alu_cdb'.valid /\ count' # 0
         \/ p = BrPlace /\ br'.valid /\ count' # 0
         \/ p = DivPlace /\ div'.state # "IDLE"
         \/ p = LoadPlace /\ load'.pending
<1>1. p = <<p[1], p[2], p[3]>>
  BY DEF Place
<1>2. QED
  BY <1>1 DEF Held

(* A result latch is loaded only when it is free: the unit behind it       *)
(* accepts an instruction when the latch is empty or being emptied.        *)
LatchInv == (alu.valid => ~alu_cdb.valid) /\ (br.valid => ~br_cdb.valid)

LEMMA LatchStep ==
  ASSUME TInv, Clock
  PROVE  LatchInv'
<1>1. issue("alu") => fu_ready("alu")
  BY DEF issue, issue_valid_o
<1>2. fu_ready("alu") => (~alu_cdb.valid \/ fu_grant("alu")) /\ ~alu.valid
  BY DEF fu_ready, alu_fu_ready
<1>3. issue("br") => fu_ready("br")
  BY DEF issue, issue_valid_o
<1>4. fu_ready("br") => (~br_cdb.valid \/ fu_grant("br")) /\ ~br.valid
  BY DEF fu_ready, br_fu_ready
<1>5. alu_cdb \in Bus /\ br_cdb \in Bus /\ alu \in Bus
  BY DEF TInv, UnitT
<1>6. alu'.valid => ~alu_cdb'.valid
  <2>1. alu'.valid => issue("alu")
    BY <1>5, UnitEdgeFacts DEF Bus
  <2>2. ~alu.valid /\ (~alu_cdb.valid \/ fu_grant("alu")) => ~alu_cdb'.valid
    BY <1>5, UnitEdgeFacts DEF Bus, ZeroBus
  <2>3. QED
    BY <1>1, <1>2, <2>1, <2>2
<1>7. br'.valid => ~br_cdb'.valid
  <2>1. br'.valid => issue("br")
    BY UnitEdgeFacts DEF ZeroBr
  <2>2. ~br.valid /\ (~br_cdb.valid \/ fu_grant("br")) => ~br_cdb'.valid
    BY <1>5, UnitEdgeFacts DEF Bus, ZeroBus
  <2>3. QED
    BY <1>3, <1>4, <2>1, <2>2
<1>8. QED
  BY <1>6, <1>7 DEF LatchInv

-----------------------------------------------------------------------------
(* The bus.  Unit u offers the result at Output(u); only the branch unit   *)
(* offers one whose instruction has finished already.                      *)

Units == {"alu", "fp_add", "fp_mul", "fp_div", "lsb", "fp_cvt"}

Output(u) ==
  CASE u = "alu"    -> LatchPlace
    [] u \in Pipe   -> <<"stage", u, PipeDepth[u]>>
    [] u = "fp_div" -> DivPlace
    [] u = "lsb"    -> IF load.pending THEN LoadPlace ELSE <<"lsb", "lsb", store_notify_idx>>

LEMMA OutputIs ==
  /\ Output("alu") = LatchPlace /\ Output("fp_div") = DivPlace
  /\ \A u \in Pipe : Output(u) = <<"stage", u, PipeDepth[u]>>
  /\ Output("lsb") = IF load.pending THEN LoadPlace ELSE <<"lsb", "lsb", store_notify_idx>>
  BY DEF Output, Pipe

LEMMA FuOfIs ==
  /\ fu_results(FuOf["alu"]) = alu_cdb /\ fu_results(FuOf["br"]) = br_cdb
  /\ \A u \in Pipe : fu_results(FuOf[u]) = pipe[u][PipeDepth[u]]
  /\ fu_results(FuOf["fp_div"]) = div_bus /\ fu_results(FuOf["lsb"]) = lsb_bus
  /\ \A i \in Fu : \E u \in Units \cup {"br"} : FuOf[u] = i
<1>1. \A i \in Fu : i \in {0, 1, 2, 3, 4, 5, 6}
  BY Sizes DEF Fu
<1>2. /\ FuOf["alu"] = 0 /\ FuOf["br"] = 1 /\ FuOf["fp_add"] = 2 /\ FuOf["fp_mul"] = 3
      /\ FuOf["fp_div"] = 4 /\ FuOf["lsb"] = 5 /\ FuOf["fp_cvt"] = 6
  BY DEF FuOf
<1>3. \A i \in Fu : \E u \in Units \cup {"br"} : FuOf[u] = i
  <2> SUFFICES ASSUME NEW i \in Fu PROVE \E u \in Units \cup {"br"} : FuOf[u] = i
    OBVIOUS
  <2>1. CASE i = 1
    BY <1>2, <2>1
  <2>2. CASE i # 1
    BY <1>1, <1>2, <2>2 DEF Units
  <2>3. QED
    BY <2>1, <2>2
<1>4. QED
  BY <1>2, <1>3 DEF fu_results, Pipe

LEMMA OutputFacts ==
  ASSUME TInv, NEW u \in Units
  PROVE  /\ Output(u) \in Place
         /\ fu_results(FuOf[u]).valid =>
              /\ fu_results(FuOf[u]).tag = TagOf(Output(u))
              /\ Held(Output(u)) \/ (count = 0 /\ u = "alu")
<1>1. CASE u = "alu"
  BY <1>1, OutputIs, FuOfIs, HeldIs, PlaceNames
<1>2. CASE u \in Pipe
  <2>1. PipeDepth[u] \in Nat /\ PipeDepth[u] \in 1 .. PipeDepth[u]
    BY <1>2, Sizes
  <2>2. QED
    BY <1>2, <2>1, OutputIs, FuOfIs, HeldIs, PlaceNames
<1>3. CASE u = "fp_div"
  <2>1. div_bus.tag = div.tag /\ (div_bus.valid => div.state # "IDLE")
    BY DEF div_bus
  <2>2. QED
    BY <1>3, <2>1, OutputIs, FuOfIs, HeldIs, PlaceNames
<1>4. CASE u = "lsb"
  <2>1. store_notify_idx \in LsbSlot /\ LsbSlot \subseteq Nat
        /\ (store_ready_vec # {} => store_notify_idx \in lsb.valid \ lsb.notified)
    BY NotifyIn, Sizes DEF TInv, LsbSlot
  <2>2. CASE load.pending
    BY <1>4, <2>2, OutputIs, FuOfIs, HeldIs, PlaceNames DEF lsb_bus
  <2>3. CASE ~load.pending
    <3> PICK i : i = store_notify_idx
      OBVIOUS
    <3>1. lsb_bus.tag = lsb.entries[i].rob_tag /\ (lsb_bus.valid => store_ready_vec # {})
      BY <2>3 DEF lsb_bus
    <3>2. Output(u) = <<"lsb", "lsb", i>> /\ fu_results(FuOf[u]) = lsb_bus /\ i \in Nat
      BY <1>4, <2>1, <2>3, OutputIs, FuOfIs
    <3>3. Output(u) \in Place
      BY <3>2, PlaceNames
    <3>4. lsb_bus.valid => Held(Output(u))
      BY <2>1, <3>1, <3>2, HeldIs
    <3>5. TagOf(Output(u)) = lsb_bus.tag
      BY <3>1, <3>2, HeldIs
    <3>6. QED
      BY <3>2, <3>3, <3>4, <3>5
  <2>4. QED
    BY <2>2, <2>3
<1>5. QED
  BY <1>1, <1>2, <1>3, <1>4 DEF Units, Pipe

LEMMA GrantFacts ==
  ASSUME TInv
  PROVE  /\ \A u \in Units \cup {"br"} :
              fu_grant(u) => /\ cdb_w.valid /\ cdb_w = fu_results(FuOf[u])
                             /\ fu_results(FuOf[u]).valid
         /\ cdb_w.valid => \E u \in Units \cup {"br"} : fu_grant(u)
<1>1. ASSUME NEW u \in Units \cup {"br"}, fu_grant(u)
      PROVE  cdb_w.valid /\ cdb_w = fu_results(FuOf[u]) /\ fu_results(FuOf[u]).valid
  <2>1. Requests # {} /\ Grant(Requests) = FuOf[u]
    BY <1>1 DEF fu_grant, granted, Served
  <2>2. FuOf[u] \in Requests
    BY <2>1, CdbTyped
  <2>3. QED
    BY <2>1, <2>2 DEF cdb_w, Requests
<1>2. ASSUME cdb_w.valid PROVE \E u \in Units \cup {"br"} : fu_grant(u)
  <2>1. Requests # {} /\ Grant(Requests) \in Fu
    BY <1>2, CdbTyped
  <2>2. PICK u \in Units \cup {"br"} : FuOf[u] = Grant(Requests)
    BY <2>1, FuOfIs
  <2>3. QED
    BY <2>1, <2>2 DEF fu_grant, granted, Served
<1>3. QED
  BY <1>1, <1>2

(* What an edge takes off: the branch outcome, and the result on the bus. *)
Leaving(p) == p = BrPlace \/ \E u \in Units : fu_grant(u) /\ p = Output(u)

LEMMA BusTakes ==
  ASSUME TInv
  PROVE  /\ cdb_w.valid =>
              \/ \E p \in Place : Held(p) /\ Leaving(p) /\ TagOf(p) = cdb_w.tag
              \/ br_cdb.valid /\ cdb_w.tag = br_cdb.tag
              \/ count = 0
         /\ \A p \in Place : Leaving(p) /\ p # BrPlace => cdb_w.valid /\ cdb_w.tag = TagOf(p)
<1>1. ASSUME cdb_w.valid
      PROVE  \/ \E p \in Place : Held(p) /\ Leaving(p) /\ TagOf(p) = cdb_w.tag
             \/ br_cdb.valid /\ cdb_w.tag = br_cdb.tag
             \/ count = 0
  <2>1. PICK u \in Units \cup {"br"} : fu_grant(u)
    BY <1>1, GrantFacts
  <2>2. cdb_w = fu_results(FuOf[u]) /\ fu_results(FuOf[u]).valid
    BY <2>1, GrantFacts
  <2>3. CASE u = "br"
    BY <2>2, <2>3, FuOfIs
  <2>4. CASE u \in Units
    BY <2>1, <2>2, <2>4, OutputFacts DEF Leaving
  <2>5. QED
    BY <2>3, <2>4
<1>2. ASSUME NEW p \in Place, Leaving(p), p # BrPlace
      PROVE  cdb_w.valid /\ cdb_w.tag = TagOf(p)
  BY <1>2, GrantFacts, OutputFacts DEF Leaving
<1>3. QED
  BY <1>1, <1>2

-----------------------------------------------------------------------------
(* What an edge without a flush does to each kind of place.                *)

LEMMA StationEdge ==
  ASSUME TInv, Clock, ~flush, NEW s \in Station, NEW i \in Slots(s)
  PROVE  /\ i \in busy'[s] <=> \/ i \in busy[s] /\ ~(issue(s) /\ i = issue_idx(s))
                               \/ dispatch_to = s /\ i = dispatch_idx(s)
         /\ dispatch_to = s => dispatch_idx(s) \notin busy[s]
         /\ dispatch_to = s /\ i = dispatch_idx(s) => slots'[s][i] = entry
         /\ i \in busy[s] => slots'[s][i] = Snooped(slots[s][i], cdb_w)
         /\ issue(s) => issue_idx(s) \in busy[s]
<1> PICK full, b, b2, di, ii, is : /\ full = rs_full_o(s) /\ b = busy[s] /\ b2 = busy'[s]
                               /\ di = dispatch_idx(s) /\ ii = issue_idx(s) /\ is = issue(s)
  OBVIOUS
<1>1. /\ b2 = (b \cup (IF s = dispatch_to /\ ~full THEN {di} ELSE {})) \ (IF is THEN {ii} ELSE {})
      /\ ~full => di \notin b
      /\ is => ii \in b
      /\ s = dispatch_to => ~full
  BY StationEdgeFacts
<1>2. i \in b2 <=> (i \in b /\ ~(is /\ i = ii)) \/ (dispatch_to = s /\ i = di)
  BY ONLY <1>1
<1>3. slots'[s][i] = NextSlot(s, i, s = dispatch_to /\ ~rs_full_o(s), entry, cdb_w)
  <2>1. slots'[s] = [j \in Slots(s) |->
                       NextSlot(s, j, s = dispatch_to /\ ~rs_full_o(s), entry, cdb_w)]
    BY StationEdgeFacts
  <2>2. QED
    BY <2>1
<1>4. dispatch_to = s /\ i = di => slots'[s][i] = entry
  BY <1>1, <1>3 DEF NextSlot
<1>5. i \in b => slots'[s][i] = Snooped(slots[s][i], cdb_w)
  BY <1>1, <1>3 DEF NextSlot
<1>6. QED
  BY <1>1, <1>2, <1>4, <1>5

(* An instruction keeps its tag and its opcode while it waits. *)
LEMMA StationKeeps ==
  ASSUME TInv, Clock, ~flush, NEW s \in Station, NEW i \in busy[s]
  PROVE  slots'[s][i].rob_tag = slots[s][i].rob_tag /\ slots'[s][i].op = slots[s][i].op
<1>1. i \in Slots(s) /\ slots[s][i] \in RsEntry
  BY DEF TInv, StationT
<1>2. QED
  BY <1>1, StationEdge, SnoopTyped, CdbTyped

LEMMA PipeEdge ==
  ASSUME TInv, Clock, ~flush, NEW u \in Pipe
  PROVE  /\ issue(u) => advance(u, fu_grant(u))
         /\ advance(u, fu_grant(u)) =>
              /\ pipe'[u][1].valid <=> issue(u)
              /\ pipe'[u][1].tag = issue_entry_o(u).rob_tag
              /\ \A k \in 2 .. PipeDepth[u] : pipe'[u][k] = pipe[u][k - 1]
         /\ ~advance(u, fu_grant(u)) => pipe'[u] = pipe[u]
<1>1. issue(u) => advance(u, fu_grant(u))
  BY DEF issue, issue_valid_o, fu_ready, Pipe
<1>2. pipe'[u] = NextPipe(u, flush, issue(u), issue_entry_o(u), fu_grant(u))
  BY DEF Clock, UnitClock
<1> PICK x, q, D, r : /\ x = Entering(issue(u), issue_entry_o(u)) /\ q = pipe[u] /\ D = PipeDepth[u]
                      /\ r = <<x>> \o SubSeq(q, 1, D - 1)
  OBVIOUS
<1>3. x.valid = issue(u) /\ x.tag = issue_entry_o(u).rob_tag
  BY DEF Entering
<1>4. r[1] = x /\ \A k \in 2 .. D : r[k] = q[k - 1]
  <2> PICK S : S = Bus \cup {x}
    OBVIOUS
  <2>1. D \in Nat \ {0} /\ q \in [1 .. D -> S] /\ x \in S
    BY Sizes DEF TInv, UnitT
  <2>2. QED
    BY ONLY <2>1, r = <<x>> \o SubSeq(q, 1, D - 1), ShiftIn
<1>5. advance(u, fu_grant(u)) => pipe'[u] = r
  BY <1>2 DEF NextPipe
<1>6. ~advance(u, fu_grant(u)) => pipe'[u] = pipe[u]
  BY <1>2 DEF NextPipe
<1>7. QED
  BY <1>1, <1>3, <1>4, <1>5, <1>6

LEMMA DivEdge ==
  ASSUME TInv, Clock, ~flush
  PROVE  /\ issue("fp_div") => /\ div.state = "IDLE" /\ div'.state # "IDLE"
                               /\ div'.tag = issue_entry_o("fp_div").rob_tag
         /\ div.state = "IDLE" /\ ~issue("fp_div") => div'.state = "IDLE"
         /\ div.state # "IDLE" =>
              /\ div'.tag = div.tag
              /\ div'.state = "IDLE" <=> div.state = "DONE" /\ fu_grant("fp_div")
<1> PICK e : e = issue_entry_o("fp_div")
  OBVIOUS
<1>1. div' = NextDiv(flush, issue("fp_div"), e, fu_grant("fp_div"))
  BY DEF Clock, UnitClock
<1>2. issue("fp_div") => div.state = "IDLE"
  BY DEF issue, issue_valid_o, fu_ready, div_fu_ready
<1>3. div \in [state : {"IDLE", "DIVIDE", "DONE"}, cnt : Nat, tag : Slot, value : Word]
  BY DEF TInv, UnitT
<1>4. CASE div.state = "IDLE"
  <2>1. CASE issue("fp_div")
    <3>1. div'.state = "DIVIDE" /\ div'.tag = e.rob_tag
      BY <1>1, <1>4, <2>1 DEF NextDiv
    <3>2. QED
      BY <1>4, <2>1, <3>1
  <2>2. CASE ~issue("fp_div")
    BY <1>1, <1>4, <2>2 DEF NextDiv
  <2>3. QED
    BY <2>1, <2>2
<1>5. CASE div.state = "DIVIDE"
  <2>1. div'.tag = div.tag /\ div'.state \in {"DIVIDE", "DONE"}
    BY <1>1, <1>3, <1>5 DEF NextDiv
  <2>2. QED
    BY <1>2, <1>5, <2>1
<1>6. CASE div.state = "DONE"
  <2>1. div'.tag = div.tag /\ (div'.state = "IDLE" <=> fu_grant("fp_div"))
    BY <1>1, <1>3, <1>6 DEF NextDiv
  <2>2. QED
    BY <1>2, <1>6, <2>1
<1>7. QED
  BY <1>3, <1>4, <1>5, <1>6

LEMMA LoadEdge ==
  ASSUME TInv, Clock, ~flush
  PROVE  /\ load'.pending <=> load_issue \/ (load.pending /\ ~fu_grant("lsb"))
         /\ load_issue => /\ ~load.pending /\ load'.tag = head_entry.rob_tag
                          /\ load'.op = head_entry.op
                          /\ lsb.head \in lsb.valid /\ is_load_op(head_entry.op)
         /\ ~load_issue => load'.tag = load.tag
<1>1. load' = IF load_issue THEN [pending |-> TRUE, tag |-> head_entry.rob_tag,
                                  op |-> head_entry.op, addr |-> head_addr]
              ELSE [load EXCEPT !.pending = @ /\ ~fu_grant("lsb")]
  BY DEF Clock, LsbClock, LoadClock
<1>2. load \in [pending : BOOLEAN, tag : Slot, op : Opcode, addr : Word]
  BY DEF TInv, LsbT
<1>3. load_issue => ~load.pending /\ lsb.head \in lsb.valid /\ is_load_op(head_entry.op)
  BY DEF load_issue
<1>4. CASE load_issue
  BY <1>1, <1>3, <1>4
<1>5. CASE ~load_issue
  BY <1>1, <1>2, <1>5
<1>6. QED
  BY <1>4, <1>5

LEMMA AluBrEdge ==
  ASSUME TInv, Clock, ~flush
  PROVE  /\ alu'.valid <=> issue("alu")
         /\ issue("alu") => alu'.tag = issue_entry_o("alu").rob_tag
         /\ br'.valid <=> issue("br")
         /\ issue("br") => br'.tag = issue_entry_o("br").rob_tag
         /\ alu_cdb'.valid <=> alu.valid \/ (alu_cdb.valid /\ ~fu_grant("alu"))
         /\ alu.valid => alu_cdb'.tag = alu.tag
         /\ ~alu.valid => alu_cdb'.tag = alu_cdb.tag
         /\ br_cdb'.valid <=> br.valid \/ (br_cdb.valid /\ ~fu_grant("br"))
         /\ br.valid => br_cdb'.tag = br.tag
         /\ ~br.valid => br_cdb'.tag = br_cdb.tag
<1>1. alu \in Bus /\ alu_cdb \in Bus /\ br_cdb \in Bus
  BY DEF TInv, UnitT
<1>2. (alu'.valid <=> issue("alu")) /\ (issue("alu") => alu'.tag = issue_entry_o("alu").rob_tag)
  BY <1>1, UnitEdgeFacts DEF Bus
<1>3. (br'.valid <=> issue("br")) /\ (issue("br") => br'.tag = issue_entry_o("br").rob_tag)
  <2>1. issue("br") => br'.valid /\ br'.tag = issue_entry_o("br").rob_tag
    BY UnitEdgeFacts
  <2>2. ~issue("br") => ~br'.valid
    BY UnitEdgeFacts DEF ZeroBr
  <2>3. QED
    BY <2>1, <2>2
<1>4. /\ alu_cdb'.valid <=> alu.valid \/ (alu_cdb.valid /\ ~fu_grant("alu"))
      /\ alu.valid => alu_cdb'.tag = alu.tag
      /\ ~alu.valid => alu_cdb'.tag = alu_cdb.tag
  BY <1>1, UnitEdgeFacts DEF Bus
<1>5. /\ br_cdb'.valid <=> br.valid \/ (br_cdb.valid /\ ~fu_grant("br"))
      /\ br.valid => br_cdb'.tag = br.tag
      /\ ~br.valid => br_cdb'.tag = br_cdb.tag
  BY <1>1, UnitEdgeFacts DEF Bus
<1>6. QED
  BY <1>2, <1>3, <1>4, <1>5

LEMMA LsbEdge ==
  ASSUME TInv, LsbShape, Clock, ~flush, NEW i \in LsbSlot
  PROVE  /\ i \in lsb'.valid <=> (i \in lsb.valid /\ ~(Popped /\ i = lsb.head))
                                    \/ (Pushed /\ i = lsb.tail)
         /\ i \in lsb'.valid \ lsb'.notified <=>
              \/ /\ i \in lsb.valid \ lsb.notified /\ ~(Popped /\ i = lsb.head)
                 /\ ~(Notified /\ i = store_notify_idx)
              \/ Pushed /\ i = lsb.tail
         /\ Pushed => lsb.tail \notin lsb.valid
         /\ Pushed /\ i = lsb.tail => lsb'.entries[i] = entry
         /\ i \in lsb.valid => /\ lsb'.entries[i] = Snooped(lsb.entries[i], cdb_w)
                               /\ lsb'.entries[i].rob_tag = lsb.entries[i].rob_tag
                               /\ lsb'.entries[i].op = lsb.entries[i].op
<1>1. lsb.entries \in [LsbSlot -> RsEntry] /\ lsb.tail \in LsbSlot
  BY DEF TInv, LsbT
<1>2. Pushed => lsb.tail \notin lsb.valid
  <2>1. Pushed => lsb.count # LSB_SIZE
    BY LsbEdgeFacts
  <2>2. lsb.count # LSB_SIZE => LsbPos(lsb.tail) = lsb.count
    BY <1>1, LsbPosEdge
  <2>3. lsb.tail \in lsb.valid <=> LsbPos(lsb.tail) < lsb.count
    BY <1>1 DEF LsbShape
  <2>4. lsb.count \in Int
    BY DEF TInv, LsbT
  <2>5. QED
    BY <2>1, <2>2, <2>3, <2>4
<1>3. lsb'.entries[i] = IF Pushed /\ i = lsb.tail THEN entry
                        ELSE IF i \in lsb.valid THEN Snooped(lsb.entries[i], cdb_w)
                        ELSE lsb.entries[i]
  <2>1. lsb'.entries = [j \in LsbSlot |->
              IF Pushed /\ j = lsb.tail THEN entry
              ELSE IF j \in lsb.valid THEN Snooped(lsb.entries[j], cdb_w)
              ELSE lsb.entries[j]]
    BY LsbEdgeFacts
  <2>2. QED
    BY <2>1
<1>4. /\ Snooped(lsb.entries[i], cdb_w).rob_tag = lsb.entries[i].rob_tag
      /\ Snooped(lsb.entries[i], cdb_w).op = lsb.entries[i].op
  BY <1>1, SnoopTyped, CdbTyped
<1>5. /\ lsb'.valid = (lsb.valid \ (IF Popped THEN {lsb.head} ELSE {}))
                           \cup (IF Pushed THEN {lsb.tail} ELSE {})
      /\ lsb'.notified = ((lsb.notified \cup (IF Notified THEN {store_notify_idx} ELSE {}))
                               \ (IF Popped THEN {lsb.head} ELSE {}))
                               \ (IF Pushed THEN {lsb.tail} ELSE {})
  BY LsbEdgeFacts
<1>6. i \in lsb'.valid <=> (i \in lsb.valid /\ ~(Popped /\ i = lsb.head))
                              \/ (Pushed /\ i = lsb.tail)
  BY ONLY <1>5
<1>7. i \in lsb'.notified <=> (i \in lsb.notified \/ (Notified /\ i = store_notify_idx))
                               /\ ~(Popped /\ i = lsb.head) /\ ~(Pushed /\ i = lsb.tail)
  BY ONLY <1>5
<1>8. i \in lsb'.valid \ lsb'.notified <=>
              \/ /\ i \in lsb.valid \ lsb.notified /\ ~(Popped /\ i = lsb.head)
                 /\ ~(Notified /\ i = store_notify_idx)
              \/ Pushed /\ i = lsb.tail
  <2>1. Pushed /\ i = lsb.tail => i \notin lsb.valid
    BY <1>2
  <2>2. QED
    BY ONLY <1>6, <1>7, <2>1
<1>9. Pushed /\ i = lsb.tail => lsb'.entries[i] = entry
  BY <1>3
<1>10. i \in lsb.valid => lsb'.entries[i] = Snooped(lsb.entries[i], cdb_w)
  BY <1>2, <1>3
<1>11. QED
  BY <1>2, <1>4, <1>6, <1>8, <1>9, <1>10

LEMMA LeavingIs ==
  ASSUME TInv
  PROVE  /\ \A s \in Station, i \in Nat : ~Leaving(<<"station", s, i>>)
         /\ \A u \in Pipe, k \in Nat :
              Leaving(<<"stage", u, k>>) <=> fu_grant(u) /\ k = PipeDepth[u]
         /\ \A i \in Nat : Leaving(<<"lsb", "lsb", i>>) <=> Notified /\ i = store_notify_idx
         /\ ~Leaving(AluPlace) /\ Leaving(BrPlace)
         /\ Leaving(LatchPlace) <=> fu_grant("alu")
         /\ Leaving(DivPlace) <=> div.state = "DONE" /\ fu_grant("fp_div")
         /\ Leaving(LoadPlace) <=> load.pending /\ fu_grant("lsb")
<1>1. ASSUME NEW p
      PROVE  Leaving(p) <=> \/ p = BrPlace
                            \/ fu_grant("alu") /\ p = LatchPlace
                            \/ \E u \in Pipe : fu_grant(u) /\ p = <<"stage", u, PipeDepth[u]>>
                            \/ fu_grant("fp_div") /\ p = DivPlace
                            \/ fu_grant("lsb") /\ p = Output("lsb")
  BY OutputIs DEF Leaving, Units, Pipe
<1>2. fu_grant("fp_div") => div.state = "DONE"
  <2>1. fu_grant("fp_div") => fu_results(FuOf["fp_div"]).valid
    BY GrantFacts DEF Units
  <2>2. div_bus.valid => div.state = "DONE"
    BY DEF div_bus
  <2>3. QED
    BY <2>1, <2>2, FuOfIs
<1>3. fu_grant("lsb") /\ ~load.pending <=> Notified
  <2>1. fu_grant("lsb") => fu_results(FuOf["lsb"]).valid
    BY GrantFacts DEF Units
  <2>2. lsb_bus.valid => load.pending \/ store_ready_vec # {}
    BY DEF lsb_bus
  <2>3. QED
    BY <2>1, <2>2, FuOfIs DEF Notified
<1> PICK o : o = Output("lsb")
  OBVIOUS
<1>4. o = IF load.pending THEN LoadPlace ELSE <<"lsb", "lsb", store_notify_idx>>
  BY OutputIs
<1> USE DEF AluPlace, LatchPlace, BrPlace, DivPlace, LoadPlace
<1>5. ASSUME NEW s \in Station, NEW i \in Nat PROVE ~Leaving(<<"station", s, i>>)
  BY <1>1, <1>4
<1>6. ASSUME NEW u \in Pipe, NEW k \in Nat
      PROVE  Leaving(<<"stage", u, k>>) <=> fu_grant(u) /\ k = PipeDepth[u]
  BY <1>1, <1>4
<1>7. ASSUME NEW i \in Nat
      PROVE  Leaving(<<"lsb", "lsb", i>>) <=> Notified /\ i = store_notify_idx
  BY <1>1, <1>3, <1>4
<1>8. ~Leaving(AluPlace) /\ Leaving(BrPlace)
  BY <1>1, <1>4
<1>9. Leaving(LatchPlace) <=> fu_grant("alu")
  BY <1>1, <1>4
<1>10. Leaving(DivPlace) <=> div.state = "DONE" /\ fu_grant("fp_div")
  BY <1>1, <1>2, <1>4
<1>11. Leaving(LoadPlace) <=> load.pending /\ fu_grant("lsb")
  BY <1>1, <1>4
<1> HIDE DEF AluPlace, LatchPlace, BrPlace, DivPlace, LoadPlace
<1>12. QED
  BY <1>5, <1>6, <1>7, <1>8, <1>9, <1>10, <1>11

(* Where an instruction goes that does not leave, and where one enters.    *)
Exit(s) ==
  CASE s = "alu"    -> AluPlace
    [] s = "br"     -> BrPlace
    [] s = "fp_div" -> DivPlace
    [] OTHER        -> <<"stage", s, 1>>

To(p) ==
  CASE p[1] = "station" -> IF issue(p[2]) /\ p[3] = issue_idx(p[2]) THEN Exit(p[2]) ELSE p
    [] p[1] = "stage"   -> IF advance(p[2], fu_grant(p[2])) THEN <<"stage", p[2], p[3] + 1>> ELSE p
    [] p[1] = "lsb"     -> IF load_issue /\ p[3] = lsb.head THEN LoadPlace ELSE p
    [] p[1] = "alu"     -> LatchPlace
    [] OTHER            -> p

NewPlace ==
  IF target(iq_instr.op) = "lsb" THEN <<"lsb", "lsb", lsb.tail>>
  ELSE <<"station", target(iq_instr.op), dispatch_idx(target(iq_instr.op))>>

LEMMA ToIs ==
  /\ Exit("alu") = AluPlace /\ Exit("br") = BrPlace /\ Exit("fp_div") = DivPlace
  /\ \A u \in Pipe : Exit(u) = <<"stage", u, 1>>
  /\ \A s, i : To(<<"station", s, i>>)
                 = IF issue(s) /\ i = issue_idx(s) THEN Exit(s) ELSE <<"station", s, i>>
  /\ \A u, k : To(<<"stage", u, k>>)
                 = IF advance(u, fu_grant(u)) THEN <<"stage", u, k + 1>> ELSE <<"stage", u, k>>
  /\ \A i : To(<<"lsb", "lsb", i>>)
                 = IF load_issue /\ i = lsb.head THEN LoadPlace ELSE <<"lsb", "lsb", i>>
  /\ To(AluPlace) = LatchPlace /\ To(LatchPlace) = LatchPlace /\ To(DivPlace) = DivPlace
  /\ To(LoadPlace) = LoadPlace
<1>1. /\ Exit("alu") = AluPlace /\ Exit("br") = BrPlace /\ Exit("fp_div") = DivPlace
      /\ \A u \in Pipe : Exit(u) = <<"stage", u, 1>>
  BY DEF Exit, Pipe
<1>2. \A s, i : To(<<"station", s, i>>)
                 = IF issue(s) /\ i = issue_idx(s) THEN Exit(s) ELSE <<"station", s, i>>
  BY DEF To
<1>3. \A u, k : To(<<"stage", u, k>>)
                 = IF advance(u, fu_grant(u)) THEN <<"stage", u, k + 1>> ELSE <<"stage", u, k>>
  BY DEF To
<1>4. \A i : To(<<"lsb", "lsb", i>>)
                 = IF load_issue /\ i = lsb.head THEN LoadPlace ELSE <<"lsb", "lsb", i>>
  BY DEF To
<1>5. To(AluPlace) = LatchPlace /\ To(LatchPlace) = LatchPlace /\ To(DivPlace) = DivPlace
      /\ To(LoadPlace) = LoadPlace
  BY DEF To, AluPlace, LatchPlace, DivPlace, LoadPlace
<1>6. QED
  BY <1>1, <1>2, <1>3, <1>4, <1>5

-----------------------------------------------------------------------------
(* The places hold exactly the instructions in flight, each of them once.  *)

HeldInFlight == \A p \in Place : Held(p) => InFlight(TagOf(p))
OnePlace     == \A p, q \in Place : Held(p) /\ Held(q) /\ TagOf(p) = TagOf(q) => p = q
SomePlace    == \A t \in Slot : InFlight(t) => \E p \in Place : Held(p) /\ TagOf(p) = t

(* A branch has finished when its result waits for the bus. *)
LateBranch == br_cdb.valid => ~InFlight(br_cdb.tag)

(* The registers that a flush leaves drain before the next dispatch: after *)
(* a flush the outputs of the units come first (second line), then the     *)
(* latches (third), of which the arbiter empties one an edge (fourth,      *)
(* first), while fetch needs as long to fill the queue.                    *)
Drained ==
  count = 0 =>
    \/ ~alu.valid /\ ~br.valid /\ ~alu_cdb.valid
    \/ /\ iq.count = 0 /\ ~fetch.valid /\ ~alu_cdb.valid /\ ~br_cdb.valid
       /\ \A t \in Slot : ~entries[t].is_branch
    \/ iq.count = 0 /\ ~alu.valid /\ ~br.valid
    \/ ~alu.valid /\ ~br.valid /\ ~br_cdb.valid

(* The opcode under a tag is the one of the instruction that waits. *)
Kinds ==
  /\ \A t \in Slot :
       Live(t) => entries[t].is_branch = (entries[t].op \in BranchOps \cup JumpOps)
  /\ \A s \in Station : \A i \in busy[s] : entries[slots[s][i].rob_tag].op = slots[s][i].op
  /\ br.valid /\ count # 0 => entries[br.tag].is_branch

(* The tag of a held place names a slot. *)
LEMMA HeldTag ==
  ASSUME TInv, NEW p \in Place, Held(p)
  PROVE  TagOf(p) \in Slot
<1>1. CASE \E s \in Station : \E i \in busy[s] : p = <<"station", s, i>>
  <2>1. PICK s \in Station : \E i \in busy[s] : p = <<"station", s, i>>
    BY <1>1
  <2>2. PICK i \in busy[s] : p = <<"station", s, i>>
    BY <2>1
  <2>3. i \in Slots(s) /\ i \in Nat /\ slots[s][i] \in RsEntry
    BY Sizes DEF TInv, StationT, Slots
  <2>4. QED
    BY <2>2, <2>3, HeldIs DEF RsEntry
<1>2. CASE \E u \in Pipe : \E k \in 1 .. PipeDepth[u] : pipe[u][k].valid /\ p = <<"stage", u, k>>
  <2>1. PICK u \in Pipe : \E k \in 1 .. PipeDepth[u] : pipe[u][k].valid /\ p = <<"stage", u, k>>
    BY <1>2
  <2>2. PICK k \in 1 .. PipeDepth[u] : pipe[u][k].valid /\ p = <<"stage", u, k>>
    BY <2>1
  <2>3. k \in Nat /\ pipe[u][k] \in Bus
    BY Sizes DEF TInv, UnitT
  <2>4. QED
    BY <2>2, <2>3, HeldIs DEF Bus
<1>3. CASE \E i \in lsb.valid \ lsb.notified : p = <<"lsb", "lsb", i>>
  <2>1. PICK i \in lsb.valid \ lsb.notified : p = <<"lsb", "lsb", i>>
    BY <1>3
  <2>2. i \in LsbSlot /\ i \in Nat /\ lsb.entries[i] \in RsEntry
    BY Sizes DEF TInv, LsbT, LsbSlot
  <2>3. QED
    BY <2>1, <2>2, HeldIs DEF RsEntry
<1>4. CASE p \in {AluPlace, LatchPlace, BrPlace, DivPlace, LoadPlace}
  <2>1. alu.tag \in Slot /\ alu_cdb.tag \in Slot /\ br.tag \in Slot /\ div.tag \in Slot
        /\ load.tag \in Slot
    BY DEF TInv, UnitT, LsbT, Bus, BrResult
  <2>2. QED
    BY <1>4, <2>1, HeldIs
<1>5. QED
  BY <1>1, <1>2, <1>3, <1>4, HeldCases

(* Whatever is held is live, so nothing is held in an empty machine. *)
LEMMA NothingHeld ==
  ASSUME TInv, RobOK, HeldInFlight, count = 0
  PROVE  /\ \A t \in Slot : ~Live(t) /\ ~InFlight(t)
         /\ \A p \in Place : ~Held(p)
<1>1. \A t \in Slot : RingPos(ROB_SIZE, head, t) \in Nat
  BY RingRange, Sizes DEF TInv, RobT, Slot
<1>2. \A t \in Slot : ~Live(t)
  BY <1>1 DEF RobOK
<1>3. \A t \in Slot : ~InFlight(t)
  BY <1>2 DEF Live, InFlight
<1>4. QED
  BY <1>2, <1>3, HeldTag DEF HeldInFlight

(* A dispatched instruction is in a place that was free. *)
LEMMA Enters ==
  ASSUME TInv, LsbShape, Clock, ~flush, dispatch, NEW q, q = NewPlace
  PROVE  q \in Place /\ Held(q)' /\ TagOf(q)' = tail
<1> PICK s : s = target(iq_instr.op)
  OBVIOUS
<1>1. s \in Station \cup {"lsb"} /\ dispatch_to = s
  BY EntryTyped, TargetFacts DEF dispatch_to
<1>2. entry.rob_tag = tail
  BY DEF entry
<1>3. CASE s = "lsb"
  <2> PICK i : i = lsb.tail
    OBVIOUS
  <2>1. q = <<"lsb", "lsb", i>> /\ i \in LsbSlot /\ i \in Nat /\ Pushed
    BY <1>1, <1>3, Sizes DEF NewPlace, TInv, LsbT, LsbSlot, Pushed
  <2>2. i \in lsb'.valid \ lsb'.notified /\ lsb'.entries[i] = entry
    BY <2>1, LsbEdge
  <2>3. QED
    BY <1>2, <2>1, <2>2, HeldIsNext, PlaceNames
<1>4. CASE s \in Station
  <2> PICK i : i = dispatch_idx(s)
    OBVIOUS
  <2>1. s # "lsb"
    BY <1>4 DEF Station
  <2>2. q = <<"station", s, i>>
    BY <2>1 DEF NewPlace
  <2>3. i \in Slots(s) /\ i \in Nat
    <3>1. i \in Slots(s)
      BY <1>4, StationEdgeFacts
    <3>2. QED
      BY <1>4, <3>1, Sizes DEF Slots
  <2>4. i \in busy'[s] /\ slots'[s][i] = entry
    BY <1>1, <1>4, <2>3, StationEdge
  <2>5. QED
    BY <1>2, <1>4, <2>2, <2>3, <2>4, HeldIsNext, PlaceNames
<1>5. QED
  BY <1>1, <1>3, <1>4

(* What does not leave is still there after the edge, perhaps one place    *)
(* further on.  A store that retires has left before.                      *)
LEMMA MovesOn ==
  ASSUME TInv, LsbShape, LatchInv, RobOK, HeldInFlight, Clock, ~flush, count' # 0,
         NEW p \in Place, Held(p), ~Leaving(p), NEW q, q = To(p)
  PROVE  q \in Place /\ Held(q)' /\ TagOf(q)' = TagOf(p)
<1>1. CASE \E s \in Station : \E i \in busy[s] : p = <<"station", s, i>>
  <2>1. PICK s \in Station : \E i \in busy[s] : p = <<"station", s, i>>
    BY <1>1
  <2>2. PICK i \in busy[s] : p = <<"station", s, i>>
    BY <2>1
  <2>3. i \in Slots(s) /\ i \in Nat
    BY Sizes DEF TInv, StationT, Slots
  <2>4. TagOf(p) = slots[s][i].rob_tag
    BY <2>2, <2>3, HeldIs
  <2>5. CASE ~(issue(s) /\ i = issue_idx(s))
    <3>1. q = <<"station", s, i>>
      BY <2>2, <2>5, ToIs
    <3>2. i \in busy'[s] /\ slots'[s][i].rob_tag = slots[s][i].rob_tag
      BY <2>3, <2>5, StationEdge, StationKeeps
    <3>3. QED
      BY <2>3, <2>4, <3>1, <3>2, HeldIsNext, PlaceNames
  <2>6. CASE issue(s) /\ i = issue_idx(s)
    <3>1. q = Exit(s)
      BY <2>2, <2>6, ToIs
    <3>2. issue_entry_o(s).rob_tag = TagOf(p)
      BY <2>4, <2>6 DEF issue_entry_o
    <3>3. CASE s = "alu"
      BY <2>6, <3>1, <3>2, <3>3, ToIs, AluBrEdge, HeldIsNext, PlaceNames
    <3>4. CASE s = "br"
      BY <2>6, <3>1, <3>2, <3>4, ToIs, AluBrEdge, HeldIsNext, PlaceNames
    <3>5. CASE s = "fp_div"
      BY <2>6, <3>1, <3>2, <3>5, ToIs, DivEdge, HeldIsNext, PlaceNames
    <3>6. CASE s \in Pipe
      <4>1. q = <<"stage", s, 1>> /\ 1 \in 1 .. PipeDepth[s] /\ 1 \in Nat
        BY <3>1, <3>6, ToIs, Sizes
      <4>2. pipe'[s][1].valid /\ pipe'[s][1].tag = TagOf(p)
        BY <2>6, <3>2, <3>6, PipeEdge
      <4>3. QED
        BY <3>6, <4>1, <4>2, HeldIsNext, PlaceNames
    <3>7. QED
      BY <3>3, <3>4, <3>5, <3>6 DEF Station, Pipe
  <2>7. QED
    BY <2>5, <2>6
<1>2. CASE \E u \in Pipe : \E k \in 1 .. PipeDepth[u] : pipe[u][k].valid /\ p = <<"stage", u, k>>
  <2>1. PICK u \in Pipe : \E k \in 1 .. PipeDepth[u] : pipe[u][k].valid /\ p = <<"stage", u, k>>
    BY <1>2
  <2>2. PICK k \in 1 .. PipeDepth[u] : pipe[u][k].valid /\ p = <<"stage", u, k>>
    BY <2>1
  <2>3. k \in Nat /\ PipeDepth[u] \in Nat
    BY Sizes
  <2>4. TagOf(p) = pipe[u][k].tag
    BY <2>2, <2>3, HeldIs
  <2>5. CASE ~advance(u, fu_grant(u))
    <3>1. q = <<"stage", u, k>> /\ pipe'[u] = pipe[u]
      <4>1. q = <<"stage", u, k>>
        BY <2>2, <2>5, ToIs
      <4>2. pipe'[u] = pipe[u]
        BY <2>5, PipeEdge
      <4>3. QED
        BY <4>1, <4>2
    <3>2. QED
      BY <2>2, <2>3, <2>4, <3>1, HeldIsNext, PlaceNames
  <2>6. CASE advance(u, fu_grant(u))
    <3>1. k # PipeDepth[u]
      <4>1. k = PipeDepth[u] => ~fu_grant(u)
        BY <2>2, <2>3, LeavingIs
      <4>2. QED
        BY <2>2, <2>6, <4>1 DEF advance
    <3> PICK k1 : k1 = k + 1
      OBVIOUS
    <3>2. k1 \in 2 .. PipeDepth[u] /\ k1 \in 1 .. PipeDepth[u] /\ k1 \in Nat /\ k1 - 1 = k
      BY <2>3, <3>1
    <3>3. pipe'[u][k1] = pipe[u][k]
      BY <2>6, <3>2, PipeEdge
    <3>4. q = <<"stage", u, k1>>
      BY <2>2, <2>6, ToIs
    <3>5. QED
      BY <2>2, <2>4, <3>2, <3>3, <3>4, HeldIsNext, PlaceNames
  <2>7. QED
    BY <2>5, <2>6
<1>3. CASE \E i \in lsb.valid \ lsb.notified : p = <<"lsb", "lsb", i>>
  <2>1. PICK i \in lsb.valid \ lsb.notified : p = <<"lsb", "lsb", i>>
    BY <1>3
  <2>2. i \in LsbSlot /\ i \in Nat
    BY Sizes DEF TInv, LsbT, LsbSlot
  <2>3. TagOf(p) = lsb.entries[i].rob_tag
    BY <2>1, <2>2, HeldIs
  <2>4. ~(Notified /\ i = store_notify_idx)
    BY <2>1, <2>2, LeavingIs
  <2>5. CASE ~(Popped /\ i = lsb.head)
    <3>1. q = <<"lsb", "lsb", i>>
      BY <2>1, <2>5, ToIs DEF Popped, do_pop
    <3>2. i \in lsb'.valid \ lsb'.notified /\ lsb'.entries[i].rob_tag = lsb.entries[i].rob_tag
      BY <2>1, <2>2, <2>4, <2>5, LsbEdge
    <3>3. QED
      BY <2>2, <2>3, <3>1, <3>2, HeldIsNext, PlaceNames
  <2>6. CASE Popped /\ i = lsb.head
    <3>1. ~store_write(store_commit)
      <4>1. store_write(store_commit) => commit /\ head_entry.rob_tag = rob_head_reg
        BY DEF store_write, store_commit
      <4>2. head_entry.rob_tag = TagOf(p)
        BY <2>3, <2>6 DEF head_entry
      <4>3. InFlight(TagOf(p)) /\ rob_head_reg = head
        BY DEF HeldInFlight, RobOK
      <4>4. commit => ~InFlight(head)
        BY RobPorts
      <4>5. QED
        BY <4>1, <4>2, <4>3, <4>4
    <3>2. load_issue
      BY <2>6, <3>1 DEF Popped, do_pop
    <3>3. q = LoadPlace
      BY <2>1, <2>6, <3>2, ToIs
    <3>4. load'.pending /\ load'.tag = head_entry.rob_tag
      BY <3>2, LoadEdge
    <3>5. head_entry.rob_tag = TagOf(p)
      BY <2>3, <2>6 DEF head_entry
    <3>6. QED
      BY <3>3, <3>4, <3>5, HeldIsNext, PlaceNames
  <2>7. QED
    BY <2>5, <2>6
<1>4. CASE p = AluPlace /\ alu.valid
  BY <1>4, ToIs, AluBrEdge, HeldIs, HeldIsNext, PlaceNames
<1>5. CASE p = LatchPlace /\ alu_cdb.valid
  <2>1. ~fu_grant("alu") /\ ~alu.valid
    BY <1>5, LeavingIs DEF LatchInv
  <2>2. QED
    BY <1>5, <2>1, ToIs, AluBrEdge, HeldIs, HeldIsNext, PlaceNames
<1>6. CASE p = BrPlace
  BY <1>6, LeavingIs
<1>7. CASE p = DivPlace /\ div.state # "IDLE"
  <2>1. ~(div.state = "DONE" /\ fu_grant("fp_div"))
    BY <1>7, LeavingIs
  <2>2. div'.state # "IDLE" /\ div'.tag = div.tag
    BY <1>7, <2>1, DivEdge
  <2>3. QED
    BY <1>7, <2>2, ToIs, HeldIs, HeldIsNext, PlaceNames
<1>8. CASE p = LoadPlace /\ load.pending
  <2>1. ~fu_grant("lsb")
    BY <1>8, LeavingIs
  <2>2. load'.pending /\ load'.tag = load.tag
    BY <1>8, <2>1, LoadEdge
  <2>3. QED
    BY <1>8, <2>2, ToIs, HeldIs, HeldIsNext, PlaceNames
<1>9. QED
  BY <1>1, <1>2, <1>3, <1>4, <1>5, <1>6, <1>7, <1>8, HeldCases

(* Only a store is marked as notified. *)
LsbKind == \A i \in lsb.notified : is_store_op(lsb.entries[i].op)

LEMMA LsbKindStep ==
  ASSUME TInv, LsbShape, LsbKind, Clock
  PROVE  LsbKind'
<1>1. CASE flush
  <2>1. lsb'.notified = {}
    BY <1>1 DEF Clock, LsbClock, EmptyLsb
  <2>2. QED
    BY <2>1 DEF LsbKind
<1>2. CASE ~flush
  <2> SUFFICES ASSUME NEW i \in lsb'.notified PROVE is_store_op(lsb'.entries[i].op)
    BY DEF LsbKind, is_store_op
  <2>1. /\ i \in lsb.notified \/ (Notified /\ i = store_notify_idx)
    BY <1>2, LsbEdgeFacts
  <2>2. Notified => store_notify_idx \in store_ready_vec
    BY NotifyIn DEF TInv, Notified
  <2>3. i \in lsb.valid /\ i \in LsbSlot
    BY <2>1, <2>2, NotifyIn DEF LsbShape, TInv, LsbT
  <2>4. is_store_op(lsb.entries[i].op)
    BY <2>1, <2>2 DEF LsbKind, store_ready_vec
  <2>5. lsb'.entries[i].op = lsb.entries[i].op
    BY <1>2, <2>3, LsbEdge
  <2>6. QED
    BY <2>4, <2>5
<1>3. QED
  BY <1>1, <1>2

LEMMA LoadsAndStores == \A op : is_load_op(op) => ~is_store_op(op)
  BY DEF is_load_op, is_store_op, LoadOps, StoreOps

(* In an empty machine only the latches behind the integer and the branch  *)
(* unit are on the bus.                                                    *)
LEMMA EmptyBus ==
  ASSUME TInv, RobOK, HeldInFlight, count = 0
  PROVE  /\ \A s \in Station : ~issue(s)
         /\ ~dispatch => count' = 0 \/ ~Clock \/ flush
         /\ alu_cdb.valid => fu_grant("alu") \/ (br_cdb.valid /\ fu_grant("br"))
<1>1. \A s \in Station : ~issue(s)
  <2> SUFFICES ASSUME NEW s \in Station, issue(s) PROVE FALSE
    OBVIOUS
  <2> PICK i : i = issue_idx(s)
    OBVIOUS
  <2>1. i \in busy[s] /\ i \in Slots(s)
    BY IssueTyped DEF TInv, StationT
  <2>2. i \in Nat
    BY <2>1, Sizes DEF Slots
  <2>3. Held(<<"station", s, i>>) /\ <<"station", s, i>> \in Place
    BY <2>1, <2>2, HeldIs, PlaceNames
  <2>4. QED
    BY <2>3, NothingHeld
<1>2. ~dispatch => count' = 0 \/ ~Clock \/ flush
  <2>1. ~commit
    BY RobPorts, NothingHeld DEF TInv, RobT
  <2>2. QED
    BY <2>1, RobEdgeFacts
<1>3. ASSUME alu_cdb.valid PROVE fu_grant("alu") \/ (br_cdb.valid /\ fu_grant("br"))
  <2>1. 0 \in Fu /\ fu_results(0) = alu_cdb
    BY Sizes DEF Fu, fu_results
  <2>2. Requests # {}
    BY <1>3, <2>1 DEF Requests
  <2>3. cdb_w.valid
    BY <2>2, CdbTyped
  <2>4. PICK u \in Units \cup {"br"} : fu_grant(u)
    BY <2>3, GrantFacts
  <2>5. fu_results(FuOf[u]).valid
    BY <2>4, GrantFacts
  <2>6. CASE u = "br"
    BY <2>4, <2>5, <2>6, FuOfIs
  <2>7. CASE u \in Units
    <3>1. u = "alu"
      BY <2>5, <2>7, OutputFacts, NothingHeld
    <3>2. QED
      BY <2>4, <3>1
  <2>8. QED
    BY <2>6, <2>7
<1>4. QED
  BY <1>1, <1>2, <1>3

(* What is held after an edge has just been dispatched or was held before. *)
LEMMA ComesFrom ==
  ASSUME TInv, LsbShape, LsbKind, RobOK, HeldInFlight, Drained, Clock, ~flush,
         NEW q \in Place, Held(q)'
  PROVE  \/ dispatch /\ q = NewPlace /\ TagOf(q)' = tail
         \/ \E p \in Place : Held(p) /\ ~Leaving(p) /\ To(p) = q /\ TagOf(q)' = TagOf(p)
<1>0. ASSUME NEW s \in Station, issue(s), q = Exit(s),
             TagOf(q)' = issue_entry_o(s).rob_tag
      PROVE  \E p \in Place : Held(p) /\ ~Leaving(p) /\ To(p) = q /\ TagOf(q)' = TagOf(p)
  <2> PICK i, p : i = issue_idx(s) /\ p = <<"station", s, i>>
    OBVIOUS
  <2>1. i \in busy[s] /\ i \in Slots(s)
    BY <1>0, IssueTyped DEF TInv, StationT
  <2>2. i \in Nat
    BY <2>1, Sizes DEF Slots
  <2>3. p \in Place /\ Held(p) /\ ~Leaving(p)
    BY <2>1, <2>2, HeldIs, PlaceNames, LeavingIs
  <2>4. To(p) = Exit(s)
    BY <1>0, ToIs
  <2>5. TagOf(p) = issue_entry_o(s).rob_tag
    BY <2>2, HeldIs DEF issue_entry_o
  <2>6. QED
    BY <1>0, <2>3, <2>4, <2>5
<1>1. CASE \E s \in Station : \E i \in busy'[s] : q = <<"station", s, i>>
  <2>1. PICK s \in Station : \E i \in busy'[s] : q = <<"station", s, i>>
    BY <1>1
  <2>2. PICK i \in busy'[s] : q = <<"station", s, i>>
    BY <2>1
  <2>3. i \in Slots(s) /\ i \in Nat
    <3>1. busy'[s] \subseteq Slots(s)
      BY StationStepT DEF StationT
    <3>2. QED
      BY <3>1, Sizes DEF Slots
  <2>4. TagOf(q)' = slots'[s][i].rob_tag
    BY <2>2, <2>3, HeldIsNext
  <2>5. CASE i \in busy[s] /\ ~(issue(s) /\ i = issue_idx(s))
    <3>1. To(q) = q
      BY <2>2, <2>5, ToIs
    <3>2. Held(q) /\ ~Leaving(q) /\ TagOf(q) = slots[s][i].rob_tag
      BY <2>2, <2>3, <2>5, HeldIs, LeavingIs
    <3>3. slots'[s][i].rob_tag = slots[s][i].rob_tag
      BY <2>5, StationKeeps
    <3>4. QED
      BY <2>4, <3>1, <3>2, <3>3
  <2>6. CASE dispatch_to = s /\ i = dispatch_idx(s)
    <3>1. dispatch /\ target(iq_instr.op) = s /\ s # "lsb"
      BY <2>6 DEF dispatch_to, Station
    <3>2. q = NewPlace
      BY <2>2, <2>6, <3>1 DEF NewPlace
    <3>3. slots'[s][i] = entry
      BY <2>3, <2>6, StationEdge
    <3>4. QED
      BY <2>4, <3>1, <3>2, <3>3 DEF entry
  <2>7. QED
    BY <2>2, <2>3, <2>5, <2>6, StationEdge
<1>2. CASE \E u \in Pipe : \E k \in 1 .. PipeDepth[u] : pipe'[u][k].valid /\ q = <<"stage", u, k>>
  <2>1. PICK u \in Pipe : \E k \in 1 .. PipeDepth[u] : pipe'[u][k].valid /\ q = <<"stage", u, k>>
    BY <1>2
  <2>2. PICK k \in 1 .. PipeDepth[u] : pipe'[u][k].valid /\ q = <<"stage", u, k>>
    BY <2>1
  <2>3. k \in Nat /\ PipeDepth[u] \in Nat \ {0}
    BY Sizes
  <2>4. TagOf(q)' = pipe'[u][k].tag
    BY <2>2, <2>3, HeldIsNext
  <2>5. CASE ~advance(u, fu_grant(u))
    <3>1. pipe'[u] = pipe[u]
      BY <2>5, PipeEdge
    <3>2. To(q) = q
      BY <2>2, <2>5, ToIs
    <3>3. ~fu_grant(u)
      BY <2>5 DEF advance
    <3>4. Held(q) /\ ~Leaving(q) /\ TagOf(q) = pipe[u][k].tag
      BY <2>2, <2>3, <3>1, <3>3, HeldIs, LeavingIs
    <3>5. QED
      BY <2>4, <3>1, <3>2, <3>4
  <2>6. CASE advance(u, fu_grant(u)) /\ k = 1
    <3>1. pipe'[u][1].valid <=> issue(u)
      BY <2>6, PipeEdge
    <3>2. pipe'[u][1].tag = issue_entry_o(u).rob_tag
      BY <2>6, PipeEdge
    <3>3. q = Exit(u) /\ u \in Station
      BY <2>2, <2>6, ToIs DEF Pipe, Station
    <3>4. QED
      BY <1>0, <2>2, <2>4, <2>6, <3>1, <3>2, <3>3
  <2>7. CASE advance(u, fu_grant(u)) /\ k # 1
    <3> PICK k0, p : k0 = k - 1 /\ p = <<"stage", u, k0>>
      OBVIOUS
    <3>1. k0 \in Nat /\ k0 \in 1 .. PipeDepth[u] /\ k0 + 1 = k /\ k \in 2 .. PipeDepth[u]
          /\ k0 # PipeDepth[u]
      BY <2>3, <2>7
    <3>2. pipe'[u][k] = pipe[u][k0]
      BY <2>7, <3>1, PipeEdge
    <3>3. To(p) = q
      BY <2>2, <2>7, <3>1, ToIs
    <3>4. p \in Place /\ Held(p) /\ ~Leaving(p) /\ TagOf(p) = pipe[u][k0].tag
      BY <2>2, <3>1, <3>2, HeldIs, LeavingIs, PlaceNames
    <3>5. QED
      BY <2>4, <3>2, <3>3, <3>4
  <2>8. QED
    BY <2>5, <2>6, <2>7
<1>3. CASE \E i \in lsb'.valid \ lsb'.notified : q = <<"lsb", "lsb", i>>
  <2>1. PICK i \in lsb'.valid \ lsb'.notified : q = <<"lsb", "lsb", i>>
    BY <1>3
  <2>2. i \in LsbSlot /\ i \in Nat
    <3>1. lsb'.valid \subseteq LsbSlot
      BY LsbStepT DEF LsbT
    <3>2. QED
      BY <3>1, Sizes DEF LsbSlot
  <2>3. TagOf(q)' = lsb'.entries[i].rob_tag
    BY <2>1, <2>2, HeldIsNext
  <2>4. CASE Pushed /\ i = lsb.tail
    <3>1. dispatch /\ q = NewPlace
      BY <2>1, <2>4 DEF Pushed, dispatch_to, NewPlace
    <3>2. lsb'.entries[i] = entry
      BY <2>2, <2>4, LsbEdge
    <3>3. QED
      BY <2>3, <3>1, <3>2 DEF entry
  <2>5. CASE /\ i \in lsb.valid \ lsb.notified /\ ~(Popped /\ i = lsb.head)
             /\ ~(Notified /\ i = store_notify_idx)
    <3>1. To(q) = q
      BY <2>1, <2>5, ToIs DEF Popped, do_pop
    <3>2. Held(q) /\ ~Leaving(q) /\ TagOf(q) = lsb.entries[i].rob_tag
      BY <2>1, <2>2, <2>5, HeldIs, LeavingIs
    <3>3. lsb'.entries[i].rob_tag = lsb.entries[i].rob_tag
      BY <2>2, <2>5, LsbEdge
    <3>4. QED
      BY <2>3, <3>1, <3>2, <3>3
  <2>6. QED
    BY <2>1, <2>2, <2>4, <2>5, LsbEdge
<1>4. CASE q = AluPlace /\ alu'.valid
  <2>1. issue("alu") /\ TagOf(q)' = issue_entry_o("alu").rob_tag /\ q = Exit("alu")
    BY <1>4, AluBrEdge, HeldIsNext, ToIs
  <2>2. QED
    BY <1>0, <2>1 DEF Station
<1>5. CASE q = LatchPlace /\ alu_cdb'.valid /\ count' # 0
  <2>1. CASE count = 0
    <3>1. dispatch
      BY <1>5, <2>1, EmptyBus
    <3>2. iq.count # 0
      BY <3>1, RobPorts
    <3>3. ~alu.valid /\ (alu_cdb.valid => ~br_cdb.valid)
      BY <2>1, <3>2 DEF Drained
    <3>4. alu_cdb.valid => fu_grant("alu")
      BY <2>1, <3>3, EmptyBus
    <3>5. QED
      BY <1>5, <3>3, <3>4, AluBrEdge
  <2>2. CASE count # 0 /\ alu.valid
    <3>1. Held(AluPlace) /\ To(AluPlace) = q /\ TagOf(AluPlace) = alu.tag /\ ~Leaving(AluPlace)
      BY <1>5, <2>2, HeldIs, ToIs, LeavingIs
    <3>2. TagOf(q)' = alu.tag
      BY <1>5, <2>2, HeldIsNext, AluBrEdge
    <3>3. QED
      BY <3>1, <3>2, PlaceNames
  <2>3. CASE count # 0 /\ ~alu.valid
    <3>1. alu_cdb.valid /\ ~fu_grant("alu") /\ alu_cdb'.tag = alu_cdb.tag
      BY <1>5, <2>3, AluBrEdge
    <3>2. Held(q) /\ To(q) = q /\ TagOf(q) = alu_cdb.tag /\ ~Leaving(q)
      BY <1>5, <2>3, <3>1, HeldIs, ToIs, LeavingIs
    <3>3. TagOf(q)' = alu_cdb'.tag
      BY <1>5, HeldIsNext
    <3>4. QED
      BY <3>1, <3>2, <3>3
  <2>4. QED
    BY <2>1, <2>2, <2>3
<1>6. CASE q = BrPlace /\ br'.valid
  <2>1. issue("br") /\ TagOf(q)' = issue_entry_o("br").rob_tag /\ q = Exit("br")
    BY <1>6, AluBrEdge, HeldIsNext, ToIs
  <2>2. QED
    BY <1>0, <2>1 DEF Station
<1>7. CASE q = DivPlace /\ div'.state # "IDLE"
  <2>1. CASE issue("fp_div")
    <3>1. TagOf(q)' = issue_entry_o("fp_div").rob_tag /\ q = Exit("fp_div")
      BY <1>7, <2>1, DivEdge, HeldIsNext, ToIs
    <3>2. QED
      BY <1>0, <2>1, <3>1 DEF Station
  <2>2. CASE ~issue("fp_div")
    <3>1. div.state # "IDLE" /\ div'.tag = div.tag /\ ~(div.state = "DONE" /\ fu_grant("fp_div"))
      BY <1>7, <2>2, DivEdge
    <3>2. Held(q) /\ To(q) = q /\ TagOf(q) = div.tag /\ ~Leaving(q)
      BY <1>7, <3>1, HeldIs, ToIs, LeavingIs
    <3>3. TagOf(q)' = div'.tag
      BY <1>7, HeldIsNext
    <3>4. QED
      BY <3>1, <3>2, <3>3
  <2>3. QED
    BY <2>1, <2>2
<1>8. CASE q = LoadPlace /\ load'.pending
  <2>0. TagOf(q)' = load'.tag
    BY <1>8, HeldIsNext
  <2>1. CASE load_issue
    <3> PICK i, p : i = lsb.head /\ p = <<"lsb", "lsb", i>>
      OBVIOUS
    <3>1. i \in LsbSlot /\ i \in Nat /\ i \in lsb.valid
      BY <2>1, LoadEdge, Sizes DEF TInv, LsbT, LsbSlot
    <3>2. is_load_op(lsb.entries[i].op) /\ load'.tag = lsb.entries[i].rob_tag
      BY <2>1, LoadEdge DEF head_entry
    <3>3. i \notin lsb.notified
      BY <3>2, LoadsAndStores DEF LsbKind
    <3>4. ~(Notified /\ i = store_notify_idx)
      <4>1. Notified => store_notify_idx \in store_ready_vec
        BY NotifyIn DEF TInv, Notified
      <4>2. QED
        BY <3>2, <4>1, LoadsAndStores DEF store_ready_vec
    <3>5. p \in Place /\ Held(p) /\ ~Leaving(p) /\ TagOf(p) = lsb.entries[i].rob_tag
      BY <3>1, <3>3, <3>4, HeldIs, LeavingIs, PlaceNames
    <3>6. To(p) = q
      BY <1>8, <2>1, ToIs
    <3>7. QED
      BY <2>0, <3>2, <3>5, <3>6
  <2>2. CASE ~load_issue
    <3>1. load.pending /\ ~fu_grant("lsb") /\ load'.tag = load.tag
      BY <1>8, <2>2, LoadEdge
    <3>2. Held(q) /\ To(q) = q /\ TagOf(q) = load.tag /\ ~Leaving(q)
      BY <1>8, <3>1, HeldIs, ToIs, LeavingIs
    <3>3. QED
      BY <2>0, <3>1, <3>2
  <2>3. QED
    BY <2>1, <2>2
<1>9. QED
  BY <1>1, <1>2, <1>3, <1>4, <1>5, <1>6, <1>7, <1>8, HeldCasesNext

-----------------------------------------------------------------------------
(* Tag ownership, step by step.                                            *)

Owned ==
  /\ RobOK
  /\ HeldInFlight /\ OnePlace /\ SomePlace
  /\ LateBranch /\ Drained /\ Kinds

(* The one case in which a tag gets a second owner: a branch has retired   *)
(* while its result still waits for the bus, and its slot is dispatched    *)
(* to again.                                                               *)
NoTagReuse == br_cdb.valid /\ ~fu_grant("br") /\ dispatch /\ ~flush => br_cdb.tag # tail

LEMMA BranchInFlight ==
  ASSUME TInv, Owned
  PROVE  BranchResolvesInFlight
<1> SUFFICES ASSUME br.valid, entries[br.tag].is_branch PROVE InFlight(br.tag)
  BY DEF BranchResolvesInFlight
<1>1. br.tag \in Slot
  BY DEF TInv, UnitT, BrResult
<1>2. CASE count # 0
  <2>1. Held(BrPlace) /\ BrPlace \in Place /\ TagOf(BrPlace) = br.tag
    BY <1>2, HeldIs, PlaceNames
  <2>2. QED
    BY <2>1 DEF Owned, HeldInFlight
<1>3. CASE count = 0
  BY <1>1, <1>3 DEF Owned, Drained
<1>4. QED
  BY <1>2, <1>3

(* Everything but the outputs of the two units is clear after a flush. *)
LEMMA FlushClears ==
  ASSUME TInv, Clock, flush
  PROVE  /\ count' = 0 /\ iq'.count = 0 /\ ~fetch'.valid /\ ~alu_cdb'.valid /\ ~br_cdb'.valid
         /\ \A t \in Slot : ~Live(t)' /\ ~InFlight(t)' /\ ~entries'[t].is_branch
         /\ \A s \in Station : busy'[s] = {}
         /\ \A q \in Place : ~Held(q)'
<1>1. count' = 0 /\ entries' = [t \in Slot |-> ZeroRobEntry]
  BY RobEdgeFacts
<1>2. \A t \in Slot : ~Live(t)' /\ ~InFlight(t)' /\ ~entries'[t].is_branch
  BY <1>1 DEF Live, InFlight, ZeroRobEntry
<1>3. iq'.count = 0 /\ ~fetch'.valid
  BY DEF Clock, QueueClock, FetchClock, EmptyQueue
<1>4. ~alu_cdb'.valid /\ ~br_cdb'.valid
  BY UnitEdgeFacts DEF ZeroBus
<1>5. \A s \in Station : busy'[s] = {}
  BY StationEdgeFacts
<1>6. \A u \in Pipe : \A k \in 1 .. PipeDepth[u] : ~pipe'[u][k].valid
  <2> SUFFICES ASSUME NEW u \in Pipe, NEW k \in 1 .. PipeDepth[u] PROVE ~pipe'[u][k].valid
    OBVIOUS
  <2>1. pipe'[u] = ZeroPipe[u]
    BY DEF Clock, UnitClock, NextPipe
  <2>2. QED
    BY <2>1 DEF ZeroPipe, ZeroBus
<1>7. div'.state = "IDLE"
  <2>1. div' = NextDiv(flush, issue("fp_div"), issue_entry_o("fp_div"), fu_grant("fp_div"))
    BY DEF Clock, UnitClock
  <2>2. div' = ZeroDiv
    BY <2>1 DEF NextDiv
  <2>3. QED
    BY <2>2 DEF ZeroDiv
<1>8. lsb'.valid = {} /\ ~load'.pending
  BY DEF Clock, LsbClock, LoadClock, EmptyLsb, NoLoad
<1>9. ASSUME NEW q \in Place, Held(q)' PROVE FALSE
  BY <1>1, <1>5, <1>6, <1>7, <1>8, <1>9, HeldCasesNext
<1>10. QED
  BY <1>1, <1>2, <1>3, <1>4, <1>5, <1>9

(* The tag of an instruction that does not leave stays in flight. *)
LEMMA StaysInFlight ==
  ASSUME TInv, Owned, Clock, ~flush, NEW p \in Place, Held(p), ~Leaving(p),
         NEW t, t = TagOf(p)
  PROVE  /\ t \in Slot /\ InFlight(t) /\ InFlight(t)'
         /\ count # 0 /\ ~(dispatch /\ t = tail) /\ ~(commit /\ t = head)
<1>1. t \in Slot /\ InFlight(t)
  BY HeldTag DEF Owned, HeldInFlight
<1>2. count # 0
  BY <1>1, NothingHeld DEF Owned
<1>3. Live(t)
  BY <1>1 DEF Live, InFlight
<1>4. ~(dispatch /\ t = tail) /\ ~(commit /\ t = head)
  BY <1>1, <1>3, RobPorts DEF Owned
<1>5. ~Finished(t)
  <2>1. ~(br.valid /\ t = br.tag)
    <3> SUFFICES ASSUME br.valid, t = br.tag PROVE FALSE
      OBVIOUS
    <3>1. Held(BrPlace) /\ BrPlace \in Place /\ TagOf(BrPlace) = t /\ Leaving(BrPlace)
      BY <1>2, HeldIs, PlaceNames, LeavingIs
    <3>2. QED
      BY <3>1 DEF Owned, OnePlace
  <2>2. ~(cdb_w.valid /\ t = cdb_w.tag)
    <3> SUFFICES ASSUME cdb_w.valid, t = cdb_w.tag PROVE FALSE
      OBVIOUS
    <3>1. CASE \E r \in Place : Held(r) /\ Leaving(r) /\ TagOf(r) = cdb_w.tag
      BY <3>1 DEF Owned, OnePlace
    <3>2. CASE br_cdb.valid /\ cdb_w.tag = br_cdb.tag
      BY <1>1, <3>2 DEF Owned, LateBranch
    <3>3. QED
      BY <1>2, <3>1, <3>2, BusTakes
  <2>3. QED
    BY <2>1, <2>2 DEF Finished
<1>6. InFlight(t)'
  <2>1. RobOK /\ BranchResolvesInFlight
    BY BranchInFlight DEF Owned
  <2>2. QED
    BY <1>1, <1>4, <1>5, <2>1, SlotEdge
<1>7. QED
  BY <1>1, <1>2, <1>4, <1>6

LEMMA DispatchInFlight ==
  ASSUME TInv, Owned, Clock, ~flush, dispatch, NEW t, t = tail
  PROVE  t \in Slot /\ InFlight(t)' /\ Live(t)' /\ ~Live(t) /\ ~InFlight(t)
<1>1. RobOK /\ BranchResolvesInFlight
  BY BranchInFlight DEF Owned
<1>2. t \in Slot
  BY DEF TInv, RobT
<1>3. ~Live(t)
  BY <1>1, RobPorts
<1>4. ~InFlight(t)
  BY <1>3 DEF Live, InFlight
<1>5. InFlight(t)' /\ Live(t)'
  BY <1>1, <1>2, SlotEdge
<1>6. QED
  BY <1>2, <1>3, <1>4, <1>5

LEMMA HeldInFlightStep ==
  ASSUME TInv, LsbShape, LsbKind, Owned, Clock
  PROVE  HeldInFlight'
<1> SUFFICES ASSUME NEW q \in Place, Held(q)', NEW t, t = TagOf(q)' PROVE InFlight(t)'
  BY DEF HeldInFlight, InFlight, Place
<1>1. ~flush
  BY FlushClears
<1>2. CASE dispatch /\ q = NewPlace /\ t = tail
  BY <1>1, <1>2, DispatchInFlight
<1>3. CASE \E p \in Place : Held(p) /\ ~Leaving(p) /\ To(p) = q /\ t = TagOf(p)
  BY <1>1, <1>3, StaysInFlight
<1>4. QED
  BY <1>1, <1>2, <1>3, ComesFrom DEF Owned

LEMMA OnePlaceStep ==
  ASSUME TInv, LsbShape, LsbKind, Owned, Clock
  PROVE  OnePlace'
<1> SUFFICES ASSUME NEW q1 \in Place, NEW q2 \in Place, Held(q1)', Held(q2)',
                    NEW t, t = TagOf(q1)', t = TagOf(q2)'
             PROVE  q1 = q2
  BY DEF OnePlace, Place
<1>1. ~flush
  BY FlushClears
<1>2. ASSUME NEW q \in Place, Held(q)', t = TagOf(q)'
      PROVE  \/ dispatch /\ q = NewPlace /\ t = tail
             \/ \E p \in Place : Held(p) /\ ~Leaving(p) /\ To(p) = q /\ t = TagOf(p)
  BY <1>1, <1>2, ComesFrom DEF Owned
<1>3. CASE dispatch /\ t = tail
  <2>1. ~InFlight(t)
    BY <1>1, <1>3, DispatchInFlight
  <2>2. \A p \in Place : Held(p) => t # TagOf(p)
    BY <2>1 DEF Owned, HeldInFlight
  <2>3. q1 = NewPlace /\ q2 = NewPlace
    BY <1>2, <2>2
  <2>4. QED
    BY <2>3
<1>4. CASE ~(dispatch /\ t = tail)
  <2>1. PICK p1 \in Place : Held(p1) /\ To(p1) = q1 /\ t = TagOf(p1)
    BY <1>2, <1>4
  <2>2. PICK p2 \in Place : Held(p2) /\ To(p2) = q2 /\ t = TagOf(p2)
    BY <1>2, <1>4
  <2>3. p1 = p2
    BY <2>1, <2>2 DEF Owned, OnePlace
  <2>4. QED
    BY <2>1, <2>2, <2>3
<1>5. QED
  BY <1>3, <1>4

LEMMA SomePlaceStep ==
  ASSUME TInv, LsbShape, LatchInv, Owned, Clock
  PROVE  SomePlace'
<1> SUFFICES ASSUME NEW t \in Slot, InFlight(t)' PROVE \E q \in Place : Held(q)' /\ TagOf(q)' = t
  BY DEF SomePlace, Place
<1>1. ~flush
  BY FlushClears
<1>2. RobOK /\ HeldInFlight /\ BranchResolvesInFlight
  BY BranchInFlight DEF Owned
<1>3. CASE dispatch /\ t = tail
  <2> PICK q : q = NewPlace
    OBVIOUS
  <2>1. q \in Place /\ Held(q)' /\ TagOf(q)' = tail
    BY <1>1, <1>3, Enters
  <2>2. QED
    BY <1>3, <2>1
<1>4. CASE ~(dispatch /\ t = tail)
  <2>1. InFlight(t) /\ ~Finished(t)
    BY <1>1, <1>2, <1>4, SlotEdge
  <2>2. PICK p \in Place : Held(p) /\ TagOf(p) = t
    BY <2>1 DEF Owned, SomePlace
  <2>3. count # 0
    BY <1>2, <2>2, NothingHeld
  <2>4. ~Leaving(p)
    <3> SUFFICES ASSUME Leaving(p) PROVE FALSE
      OBVIOUS
    <3>1. CASE p = BrPlace
      <4>1. br.valid /\ br.tag = t
        BY <2>2, <3>1, HeldIs
      <4>2. entries[br.tag].is_branch
        BY <2>3, <4>1 DEF Owned, Kinds
      <4>3. QED
        BY <2>1, <4>1, <4>2 DEF Finished
    <3>2. CASE p # BrPlace
      BY <2>1, <2>2, <3>2, BusTakes DEF Finished
    <3>3. QED
      BY <3>1, <3>2
  <2>5. count' # 0
    <3>1. RobOK' /\ Live(t)'
      BY <1>2, RobOKStep DEF Live, InFlight
    <3>2. RingPos(ROB_SIZE, head', t) < count'
      BY <3>1 DEF RobOK
    <3>3. head' \in Slot /\ ROB_SIZE \in Nat \ {0}
      BY RobStepT, Sizes DEF RobT
    <3>4. RingPos(ROB_SIZE, head', t) \in Nat
      BY <3>3, RingRange DEF Slot
    <3>5. QED
      BY <3>2, <3>4
  <2> PICK q : q = To(p)
    OBVIOUS
  <2>6. q \in Place /\ Held(q)' /\ TagOf(q)' = TagOf(p)
    BY <1>1, <1>2, <2>2, <2>4, <2>5, MovesOn
  <2>7. QED
    BY <2>2, <2>6
<1>5. QED
  BY <1>3, <1>4

LEMMA LateBranchStep ==
  ASSUME TInv, Owned, NoTagReuse, Clock
  PROVE  LateBranch'
<1> SUFFICES ASSUME br_cdb'.valid, NEW t, t = br_cdb'.tag PROVE ~InFlight(t)'
  BY DEF LateBranch, InFlight
<1>1. ~flush
  BY FlushClears
<1>2. RobOK /\ BranchResolvesInFlight
  BY BranchInFlight DEF Owned
<1>3. t \in Slot
  BY UnitStepT DEF UnitT, Bus
<1>4. CASE br.valid /\ count # 0
  <2>1. t = br.tag
    BY <1>1, <1>4, AluBrEdge
  <2>2. Held(BrPlace) /\ BrPlace \in Place /\ TagOf(BrPlace) = t
    BY <1>4, <2>1, HeldIs, PlaceNames
  <2>3. InFlight(t)
    BY <2>2 DEF Owned, HeldInFlight
  <2>4. Live(t)
    BY <2>3 DEF Live, InFlight
  <2>5. ~(dispatch /\ t = tail) /\ ~(commit /\ t = head)
    BY <1>2, <2>3, <2>4, RobPorts
  <2>6. Finished(t)
    BY <1>4, <2>1 DEF Finished, Owned, Kinds
  <2>7. QED
    BY <1>1, <1>2, <1>3, <2>5, <2>6, SlotEdge
<1>5. CASE br.valid /\ count = 0
  <2>1. ~dispatch
    BY <1>2, <1>5, RobPorts DEF Owned, Drained
  <2>2. ~InFlight(t)
    BY <1>2, <1>3, <1>5, NothingHeld DEF Owned
  <2>3. QED
    BY <1>1, <1>2, <1>3, <2>1, <2>2, SlotEdge
<1>6. CASE ~br.valid
  <2>1. br_cdb.valid /\ ~fu_grant("br") /\ t = br_cdb.tag
    BY <1>1, <1>6, AluBrEdge
  <2>2. ~InFlight(t)
    BY <2>1 DEF Owned, LateBranch
  <2>3. ~(dispatch /\ t = tail)
    BY <1>1, <2>1 DEF NoTagReuse
  <2>4. QED
    BY <1>1, <1>2, <1>3, <2>2, <2>3, SlotEdge
<1>7. QED
  BY <1>4, <1>5, <1>6

LEMMA LiveCount ==
  ASSUME TInv, Owned, Clock, NEW t \in Slot, Live(t)'
  PROVE  count' # 0
<1>1. RobOK'
  BY BranchInFlight, RobOKStep DEF Owned
<1>2. RingPos(ROB_SIZE, head', t) < count'
  BY <1>1 DEF RobOK
<1>3. head' \in Slot /\ ROB_SIZE \in Nat \ {0}
  BY RobStepT, Sizes DEF RobT
<1>4. RingPos(ROB_SIZE, head', t) \in Nat
  BY <1>3, RingRange DEF Slot
<1>5. QED
  BY <1>2, <1>4

(* An edge that empties the reorder buffer finds every unit idle. *)
LEMMA LastRetires ==
  ASSUME TInv, Owned, Clock, ~flush, count' = 0
  PROVE  ~dispatch /\ \A p \in Place : ~Held(p)
<1>1. ~dispatch
  <2> SUFFICES ASSUME dispatch PROVE FALSE
    OBVIOUS
  <2> PICK t : t = tail
    OBVIOUS
  <2>1. t \in Slot /\ Live(t)'
    BY DispatchInFlight
  <2>2. QED
    BY <2>1, LiveCount
<1>2. ASSUME NEW p \in Place, Held(p) PROVE FALSE
  <2> PICK t : t = TagOf(p)
    OBVIOUS
  <2>1. t \in Slot /\ InFlight(t)
    BY <1>2, HeldTag DEF Owned, HeldInFlight
  <2>2. Live(t) /\ RobOK /\ BranchResolvesInFlight
    BY <2>1, BranchInFlight DEF Live, InFlight, Owned
  <2>3. ~(commit /\ t = head)
    BY <2>1, <2>2, RobPorts
  <2>4. Live(t)'
    BY <1>1, <2>1, <2>2, <2>3, SlotEdge
  <2>5. QED
    BY <2>1, <2>4, LiveCount
<1>3. QED
  BY <1>1, <1>2

LEMMA NotIssued ==
  ASSUME TInv, \A p \in Place : ~Held(p)
  PROVE  \A s \in Station : ~issue(s)
<1> SUFFICES ASSUME NEW s \in Station, issue(s) PROVE FALSE
  OBVIOUS
<1> PICK i : i = issue_idx(s)
  OBVIOUS
<1>1. i \in busy[s] /\ i \in Slots(s)
  BY IssueTyped DEF TInv, StationT
<1>2. i \in Nat
  BY <1>1, Sizes DEF Slots
<1>3. Held(<<"station", s, i>>) /\ <<"station", s, i>> \in Place
  BY <1>1, <1>2, HeldIs, PlaceNames
<1>4. QED
  BY <1>3

LEMMA DrainedStep ==
  ASSUME TInv, Owned, Clock
  PROVE  Drained'
<1>1. CASE flush
  <2>1. count' = 0 /\ iq'.count = 0 /\ ~fetch'.valid /\ ~alu_cdb'.valid /\ ~br_cdb'.valid
    BY <1>1, FlushClears
  <2>2. \A t \in Slot : ~entries'[t].is_branch
    BY <1>1, FlushClears
  <2>3. QED
    BY <2>1, <2>2 DEF Drained
<1>2. CASE ~flush /\ count' = 0
  <2>1. ~dispatch /\ \A p \in Place : ~Held(p)
    BY <1>2, LastRetires
  <2>2. ~alu'.valid /\ ~br'.valid
    <3>1. ~issue("alu") /\ ~issue("br")
      BY <2>1, NotIssued DEF Station
    <3>2. QED
      BY <1>2, <3>1, AluBrEdge
  <2>3. CASE count # 0
    <3>1. ~alu.valid /\ ~alu_cdb.valid
      BY <2>1, <2>3, HeldIs, PlaceNames
    <3>2. ~alu_cdb'.valid
      BY <1>2, <3>1, AluBrEdge
    <3>3. QED
      BY <2>2, <3>2 DEF Drained
  <2>4. CASE count = 0 /\ ~alu.valid /\ ~br.valid
    <3>1. CASE ~alu_cdb.valid \/ fu_grant("alu")
      <4>1. ~alu_cdb'.valid
        BY <1>2, <2>4, <3>1, AluBrEdge
      <4>2. QED
        BY <2>2, <4>1 DEF Drained
    <3>2. CASE alu_cdb.valid /\ ~fu_grant("alu")
      <4>1. fu_grant("br")
        BY <2>4, <3>2, EmptyBus DEF Owned
      <4>2. ~br_cdb'.valid
        BY <1>2, <2>4, <4>1, AluBrEdge
      <4>3. QED
        BY <2>2, <4>2 DEF Drained
    <3>3. QED
      BY <3>1, <3>2
  <2>5. CASE count = 0 /\ (alu.valid \/ br.valid)
    <3>1. iq.count = 0 /\ ~fetch.valid
      BY <2>5 DEF Owned, Drained
    <3>2. iq'.count = 0
      <4>1. iq'.count = iq.count + (IF fetch.valid /\ ~iq_full THEN 1 ELSE 0)
                                 - (IF dispatch THEN 1 ELSE 0)
        BY <1>2, QueueEdgeFacts
      <4>2. QED
        BY <2>1, <3>1, <4>1
    <3>3. QED
      BY <2>2, <3>2 DEF Drained
  <2>6. QED
    BY <2>3, <2>4, <2>5
<1>3. QED
  BY <1>1, <1>2 DEF Drained

LEMMA KindsStep ==
  ASSUME TInv, Owned, Clock
  PROVE  Kinds'
<1>0. RobOK /\ HeldInFlight /\ BranchResolvesInFlight /\ Kinds
  BY BranchInFlight DEF Owned
<1>1. CASE flush
  <2>1. count' = 0 /\ (\A t \in Slot : ~Live(t)') /\ \A s \in Station : busy'[s] = {}
    BY <1>1, FlushClears
  <2>2. QED
    BY <2>1 DEF Kinds
<1>2. CASE ~flush
  <2>1. ASSUME NEW t \in Slot, Live(t)'
        PROVE  entries'[t].is_branch = (entries'[t].op \in BranchOps \cup JumpOps)
    <3>1. CASE dispatch /\ t = tail
      BY <1>0, <1>2, <3>1, SlotEdge
    <3>2. CASE ~(dispatch /\ t = tail)
      <4>1. ~(commit /\ t = head)
        BY <1>0, <1>2, <2>1, SlotEdge
      <4>2. Live(t) /\ entries'[t].op = entries[t].op /\ entries'[t].is_branch = entries[t].is_branch
        BY <1>0, <1>2, <2>1, <3>2, <4>1, SlotEdge
      <4>3. QED
        BY <1>0, <4>2 DEF Kinds
    <3>3. QED
      BY <3>1, <3>2
  (* The entry of a waiting instruction keeps its opcode. *)
  <2>2. ASSUME NEW s \in Station, NEW i \in busy[s], NEW t, t = slots[s][i].rob_tag
        PROVE  t \in Slot /\ Live(t) /\ entries'[t].op = slots[s][i].op
               /\ entries'[t].is_branch = entries[t].is_branch
    <3>1. i \in Slots(s) /\ i \in Nat
      BY Sizes DEF TInv, StationT, Slots
    <3> PICK p : p = <<"station", s, i>>
      OBVIOUS
    <3>2. p \in Place /\ Held(p) /\ TagOf(p) = t /\ ~Leaving(p)
      BY <2>2, <3>1, HeldIs, PlaceNames, LeavingIs
    <3>3. t \in Slot /\ InFlight(t) /\ ~(dispatch /\ t = tail) /\ ~(commit /\ t = head)
      BY <1>2, <3>2, StaysInFlight
    <3>4. entries'[t].op = entries[t].op /\ entries'[t].is_branch = entries[t].is_branch
      BY <1>0, <1>2, <3>3, SlotEdge
    <3>5. QED
      BY <1>0, <2>2, <3>3, <3>4 DEF Kinds, Live, InFlight
  <2>3. ASSUME NEW s \in Station, NEW i \in busy'[s]
        PROVE  entries'[slots'[s][i].rob_tag].op = slots'[s][i].op
    <3>1. i \in Slots(s)
      BY StationStepT DEF StationT
    <3>2. CASE i \in busy[s]
      <4>1. slots'[s][i].rob_tag = slots[s][i].rob_tag /\ slots'[s][i].op = slots[s][i].op
        BY <1>2, <3>2, StationKeeps
      <4>2. QED
        BY <2>2, <3>2, <4>1
    <3>3. CASE i \notin busy[s]
      <4>1. dispatch_to = s /\ slots'[s][i] = entry
        BY <1>2, <2>3, <3>1, <3>3, StationEdge
      <4>2. dispatch
        BY <4>1 DEF dispatch_to, Station
      <4>3. entries'[tail].op = iq_instr.op
        BY <1>0, <1>2, <4>2, SlotEdge DEF TInv, RobT
      <4>4. QED
        BY <4>1, <4>3 DEF entry
    <3>4. QED
      BY <3>2, <3>3
  <2>4. ASSUME br'.valid PROVE entries'[br'.tag].is_branch
    <3> PICK e, i : e = issue_entry_o("br") /\ i = issue_idx("br")
      OBVIOUS
    <3>1. issue("br") /\ br'.tag = e.rob_tag
      BY <1>2, <2>4, AluBrEdge
    <3>2. "br" \in Station /\ i \in busy["br"] /\ e = slots["br"][i] /\ target(e.op) = "br"
          /\ e.op \in Opcode
      BY <3>1, IssueTyped DEF Station, issue_entry_o, RsEntry
    <3>3. e.op \in BranchOps \cup JumpOps
      BY <3>2, TargetFacts
    <3>4. e.rob_tag \in Slot /\ Live(e.rob_tag) /\ entries'[e.rob_tag].op = e.op
          /\ entries'[e.rob_tag].is_branch = entries[e.rob_tag].is_branch
      BY <2>2, <3>2
    <3>5. entries[e.rob_tag].op = e.op
      BY <1>0, <3>2 DEF Kinds
    <3>6. entries[e.rob_tag].is_branch
      BY <1>0, <3>3, <3>4, <3>5 DEF Kinds
    <3>7. QED
      BY <3>1, <3>4, <3>6
  <2>5. QED
    BY <2>1, <2>3, <2>4 DEF Kinds
<1>3. QED
  BY <1>1, <1>2

-----------------------------------------------------------------------------
(* What holds without the hypothesis on tags. *)
Base == TInv /\ LsbShape /\ LsbKind /\ IqLine /\ LatchInv

LEMMA Unchanged ==
  ASSUME UNCHANGED vars
  PROVE  /\ UNCHANGED <<imem, fetch, instr_raw, iq, rat, regs, last_grant, busy, slots>>
         /\ UNCHANGED <<alu, alu_cdb, br, br_d, br_cdb, pipe, div>>
         /\ UNCHANGED <<lsb, load, dmem, mem_rd_data>>
         /\ UNCHANGED <<entries, head, tail, count, rob_head_reg, halted>>
  BY DEF vars, fetchVars, renameVars, stationVars, unitVars, lsbVars, ROB!robVars

LEMMA BaseInit == Init => Base
<1>1. Init => LsbKind
  BY DEF Init, LsbInit, EmptyLsb, LsbKind
<1>2. Init => LatchInv
  BY DEF Init, UnitInit, ZeroBus, ZeroBr, LatchInv
<1>3. QED
  BY <1>1, <1>2, InitT, InitLines DEF Base

LEMMA BaseStep ==
  ASSUME Base, [Clock]_vars
  PROVE  Base'
<1>1. TInv'
  BY StepT DEF Base
<1>2. CASE Clock
  BY <1>1, <1>2, LsbShapeStep, LsbKindStep, IqLineStep, LatchStep DEF Base
<1>3. CASE UNCHANGED vars
  <2>1. LsbShape'
    BY <1>3, Unchanged DEF Base, LsbShape, LsbPos
  <2>2. LsbKind' /\ LatchInv'
    BY <1>3, Unchanged DEF Base, LsbKind, LatchInv
  <2>3. IqLine'
    BY <1>3, Unchanged DEF Base, IqLine, IqPos
  <2>4. QED
    BY <1>1, <2>1, <2>2, <2>3 DEF Base
<1>4. QED
  BY <1>2, <1>3

(* Before the first edge nothing is held. *)
LEMMA OwnedInit ==
  ASSUME Init
  PROVE  Owned
<1>1. /\ \A s \in Station : busy[s] = {}
      /\ \A u \in Pipe : \A k \in 1 .. PipeDepth[u] : ~pipe[u][k].valid
      /\ lsb.valid = {} /\ ~load.pending /\ div.state = "IDLE"
      /\ ~alu.valid /\ ~alu_cdb.valid /\ ~br.valid /\ ~br_cdb.valid
      /\ count = 0 /\ head = 0 /\ tail = 0 /\ rob_head_reg = 0
  BY DEF Init, StationInit, UnitInit, LsbInit, EmptyLsb, NoLoad, ZeroPipe, ZeroBus, ZeroBr, ZeroDiv,
         ROB!RobInit
<1>2. \A p \in Place : ~Held(p)
  BY <1>1, HeldCases
<1>3. \A t \in Slot : ~Live(t) /\ ~InFlight(t)
  <2>1. \A t \in Slot : entries[t].state = "IDLE"
    BY RobNames DEF Init, ROB!RobInit, ZeroRobEntry
  <2>2. QED
    BY <2>1 DEF Live, InFlight
<1>4. RobOK
  <2>1. ROB_SIZE \in Nat \ {0} /\ RingEnd(ROB_SIZE, 0, 0) = 0 /\ 0 \in 0 .. ROB_SIZE - 1
    BY Sizes DEF RingEnd
  <2>2. \A t \in Slot : RingPos(ROB_SIZE, 0, t) \in 0 .. ROB_SIZE - 1
    BY <2>1, RingRange DEF Slot
  <2>3. \A t \in Slot : ~(RingPos(ROB_SIZE, 0, t) < 0)
    BY <2>1, <2>2
  <2>4. QED
    BY <1>1, <1>3, <2>1, <2>3 DEF RobOK
<1>5. HeldInFlight /\ OnePlace /\ SomePlace
  BY <1>2, <1>3 DEF HeldInFlight, OnePlace, SomePlace
<1>6. LateBranch /\ Drained /\ Kinds
  BY <1>1, <1>3 DEF LateBranch, Drained, Kinds
<1>7. QED
  BY <1>4, <1>5, <1>6 DEF Owned

LEMMA OwnedStep ==
  ASSUME Base, Owned, NoTagReuse, [Clock]_vars
  PROVE  Owned'
<1>1. CASE Clock
  <2>1. TInv /\ LsbShape /\ LsbKind /\ LatchInv /\ RobOK /\ BranchResolvesInFlight
    BY BranchInFlight DEF Base, Owned
  <2>2. RobOK'
    BY <1>1, <2>1, RobOKStep
  <2>3. HeldInFlight' /\ OnePlace' /\ SomePlace'
    BY <1>1, <2>1, HeldInFlightStep, OnePlaceStep, SomePlaceStep
  <2>4. LateBranch' /\ Drained' /\ Kinds'
    BY <1>1, <2>1, LateBranchStep, DrainedStep, KindsStep
  <2>5. QED
    BY <2>2, <2>3, <2>4 DEF Owned
<1>2. CASE UNCHANGED vars
  <2>1. ASSUME NEW p PROVE (Held(p)' <=> Held(p)) /\ TagOf(p)' = TagOf(p)
    BY <1>2, Unchanged DEF Held, TagOf, AluPlace, LatchPlace, BrPlace, DivPlace, LoadPlace
  <2>2. ASSUME NEW t PROVE (InFlight(t)' <=> InFlight(t)) /\ (Live(t)' <=> Live(t))
    BY <1>2, Unchanged DEF InFlight, Live
  <2>3. RobOK'
    BY <1>2, <2>2, Unchanged DEF Owned, RobOK
  <2>4. HeldInFlight'
    <3> SUFFICES ASSUME NEW p \in Place, Held(p)', NEW t, t = TagOf(p)' PROVE InFlight(t)'
      BY DEF HeldInFlight, InFlight, Place
    <3>1. QED
      BY <2>1, <2>2 DEF Owned, HeldInFlight
  <2>5. OnePlace'
    <3> SUFFICES ASSUME NEW p \in Place, NEW q \in Place, Held(p)', Held(q)',
                        TagOf(p)' = TagOf(q)'
                 PROVE  p = q
      BY DEF OnePlace, Place
    <3>1. QED
      BY <2>1 DEF Owned, OnePlace
  <2>6. SomePlace'
    <3> SUFFICES ASSUME NEW t \in Slot, InFlight(t)' PROVE \E p \in Place : Held(p)' /\ TagOf(p)' = t
      BY DEF SomePlace, Place
    <3>1. PICK p \in Place : Held(p) /\ TagOf(p) = t
      BY <2>2 DEF Owned, SomePlace
    <3>2. QED
      BY <2>1, <3>1
  <2>7. LateBranch' /\ Drained' /\ Kinds'
    <3>1. LateBranch'
      BY <1>2, Unchanged DEF Owned, LateBranch, InFlight
    <3>2. Drained'
      BY <1>2, Unchanged DEF Owned, Drained
    <3>3. Kinds'
      BY <1>2, Unchanged DEF Owned, Kinds, Live
    <3>4. QED
      BY <3>1, <3>2, <3>3
  <2>8. QED
    BY <2>3, <2>4, <2>5, <2>6, <2>7 DEF Owned
<1>3. QED
  BY <1>1, <1>2

(* The shape that holds whatever the tags: the types of all registers, the *)
(* load/store buffer and the instruction queue as queues, latches that are *)
(* never overwritten (load_store_buffer.sv, instr_queue.sv,                *)
(* tomasulo_core.sv alu_fu_ready and br_fu_ready).                         *)
THEOREM QueuesAndLatches == Spec => []Base
  BY BaseInit, BaseStep, PTL DEF Spec

LEMMA Ownership == Spec /\ []NoTagReuse => [](Base /\ Owned)
<1>1. Init => Base /\ Owned
  BY BaseInit, OwnedInit
<1>2. Base /\ Owned /\ NoTagReuse /\ [Clock]_vars => (Base /\ Owned)'
  BY BaseStep, OwnedStep
<1>3. QED
  BY <1>1, <1>2, PTL DEF Spec

(* As long as no slot is dispatched to while the result of the branch it   *)
(* held before still waits for the bus, the reorder buffer keeps its       *)
(* window through every dispatch, retirement and flush of the machine, and *)
(* rob_head_reg is its head (rob.sv, tomasulo_core.sv).                    *)
THEOREM WindowInTheMachine == Spec /\ []NoTagReuse => []RobWindow
<1>1. Base /\ Owned => RobWindow
  BY RobOKMeans DEF Owned
<1>2. QED
  BY <1>1, Ownership, PTL

(* Under the same hypothesis a branch outcome always finds its branch in   *)
(* flight, the outcomes that the branch unit carries over a flush included *)
(* (rob.sv branch port, branch_unit.sv).                                   *)
THEOREM OutcomesFindTheirBranch == Spec /\ []NoTagReuse => []BranchResolvesInFlight
<1>1. Base /\ Owned => BranchResolvesInFlight
  BY BranchInFlight DEF Base
<1>2. QED
  BY <1>1, Ownership, PTL

-----------------------------------------------------------------------------
(* One owner: the holders of a tag are the held places that carry it.      *)

Name(p) ==
  CASE p[1] \in {"station", "stage"} -> p
    [] p[1] = "lsb"                  -> <<"lsb", p[3]>>
    [] OTHER                         -> <<p[1]>>

LEMMA NameIs ==
  /\ \A s, i : Name(<<"station", s, i>>) = <<"station", s, i>>
  /\ \A s, i : Name(<<"stage", s, i>>) = <<"stage", s, i>>
  /\ \A i : Name(<<"lsb", "lsb", i>>) = <<"lsb", i>>
  /\ Name(AluPlace) = <<"alu">> /\ Name(LatchPlace) = <<"alu_cdb">> /\ Name(BrPlace) = <<"br">>
  /\ Name(DivPlace) = <<"div">> /\ Name(LoadPlace) = <<"load">>
<1>1. \A s, i : Name(<<"station", s, i>>) = <<"station", s, i>>
  BY DEF Name
<1>2. \A s, i : Name(<<"stage", s, i>>) = <<"stage", s, i>>
  BY DEF Name
<1>3. \A i : Name(<<"lsb", "lsb", i>>) = <<"lsb", i>>
  BY DEF Name
<1>4. /\ Name(AluPlace) = <<"alu">> /\ Name(LatchPlace) = <<"alu_cdb">> /\ Name(BrPlace) = <<"br">>
      /\ Name(DivPlace) = <<"div">> /\ Name(LoadPlace) = <<"load">>
  BY DEF Name, AluPlace, LatchPlace, BrPlace, DivPlace, LoadPlace
<1>5. QED
  BY <1>1, <1>2, <1>3, <1>4

LEMMA HoldersAre ==
  ASSUME NEW t, NEW h
  PROVE  h \in Holders(t) <=>
           \/ \E s \in Station : \E i \in busy[s] : slots[s][i].rob_tag = t /\ h = <<"station", s, i>>
           \/ \E u \in Pipe : \E k \in 1 .. PipeDepth[u] :
                pipe[u][k].valid /\ pipe[u][k].tag = t /\ h = <<"stage", u, k>>
           \/ \E i \in lsb.valid \ lsb.notified : lsb.entries[i].rob_tag = t /\ h = <<"lsb", i>>
           \/ alu.valid /\ alu.tag = t /\ h = <<"alu">>
           \/ alu_cdb.valid /\ alu_cdb.tag = t /\ h = <<"alu_cdb">>
           \/ br.valid /\ br.tag = t /\ h = <<"br">>
           \/ br_cdb.valid /\ br_cdb.tag = t /\ h = <<"br_cdb">>
           \/ div.state # "IDLE" /\ div.tag = t /\ h = <<"div">>
           \/ load.pending /\ load.tag = t /\ h = <<"load">>
<1> DEFINE A == UNION {{<<"station", s, i>> : i \in {j \in busy[s] : slots[s][j].rob_tag = t}}
                         : s \in Station}
           B == UNION {{<<"stage", u, k>> :
                          k \in {j \in 1 .. PipeDepth[u] :
                                   pipe[u][j].valid /\ pipe[u][j].tag = t}} : u \in Pipe}
           C == {<<"lsb", i>> : i \in {j \in lsb.valid \ lsb.notified :
                                        lsb.entries[j].rob_tag = t}}
           W1 == Where(alu.valid /\ alu.tag = t, <<"alu">>)
           W2 == Where(alu_cdb.valid /\ alu_cdb.tag = t, <<"alu_cdb">>)
           W3 == Where(br.valid /\ br.tag = t, <<"br">>)
           W4 == Where(br_cdb.valid /\ br_cdb.tag = t, <<"br_cdb">>)
           W5 == Where(div.state # "IDLE" /\ div.tag = t, <<"div">>)
           W6 == Where(load.pending /\ load.tag = t, <<"load">>)
<1>1. \A c, x : h \in Where(c, x) <=> c /\ h = x
  BY DEF Where
<1>2. h \in A <=>
        \E s \in Station : \E i \in busy[s] : slots[s][i].rob_tag = t /\ h = <<"station", s, i>>
  OBVIOUS
<1>3. h \in B <=> \E u \in Pipe : \E k \in 1 .. PipeDepth[u] :
                    pipe[u][k].valid /\ pipe[u][k].tag = t /\ h = <<"stage", u, k>>
  OBVIOUS
<1>4. h \in C <=>
        \E i \in lsb.valid \ lsb.notified : lsb.entries[i].rob_tag = t /\ h = <<"lsb", i>>
  OBVIOUS
<1>5. /\ h \in W1 <=> alu.valid /\ alu.tag = t /\ h = <<"alu">>
      /\ h \in W2 <=> alu_cdb.valid /\ alu_cdb.tag = t /\ h = <<"alu_cdb">>
      /\ h \in W3 <=> br.valid /\ br.tag = t /\ h = <<"br">>
      /\ h \in W4 <=> br_cdb.valid /\ br_cdb.tag = t /\ h = <<"br_cdb">>
      /\ h \in W5 <=> div.state # "IDLE" /\ div.tag = t /\ h = <<"div">>
      /\ h \in W6 <=> load.pending /\ load.tag = t /\ h = <<"load">>
  BY <1>1
<1>6. Holders(t) = A \cup B \cup C \cup W1 \cup W2 \cup W3 \cup W4 \cup W5 \cup W6
  BY DEF Holders
<1> HIDE DEF A, B, C, W1, W2, W3, W4, W5, W6
<1>7. QED
  BY <1>2, <1>3, <1>4, <1>5, <1>6

LEMMA HolderHeld ==
  ASSUME TInv, Owned, NEW t \in Slot, InFlight(t), NEW h \in Holders(t)
  PROVE  \E p \in Place : Held(p) /\ TagOf(p) = t /\ h = Name(p)
<1>0. count # 0 /\ ~(br_cdb.valid /\ br_cdb.tag = t)
  BY NothingHeld DEF Owned, LateBranch
<1>1. CASE \E s \in Station : \E i \in busy[s] :
             slots[s][i].rob_tag = t /\ h = <<"station", s, i>>
  <2>0. PICK s \in Station : \E i \in busy[s] : slots[s][i].rob_tag = t /\ h = <<"station", s, i>>
    BY <1>1
  <2>1. PICK i \in busy[s] : slots[s][i].rob_tag = t /\ h = <<"station", s, i>>
    BY <2>0
  <2>2. i \in Nat
    BY Sizes DEF TInv, StationT, Slots
  <2> PICK p : p = <<"station", s, i>>
    OBVIOUS
  <2>3. p \in Place /\ Held(p) /\ TagOf(p) = t /\ h = Name(p)
    BY <2>1, <2>2, HeldIs, PlaceNames, NameIs
  <2>4. QED
    BY <2>3
<1>2. CASE \E u \in Pipe : \E k \in 1 .. PipeDepth[u] :
             pipe[u][k].valid /\ pipe[u][k].tag = t /\ h = <<"stage", u, k>>
  <2>1. PICK u \in Pipe : \E k \in 1 .. PipeDepth[u] :
             pipe[u][k].valid /\ pipe[u][k].tag = t /\ h = <<"stage", u, k>>
    BY <1>2
  <2>2. PICK k \in 1 .. PipeDepth[u] :
             pipe[u][k].valid /\ pipe[u][k].tag = t /\ h = <<"stage", u, k>>
    BY <2>1
  <2>3. k \in Nat
    BY Sizes
  <2> PICK p : p = <<"stage", u, k>>
    OBVIOUS
  <2>4. p \in Place /\ Held(p) /\ TagOf(p) = t /\ h = Name(p)
    BY <2>2, <2>3, HeldIs, PlaceNames, NameIs
  <2>5. QED
    BY <2>4
<1>3. CASE \E i \in lsb.valid \ lsb.notified : lsb.entries[i].rob_tag = t /\ h = <<"lsb", i>>
  <2>1. PICK i \in lsb.valid \ lsb.notified : lsb.entries[i].rob_tag = t /\ h = <<"lsb", i>>
    BY <1>3
  <2>2. i \in Nat
    BY Sizes DEF TInv, LsbT, LsbSlot
  <2> PICK p : p = <<"lsb", "lsb", i>>
    OBVIOUS
  <2>3. p \in Place /\ Held(p) /\ TagOf(p) = t /\ h = Name(p)
    BY <2>1, <2>2, HeldIs, PlaceNames, NameIs
  <2>4. QED
    BY <2>3
<1>4. CASE alu.valid /\ alu.tag = t /\ h = <<"alu">>
  BY <1>0, <1>4, HeldIs, PlaceNames, NameIs
<1>5. CASE alu_cdb.valid /\ alu_cdb.tag = t /\ h = <<"alu_cdb">>
  BY <1>0, <1>5, HeldIs, PlaceNames, NameIs
<1>6. CASE br.valid /\ br.tag = t /\ h = <<"br">>
  BY <1>0, <1>6, HeldIs, PlaceNames, NameIs
<1>7. CASE div.state # "IDLE" /\ div.tag = t /\ h = <<"div">>
  BY <1>7, HeldIs, PlaceNames, NameIs
<1>8. CASE load.pending /\ load.tag = t /\ h = <<"load">>
  BY <1>8, HeldIs, PlaceNames, NameIs
<1>9. QED
  BY <1>0, <1>1, <1>2, <1>3, <1>4, <1>5, <1>6, <1>7, <1>8, HoldersAre

LEMMA HeldHolds ==
  ASSUME TInv, NEW t, NEW p \in Place, Held(p), TagOf(p) = t
  PROVE  Name(p) \in Holders(t)
<1> PICK h : h = Name(p)
  OBVIOUS
<1>1. CASE \E s \in Station : \E i \in busy[s] : p = <<"station", s, i>>
  <2>1. PICK s \in Station : \E i \in busy[s] : p = <<"station", s, i>>
    BY <1>1
  <2>2. PICK i \in busy[s] : p = <<"station", s, i>>
    BY <2>1
  <2>3. i \in Nat
    BY Sizes DEF TInv, StationT, Slots
  <2>4. h = <<"station", s, i>> /\ slots[s][i].rob_tag = t
    BY <2>2, <2>3, HeldIs, NameIs
  <2>5. QED
    BY <2>4, HoldersAre
<1>2. CASE \E u \in Pipe : \E k \in 1 .. PipeDepth[u] : pipe[u][k].valid /\ p = <<"stage", u, k>>
  <2>1. PICK u \in Pipe : \E k \in 1 .. PipeDepth[u] : pipe[u][k].valid /\ p = <<"stage", u, k>>
    BY <1>2
  <2>2. PICK k \in 1 .. PipeDepth[u] : pipe[u][k].valid /\ p = <<"stage", u, k>>
    BY <2>1
  <2>3. k \in Nat
    BY Sizes
  <2>4. h = <<"stage", u, k>> /\ pipe[u][k].tag = t
    BY <2>2, <2>3, HeldIs, NameIs
  <2>5. QED
    BY <2>2, <2>4, HoldersAre
<1>3. CASE \E i \in lsb.valid \ lsb.notified : p = <<"lsb", "lsb", i>>
  <2>1. PICK i \in lsb.valid \ lsb.notified : p = <<"lsb", "lsb", i>>
    BY <1>3
  <2>2. i \in Nat
    BY Sizes DEF TInv, LsbT, LsbSlot
  <2>3. h = <<"lsb", i>> /\ lsb.entries[i].rob_tag = t
    BY <2>1, <2>2, HeldIs, NameIs
  <2>4. QED
    BY <2>3, HoldersAre
<1>4. CASE p = AluPlace /\ alu.valid
  BY <1>4, HeldIs, NameIs, HoldersAre
<1>5. CASE p = LatchPlace /\ alu_cdb.valid
  BY <1>5, HeldIs, NameIs, HoldersAre
<1>6. CASE p = BrPlace /\ br.valid
  BY <1>6, HeldIs, NameIs, HoldersAre
<1>7. CASE p = DivPlace /\ div.state # "IDLE"
  BY <1>7, HeldIs, NameIs, HoldersAre
<1>8. CASE p = LoadPlace /\ load.pending
  BY <1>8, HeldIs, NameIs, HoldersAre
<1>9. QED
  BY <1>1, <1>2, <1>3, <1>4, <1>5, <1>6, <1>7, <1>8, HeldCases

LEMMA OwnedMeans ==
  ASSUME TInv, Owned
  PROVE  OneOwner
<1> SUFFICES ASSUME NEW t \in Slot, InFlight(t) PROVE Cardinality(Holders(t)) = 1
  BY DEF OneOwner
<1>1. PICK p \in Place : Held(p) /\ TagOf(p) = t
  BY DEF Owned, SomePlace
<1>2. Name(p) \in Holders(t)
  BY <1>1, HeldHolds
<1>3. \A h \in Holders(t) : h = Name(p)
  BY <1>1, HolderHeld DEF Owned, OnePlace
<1>4. Holders(t) = {Name(p)}
  BY <1>2, <1>3
<1>5. QED
  BY <1>4, FS_Singleton

(* As long as no slot is dispatched to while the result of the branch it   *)
(* held before still waits for the bus, every instruction in flight is in  *)
(* exactly one station slot, pipeline stage, buffer slot or result         *)
(* register, through stalls, full latches and flushes (tomasulo_core.sv,   *)
(* reservation_station.sv, load_store_buffer.sv, the units).               *)
THEOREM InstructionsHaveOneOwner == Spec /\ []NoTagReuse => []OneOwner
<1>1. Base /\ Owned => OneOwner
  BY OwnedMeans DEF Base
<1>2. QED
  BY <1>1, Ownership, PTL

LEMMA TypesMean ==
  ASSUME TInv, RobOK
  PROVE  TypeOK
<1>0. Tag = Slot
  BY Sizes
<1>1. \A e \in RsEntry : IsEntry(e)
  BY <1>0 DEF RsEntry, Operands, IsEntry, Source
<1>2. \A i \in Fu : IsBus(fu_results(i))
  BY <1>0, ResultsTyped DEF Bus, IsBus
<1>3. /\ fetch \in [pc : Word, pc_d : Word, valid : BOOLEAN]
      /\ iq.count \in 0 .. IQ_DEPTH
      /\ iq.head \in 0 .. IQ_DEPTH - 1 /\ iq.tail \in 0 .. IQ_DEPTH - 1
  BY DEF TInv, FetchT
<1>4. head \in Slot /\ tail \in Slot /\ count \in 0 .. ROB_SIZE
  BY DEF TInv, RobT, RobOK
<1>5. \A t \in Slot :
       /\ entries[t].state \in {"IDLE", "IN_FLIGHT", "DONE"}
       /\ entries[t].rd \in Reg /\ entries[t].rd_valid \in BOOLEAN
       /\ {entries[t].result, entries[t].pc, entries[t].branch_target} \subseteq Word
  BY DEF TInv, RobT, RobEntry
<1>6. /\ rat \in [Reg -> [valid : BOOLEAN, tag : Tag]]
      /\ regs \in [Reg -> Word] /\ dmem \in [0 .. MEM_SIZE - 1 -> Word]
      /\ last_grant \in Fu /\ halted \in BOOLEAN
  BY <1>0 DEF TInv, RenameT, MemT, BusT, Address
<1>7. \A s \in Station : busy[s] \subseteq Slots(s) /\ \A i \in Slots(s) : IsEntry(slots[s][i])
  BY <1>1 DEF TInv, StationT
<1>8. \A i \in DOMAIN lsb.entries : IsEntry(lsb.entries[i])
  BY <1>1 DEF TInv, LsbT
<1>9. QED
  BY <1>2, <1>3, <1>4, <1>5, <1>6, <1>7, <1>8 DEF TypeOK

(* Under the same hypothesis every register of the pipeline has its type,  *)
(* and the reorder buffer never counts below 0 or above its size           *)
(* (tomasulo_core.sv, rob.sv).                                             *)
THEOREM RegistersHaveTheirTypes == Spec /\ []NoTagReuse => []TypeOK
<1>1. Base /\ Owned => TypeOK
  BY TypesMean DEF Base, Owned
<1>2. QED
  BY <1>1, Ownership, PTL

-----------------------------------------------------------------------------
(* Program order.  An edge keeps the order of the instructions that stay,  *)
(* and the dispatched one is the youngest.                                 *)

LEMMA OlderIs ==
  ASSUME NEW t, NEW u
  PROVE  /\ Older(t, u) <=> RingPos(ROB_SIZE, head, t) < RingPos(ROB_SIZE, head, u)
         /\ Older(t, u)' <=> RingPos(ROB_SIZE, head', t) < RingPos(ROB_SIZE, head', u)
  BY DEF Older, ROB!Age, RingPos

LEMMA HeadOldest ==
  ASSUME TInv, RobOK, NEW t \in Slot, t # head
  PROVE  Older(head, t)
<1>1. head \in 0 .. ROB_SIZE - 1 /\ ROB_SIZE \in Nat \ {0} /\ t \in 0 .. ROB_SIZE - 1
  BY Sizes DEF TInv, RobT, Slot
<1>2. RingPos(ROB_SIZE, head, head) = 0
  BY <1>1, RingRange
<1>3. RingPos(ROB_SIZE, head, t) \in 0 .. ROB_SIZE - 1 /\ RingPos(ROB_SIZE, head, t) # 0
  BY <1>1, RingRange
<1>4. QED
  BY <1>1, <1>2, <1>3, OlderIs

LEMMA OrderTotal ==
  ASSUME TInv, NEW t \in Slot, NEW u \in Slot
  PROVE  /\ ~Older(t, t) /\ (Older(t, u) => ~Older(u, t))
         /\ t # u => Older(t, u) \/ Older(u, t)
<1>1. head \in 0 .. ROB_SIZE - 1 /\ ROB_SIZE \in Nat \ {0} /\ t \in 0 .. ROB_SIZE - 1
      /\ u \in 0 .. ROB_SIZE - 1
  BY Sizes DEF TInv, RobT, Slot
<1> PICK a, b : a = RingPos(ROB_SIZE, head, t) /\ b = RingPos(ROB_SIZE, head, u)
  OBVIOUS
<1>2. a \in Int /\ b \in Int
  BY <1>1, RingRange
<1>3. RingPos(ROB_SIZE, head, t) = RingPos(ROB_SIZE, head, u) <=> t = u
  BY ONLY <1>1, RingSame
<1>4. QED
  BY <1>2, <1>3, OlderIs

LEMMA OrderTotalNext ==
  ASSUME TInv, Clock, NEW t \in Slot, NEW u \in Slot
  PROVE  ~Older(t, t)' /\ (Older(t, u)' => ~Older(u, t)')
<1>1. head' \in 0 .. ROB_SIZE - 1 /\ ROB_SIZE \in Nat \ {0} /\ t \in 0 .. ROB_SIZE - 1
      /\ u \in 0 .. ROB_SIZE - 1
  BY Sizes, RobStepT DEF RobT, Slot
<1> PICK h, a, b : h = head' /\ a = RingPos(ROB_SIZE, h, t) /\ b = RingPos(ROB_SIZE, h, u)
  OBVIOUS
<1>2. a \in Int /\ b \in Int
  BY <1>1, RingRange
<1>4. QED
  BY <1>2, OlderIs

LEMMA OrderEdge ==
  ASSUME TInv, RobOK, Clock, ~flush, NEW t \in Slot, Live(t), ~(commit /\ t = head)
  PROVE  /\ \A u \in Slot : Live(u) /\ ~(commit /\ u = head) => (Older(t, u)' <=> Older(t, u))
         /\ dispatch => \A u \in Slot : u = tail => Older(t, u)'
<1> PICK c, h2 : c = (IF commit THEN 1 ELSE 0) /\ h2 = head'
  OBVIOUS
<1>1. c \in Int
  OBVIOUS
<1>2. \A u \in Slot : RingPos(ROB_SIZE, head, u) \in Int
  BY RingRange, Sizes DEF TInv, RobT, Slot
<1>3. \A u \in Slot : Live(u) /\ ~(commit /\ u = head) =>
        RingPos(ROB_SIZE, h2, u) = RingPos(ROB_SIZE, head, u) - c
  BY AgeEdge
<1>4. dispatch => \A u \in Slot : u = tail => RingPos(ROB_SIZE, h2, u) = count - c
  BY AgeEdge
<1>5. RingPos(ROB_SIZE, head, t) < count /\ count \in Int
  BY DEF RobOK, TInv, RobT
<1>6. \A u \in Slot : Live(u) /\ ~(commit /\ u = head) => (Older(t, u)' <=> Older(t, u))
  BY <1>1, <1>2, <1>3, OlderIs
<1>7. dispatch => \A u \in Slot : u = tail => Older(t, u)'
  BY <1>1, <1>2, <1>3, <1>4, <1>5, OlderIs
<1>8. QED
  BY <1>6, <1>7

-----------------------------------------------------------------------------
(* Renaming.                                                               *)

LEMMA WritersEdge ==
  ASSUME TInv, RobOK, BranchResolvesInFlight, Clock, ~flush, NEW r \in Reg, NEW t \in Slot
  PROVE  t \in Writers(r)' <=>
           \/ dispatch /\ t = tail /\ iq_instr.rd_valid /\ iq_instr.rd = r
           \/ t \in Writers(r) /\ ~(commit /\ t = head)
<1>1. /\ t \in Writers(r) <=> Live(t) /\ entries[t].rd_valid /\ entries[t].rd = r
      /\ t \in Writers(r)' <=> Live(t)' /\ entries'[t].rd_valid /\ entries'[t].rd = r
  BY DEF Writers
<1>2. CASE dispatch /\ t = tail
  <2>1. ~Live(t)
    BY <1>2, RobPorts
  <2>2. QED
    BY <1>1, <1>2, <2>1, SlotEdge
<1>3. CASE ~(dispatch /\ t = tail) /\ commit /\ t = head
  BY <1>1, <1>3, SlotEdge
<1>4. CASE ~(dispatch /\ t = tail) /\ ~(commit /\ t = head)
  BY <1>1, <1>4, SlotEdge
<1>5. QED
  BY <1>2, <1>3, <1>4

(* x0 is never mapped, and the table names the youngest writer. *)
Renamed == ~rat[X0].valid /\ RatNamesYoungestWriter

LEMMA RenamedStep ==
  ASSUME TInv, RobOK, BranchResolvesInFlight, Renamed, Clock
  PROVE  Renamed'
<1>0. X0 \in Reg /\ \A r \in Reg : rat'[r] = IF flush THEN Unmapped ELSE NextMapping(r, map, wr)
  BY ZeroTyped DEF Clock, RatClock
<1>1. ~rat'[X0].valid
  BY <1>0 DEF NextMapping, Unmapped, Renamed
<1>2. ASSUME NEW r \in Reg \ {X0}
      PROVE  \E W2, m2 :
               /\ W2 = Writers(r)' /\ m2 = rat'[r]
               /\ m2.valid <=> W2 # {}
               /\ m2.valid => m2.tag \in W2
               /\ m2.valid => \A k, t : k = m2.tag /\ t \in W2 => ~Older(k, t)'
  <2> PICK W, W2, m, m2 : W = Writers(r) /\ W2 = Writers(r)' /\ m = rat[r] /\ m2 = rat'[r]
    OBVIOUS
  <2> SUFFICES /\ m2.valid <=> W2 # {}
               /\ m2.valid => m2.tag \in W2
               /\ m2.valid => \A k, t : k = m2.tag /\ t \in W2 => ~Older(k, t)'
    OBVIOUS
  <2>1. W \subseteq Slot /\ W2 \subseteq Slot
    BY DEF Writers
  <2>2. /\ m.valid <=> W # {}
        /\ m.valid => m.tag \in W /\ \A t \in W : ~Older(m.tag, t)
    BY DEF Renamed, RatNamesYoungestWriter
  <2>3. \A t \in W : Live(t)
    BY DEF Writers
  <2>4. CASE flush
    <3>1. ~m2.valid
      BY <1>0, <2>4 DEF Unmapped
    <3>2. W2 = {}
      BY <2>4, FlushClears DEF Writers
    <3>3. QED
      BY <3>1, <3>2
  <2>5. CASE ~flush /\ dispatch /\ iq_instr.rd_valid /\ iq_instr.rd = r
    <3> PICK d : d = tail
      OBVIOUS
    <3>1. m2.valid /\ m2.tag = d
      <4>1. map.en /\ map.reg = r /\ map.tag = d
        BY <2>5 DEF map
      <4>2. m2 = NextMapping(r, map, wr)
        BY <1>0, <2>5
      <4>3. QED
        BY <4>1, <4>2 DEF NextMapping
    <3>2. d \in Slot
      BY DEF TInv, RobT
    <3>3. d \in W2 /\ \A t \in W2 : t = d \/ (t \in W /\ ~(commit /\ t = head))
      BY <2>1, <2>5, <3>2, WritersEdge
    <3>4. ASSUME NEW t \in W2 PROVE ~Older(d, t)'
      <4>1. CASE t = d
        BY <3>2, <4>1, OrderTotalNext
      <4>2. CASE t \in W /\ ~(commit /\ t = head)
        <5>1. Older(t, d)'
          BY <2>1, <2>3, <2>5, <3>2, <4>2, OrderEdge
        <5>2. QED
          BY <2>1, <3>2, <5>1, OrderTotalNext
      <4>3. QED
        BY <3>3, <4>1, <4>2
    <3>5. QED
      BY <3>1, <3>3, <3>4
  <2>6. CASE ~flush /\ ~(dispatch /\ iq_instr.rd_valid /\ iq_instr.rd = r)
    <3>1. \A t \in Slot : t \in W2 <=> t \in W /\ ~(commit /\ t = head)
      BY <2>6, WritersEdge
    <3>2. m2 = IF wr.en /\ wr.reg = r /\ m.valid /\ m.tag = head THEN Unmapped ELSE m
      <4>1. wr.tag = head
        BY DEF wr, RobOK
      <4>2. ~(map.en /\ map.reg = r)
        BY <2>6 DEF map
      <4>3. m2 = NextMapping(r, map, wr)
        BY <1>0, <2>6
      <4>4. QED
        BY <4>1, <4>2, <4>3 DEF NextMapping
    <3>3. commit /\ head \in W => wr.en /\ wr.reg = r
      BY DEF wr, retiring, ROB!commit_entry_o, Writers
    <3>4. wr.en /\ wr.reg = r => commit /\ head \in W
      <4>1. wr.en /\ wr.reg = r => commit /\ entries[head].rd_valid /\ entries[head].rd = r
        BY DEF wr, retiring, ROB!commit_entry_o
      <4>2. commit => Live(head) /\ head \in Slot
        BY RobPorts DEF TInv, RobT
      <4>3. QED
        BY <4>1, <4>2 DEF Writers
    <3>5. CASE wr.en /\ wr.reg = r /\ m.valid /\ m.tag = head
      <4>1. \A t \in W : t = head
        BY <2>1, <2>2, <3>5, HeadOldest
      <4>2. W2 = {}
        BY <2>1, <3>1, <3>4, <3>5, <4>1
      <4>3. ~m2.valid
        BY <3>2, <3>5 DEF Unmapped
      <4>4. QED
        BY <4>2, <4>3
    <3>6. CASE ~(wr.en /\ wr.reg = r /\ m.valid /\ m.tag = head)
      <4>1. m2 = m
        BY <3>2, <3>6
      <4>2. m.valid => m.tag \in W2
        BY <2>1, <2>2, <3>1, <3>3, <3>6
      <4>3. W2 \subseteq W
        BY <2>1, <3>1
      <4>4. ASSUME m.valid, NEW t \in W2, NEW k, k = m.tag PROVE ~Older(k, t)'
        <5>1. /\ k \in W2 /\ k \in W /\ t \in W /\ k \in Slot /\ t \in Slot /\ Live(k) /\ Live(t)
              /\ ~(commit /\ k = head) /\ ~(commit /\ t = head) /\ ~Older(k, t)
          BY <2>1, <2>2, <2>3, <3>1, <4>2, <4>3, <4>4
        <5>2. QED
          BY <2>6, <5>1, OrderEdge
      <4>5. QED
        BY <2>2, <4>1, <4>2, <4>3, <4>4
    <3>7. QED
      BY <3>5, <3>6
  <2>7. QED
    BY <2>4, <2>5, <2>6
<1>3. QED
  BY <1>1, <1>2 DEF Renamed, RatNamesYoungestWriter

LEMMA RenamedInit ==
  ASSUME Init
  PROVE  Renamed
<1>1. \A r \in Reg : ~rat[r].valid
  BY DEF Init, RenameInit, Unmapped
<1>2. \A t \in Slot : ~Live(t)
  BY RobNames DEF Init, ROB!RobInit, ZeroRobEntry, Live
<1>3. \A r : Writers(r) = {}
  BY <1>2 DEF Writers
<1>4. QED
  BY <1>1, <1>3, ZeroTyped DEF Renamed, RatNamesYoungestWriter

LEMMA RenamedStutter ==
  ASSUME Renamed, UNCHANGED vars
  PROVE  Renamed'
<1>1. ASSUME NEW r PROVE Writers(r)' = Writers(r)
  BY Unchanged DEF Writers, Live
<1>2. ASSUME NEW t, NEW u PROVE Older(t, u)' <=> Older(t, u)
  BY Unchanged DEF Older, ROB!Age
<1>3. rat' = rat
  BY Unchanged
<1>4. QED
  BY <1>1, <1>2, <1>3 DEF Renamed, RatNamesYoungestWriter

(* As long as no slot is dispatched to while the result of the branch it   *)
(* held before still waits for the bus, the rename table names the         *)
(* youngest unretired writer of every register, through flushes, stalls    *)
(* and the cycles in which one writer retires while the next is dispatched *)
(* (rat.sv, dispatch.sv).                                                  *)
THEOREM RenamingNamesYoungestWriter ==
  Spec /\ []NoTagReuse => []RatNamesYoungestWriter
<1>1. Init => Renamed
  BY RenamedInit
<1>2. Base /\ Owned /\ Renamed /\ [Clock]_vars => Renamed'
  <2> SUFFICES ASSUME Base, Owned, Renamed, [Clock]_vars PROVE Renamed'
    OBVIOUS
  <2>1. TInv /\ RobOK /\ BranchResolvesInFlight
    BY BranchInFlight DEF Base, Owned
  <2>2. QED
    BY <2>1, RenamedStep, RenamedStutter
<1>3. Renamed => RatNamesYoungestWriter
  BY DEF Renamed
<1>4. QED
  BY <1>1, <1>2, <1>3, Ownership, PTL DEF Spec

-----------------------------------------------------------------------------
(* Wake-up.  A jump finishes in the reorder buffer when its outcome does,  *)
(* before its result has been on the bus, so what follows is about the     *)
(* programs in which no jump links.                                        *)

NoLinks == \A w \in Address : imem[w].op \in JumpOps => imem[w].rd = 0

LinksNothing(d) == d.op \in BranchOps \cup JumpOps => d.rd = X0

(* No branch or jump in the machine has a register to write. *)
Unlinked ==
  /\ NoLinks
  /\ instr_raw.op \in JumpOps => instr_raw.rd = 0
  /\ \A i \in IqSlot : LinksNothing(iq.entries[i])
  /\ \A t \in Slot : Live(t) => LinksNothing(entries[t])

LEMMA DecodeLinksNothing ==
  ASSUME NEW raw \in RawWord, raw.op \in JumpOps => raw.rd = 0, NEW pc
  PROVE  LinksNothing(decode(raw, pc))
<1> PICK d : d = decode(raw, pc)
  OBVIOUS
<1>1. d.op = raw.op /\ d.rd = Field(writes_rd(raw), raw.op \in FpRdOps, raw.rd)
  BY DEF decode
<1>2. CASE raw.op \in BranchOps
  <2>1. ~writes_rd(raw)
    BY <1>2 DEF writes_rd, RawWord, RdOps, BranchOps, JumpOps, FpOps, FpAddOps, FpCvtOps
  <2>2. QED
    BY <1>1, <2>1 DEF Field, LinksNothing
<1>3. CASE raw.op \in JumpOps
  <2>1. (raw.op \in FpRdOps) = FALSE
    BY <1>3 DEF FpRdOps, JumpOps, FpOps, FpAddOps
  <2>2. QED
    BY <1>1, <1>3, <2>1 DEF Field, LinksNothing, X0, X
<1>4. CASE raw.op \notin BranchOps \cup JumpOps
  BY <1>1, <1>4 DEF LinksNothing
<1>5. QED
  BY <1>2, <1>3, <1>4

LEMMA UnlinkedInit ==
  ASSUME Init, NoLinks
  PROVE  Unlinked
<1>1. instr_raw = ZeroRaw /\ \A i \in IqSlot : iq.entries[i] = decode(ZeroRaw, 0)
  BY DEF Init, FetchInit, EmptyQueue, IqSlot
<1>2. ZeroRaw.op = "NOP"
  BY DEF ZeroRaw
<1>3. ZeroRaw.op \notin JumpOps
  BY <1>2 DEF JumpOps
<1>4. LinksNothing(decode(ZeroRaw, 0))
  BY <1>3, ZeroTyped, DecodeLinksNothing
<1>5. \A t \in Slot : ~Live(t)
  BY RobNames DEF Init, ROB!RobInit, ZeroRobEntry, Live
<1>6. QED
  BY <1>1, <1>3, <1>4, <1>5 DEF Unlinked

LEMMA UnlinkedStep ==
  ASSUME TInv, RobOK, BranchResolvesInFlight, Unlinked, Clock
  PROVE  Unlinked'
<1>1. NoLinks'
  BY DEF Clock, FetchClock, Unlinked, NoLinks
<1>2. instr_raw'.op \in JumpOps => instr_raw'.rd = 0
  <2>1. \A a \in Word : WordIndex(a) \in Address
    BY IndexTyped
  <2>2. imem_read_pc \in Word
    BY DEF imem_read_pc, TInv, FetchT
  <2>3. QED
    BY <2>1, <2>2 DEF Clock, FetchClock, Unlinked, NoLinks
<1>3. ASSUME NEW i \in IqSlot PROVE LinksNothing(iq'.entries[i])
  <2>1. LinksNothing(decode(instr_raw, fetch.pc_d)) /\ LinksNothing(iq.entries[i])
    BY DecodeLinksNothing DEF Unlinked, TInv, FetchT
  <2>2. CASE flush
    <3>1. iq'.entries = iq.entries
      BY <2>2 DEF Clock, QueueClock, TInv, FetchT
    <3>2. QED
      BY <2>1, <3>1
  <2>3. CASE ~flush
    <3>1. iq'.entries[i] \in {iq.entries[i], decode(instr_raw, fetch.pc_d)}
      BY <2>3, QueueEdgeFacts DEF TInv, FetchT, IqSlot
    <3>2. QED
      BY <2>1, <3>1
  <2>4. QED
    BY <2>2, <2>3
<1>4. ASSUME NEW t \in Slot, Live(t)' PROVE LinksNothing(entries'[t])
  <2>1. CASE flush
    BY <1>4, <2>1, FlushClears
  <2>2. CASE ~flush /\ dispatch /\ t = tail
    <3>1. entries'[t].op = iq_instr.op /\ entries'[t].rd = iq_instr.rd
      BY <2>2, SlotEdge
    <3>2. LinksNothing(iq_instr)
      BY DEF Unlinked, iq_instr, TInv, FetchT, IqSlot
    <3>3. QED
      BY <3>1, <3>2 DEF LinksNothing
  <2>3. CASE ~flush /\ ~(dispatch /\ t = tail)
    <3>1. ~(commit /\ t = head)
      BY <1>4, <2>3, SlotEdge
    <3>2. Live(t) /\ entries'[t].op = entries[t].op /\ entries'[t].rd = entries[t].rd
      BY <1>4, <2>3, <3>1, SlotEdge
    <3>3. QED
      BY <3>2 DEF LinksNothing, Unlinked
  <2>4. QED
    BY <2>1, <2>2, <2>3
<1>5. QED
  BY <1>1, <1>2, <1>3, <1>4 DEF Unlinked, LinksNothing

(* What an instruction with the entry e waits for. *)
Awaits(e) ==
  \A k \in 1 .. 2 : ~e.src[k].ready =>
    /\ InFlight(e.src[k].tag)
    /\ entries[e.src[k].tag].rd_valid /\ entries[e.src[k].tag].rd # X0
    /\ Older(e.src[k].tag, e.rob_tag)

Awaited ==
  /\ \A s \in Station : \A i \in busy[s] : Awaits(slots[s][i])
  /\ \A i \in lsb.valid : Awaits(lsb.entries[i])

(* A store that has said so on the bus has its operands. *)
NotifiedReady == \A i \in lsb.notified : BothReady(lsb.entries[i])

(* A producer stays in flight until its result is on the bus. *)
LEMMA ProducerStays ==
  ASSUME TInv, RobOK, Kinds, BranchResolvesInFlight, Unlinked, Clock, ~flush,
         NEW t \in Slot, InFlight(t), entries[t].rd # X0, ~(cdb_w.valid /\ cdb_w.tag = t)
  PROVE  /\ InFlight(t)' /\ Live(t) /\ ~(commit /\ t = head)
         /\ entries'[t].rd = entries[t].rd /\ entries'[t].rd_valid = entries[t].rd_valid
<1>1. Live(t)
  BY DEF Live, InFlight
<1>2. ~(dispatch /\ t = tail) /\ ~(commit /\ t = head)
  BY <1>1, RobPorts
<1>3. ~entries[t].is_branch
  <2>1. LinksNothing(entries[t])
    BY <1>1 DEF Unlinked
  <2>2. entries[t].op \notin BranchOps \cup JumpOps
    BY <2>1 DEF LinksNothing
  <2>3. QED
    BY <1>1, <2>2 DEF Kinds
<1>4. ~Finished(t)
  BY <1>3 DEF Finished
<1>5. QED
  BY <1>1, <1>2, <1>4, SlotEdge

LEMMA SnoopReady ==
  ASSUME NEW e \in RsEntry, NEW c \in Bus, NEW k \in 1 .. 2
  PROVE  /\ Snooped(e, c).src[k].tag = e.src[k].tag
         /\ Snooped(e, c).src[k].ready <=> e.src[k].ready \/ (c.valid /\ e.src[k].tag = c.tag)
<1>1. Snooped(e, c).src[k] = Captured(e.src[k], c) /\ e.src[k] \in Operands
  BY DEF Snooped, RsEntry
<1>2. QED
  BY <1>1 DEF Captured, Operands

LEMMA AwaitsStep ==
  ASSUME TInv, RobOK, Kinds, BranchResolvesInFlight, Unlinked, Clock, ~flush,
         NEW e \in RsEntry, Awaits(e), InFlight(e.rob_tag), NEW e2, e2 = Snooped(e, cdb_w)
  PROVE  Awaits(e2)'
<1> PICK c : c = cdb_w
  OBVIOUS
<1>0. c \in Bus
  BY CdbTyped
<1>1. SUFFICES ASSUME NEW k \in 1 .. 2, ~e2.src[k].ready, NEW t, t = e2.src[k].tag
               PROVE  /\ InFlight(t)' /\ entries'[t].rd_valid /\ entries'[t].rd # X0
                      /\ Older(t, e2.rob_tag)'
  BY DEF Awaits
<1>2. t = e.src[k].tag /\ ~e.src[k].ready /\ ~(c.valid /\ c.tag = t)
  BY <1>0, <1>1, SnoopReady
<1>3. t \in Slot /\ e.rob_tag \in Slot /\ e2.rob_tag = e.rob_tag
  BY <1>0, <1>2, SnoopTyped DEF RsEntry, Operands
<1>4. InFlight(t) /\ entries[t].rd_valid /\ entries[t].rd # X0 /\ Older(t, e.rob_tag)
  BY <1>2 DEF Awaits
<1>5. /\ InFlight(t)' /\ Live(t) /\ ~(commit /\ t = head)
      /\ entries'[t].rd = entries[t].rd /\ entries'[t].rd_valid = entries[t].rd_valid
  BY <1>2, <1>3, <1>4, ProducerStays
<1> PICK u : u = e.rob_tag
  OBVIOUS
<1>6. Live(u) /\ ~(commit /\ u = head)
  BY RobPorts DEF Live, InFlight
<1>7. Older(t, u)'
  BY <1>3, <1>4, <1>5, <1>6, OrderEdge
<1>8. QED
  BY <1>3, <1>4, <1>5, <1>7

LEMMA AwaitsNew ==
  ASSUME TInv, RobOK, Kinds, BranchResolvesInFlight, Unlinked, Renamed, Clock, ~flush, dispatch,
         NEW e, e = entry
  PROVE  Awaits(e)'
<1>1. ASSUME NEW r \in Reg, ~operand(r).ready, NEW t, t = operand(r).tag, NEW d, d = tail
      PROVE  /\ InFlight(t)' /\ entries'[t].rd_valid /\ entries'[t].rd # X0
             /\ Older(t, d)'
  <2>1. rat[r].valid /\ t = rat[r].tag /\ ~ROB!lookup_done(t) /\ ~(cdb_w.valid /\ cdb_w.tag = t)
    BY <1>1 DEF operand, rat_valid_o
  <2>2. r # X0
    BY <2>1 DEF Renamed
  <2>3. t \in Writers(r)
    BY <2>1, <2>2 DEF Renamed, RatNamesYoungestWriter
  <2>4. t \in Slot /\ Live(t) /\ entries[t].rd_valid /\ entries[t].rd # X0
    BY <2>2, <2>3 DEF Writers
  <2>5. InFlight(t)
    BY <2>1, <2>4 DEF InFlight, Live, TInv, RobT, RobEntry, ROB!lookup_done
  <2>6. /\ InFlight(t)' /\ Live(t) /\ ~(commit /\ t = head)
        /\ entries'[t].rd = entries[t].rd /\ entries'[t].rd_valid = entries[t].rd_valid
    BY <2>1, <2>4, <2>5, ProducerStays
  <2>7. Older(t, d)'
    BY <1>1, <2>4, <2>6, OrderEdge DEF TInv, RobT
  <2>8. QED
    BY <2>4, <2>6, <2>7
<1>2. SUFFICES ASSUME NEW k \in 1 .. 2, ~e.src[k].ready, NEW t, t = e.src[k].tag,
                      NEW d, d = e.rob_tag
               PROVE  /\ InFlight(t)' /\ entries'[t].rd_valid /\ entries'[t].rd # X0
                      /\ Older(t, d)'
  BY DEF Awaits
<1>3. d = tail
  BY <1>2 DEF entry
<1>4. \E r \in Reg : e.src[k] = operand(r)
  BY EntryTyped DEF entry, Decoded
<1>5. QED
  BY <1>1, <1>2, <1>3, <1>4

LEMMA NotifiedReadyStep ==
  ASSUME TInv, LsbShape, NotifiedReady, Clock
  PROVE  NotifiedReady'
<1>1. CASE flush
  <2>1. lsb'.notified = {}
    BY <1>1 DEF Clock, LsbClock, EmptyLsb
  <2>2. QED
    BY <2>1 DEF NotifiedReady
<1>2. CASE ~flush
  <2> SUFFICES ASSUME NEW i \in lsb'.notified PROVE BothReady(lsb'.entries[i])
    BY DEF NotifiedReady, BothReady
  <2>1. /\ i \in lsb.notified \/ (Notified /\ i = store_notify_idx)
    BY <1>2, LsbEdgeFacts
  <2>2. Notified => store_notify_idx \in store_ready_vec
    BY NotifyIn DEF TInv, Notified
  <2>3. i \in lsb.valid /\ i \in LsbSlot
    BY <2>1, <2>2, NotifyIn DEF LsbShape, TInv, LsbT
  <2>4. BothReady(lsb.entries[i])
    BY <2>1, <2>2 DEF NotifiedReady, store_ready_vec
  <2> PICK e, c : e = lsb.entries[i] /\ c = cdb_w
    OBVIOUS
  <2>5. lsb'.entries[i] = Snooped(e, c)
    BY <1>2, <2>3, LsbEdge
  <2>6. e \in RsEntry /\ c \in Bus
    BY <2>3, CdbTyped DEF TInv, LsbT
  <2>7. e.src[1].ready /\ e.src[2].ready
    BY <2>4 DEF BothReady
  <2>8. Snooped(e, c).src[1].ready /\ Snooped(e, c).src[2].ready
    BY <2>6, <2>7, SnoopReady
  <2>9. QED
    BY <2>5, <2>8 DEF BothReady
<1>3. QED
  BY <1>1, <1>2

(* An instruction with both operands waits for nothing. *)
LEMMA ReadyAwaits ==
  ASSUME NEW e, BothReady(e)
  PROVE  Awaits(e)'
  BY DEF BothReady, Awaits

LEMMA AwaitedStep ==
  ASSUME TInv, LsbShape, Owned, BranchResolvesInFlight, Unlinked, Renamed, Awaited,
         NotifiedReady, NotifiedReady', Clock
  PROVE  Awaited'
<1>0. RobOK /\ Kinds /\ HeldInFlight
  BY DEF Owned
<1>1. CASE flush
  <2>1. \A s \in Station : busy'[s] = {}
    BY <1>1, StationEdgeFacts
  <2>2. lsb'.valid = {}
    BY <1>1 DEF Clock, LsbClock, EmptyLsb
  <2>3. QED
    BY <2>1, <2>2 DEF Awaited
<1>2. CASE ~flush
  <2>0. dispatch_to # "none" => dispatch
    BY DEF dispatch_to
  <2>1. ASSUME NEW s \in Station, NEW i \in busy'[s], NEW e2, e2 = slots'[s][i]
        PROVE  Awaits(e2)'
    <3>1. i \in Slots(s)
      BY <2>1, StationStepT DEF StationT
    <3>2. CASE dispatch_to = s /\ i = dispatch_idx(s)
      <4>1. e2 = entry
        BY <1>2, <2>1, <3>1, <3>2, StationEdge
      <4>2. dispatch
        BY <2>0, <3>2 DEF Station
      <4>3. QED
        BY <1>0, <1>2, <4>1, <4>2, AwaitsNew
    <3>3. CASE ~(dispatch_to = s /\ i = dispatch_idx(s))
      <4>1. i \in busy[s]
        BY <1>2, <2>1, <3>1, <3>3, StationEdge
      <4> PICK e : e = slots[s][i]
        OBVIOUS
      <4>2. e2 = Snooped(e, cdb_w)
        BY <1>2, <2>1, <3>1, <4>1, StationEdge
      <4>3. e \in RsEntry /\ i \in Nat
        <5>1. e \in RsEntry
          BY <3>1 DEF TInv, StationT
        <5>2. i \in Nat
          BY <3>1, Sizes DEF Slots
        <5>3. QED
          BY <5>1, <5>2
      <4>4. Awaits(e)
        BY <4>1 DEF Awaited
      <4>5. <<"station", s, i>> \in Place /\ Held(<<"station", s, i>>)
            /\ TagOf(<<"station", s, i>>) = e.rob_tag
        BY <4>1, <4>3, HeldIs, PlaceNames
      <4>6. InFlight(e.rob_tag)
        BY <1>0, <4>5 DEF HeldInFlight
      <4>7. QED
        BY <1>0, <1>2, <4>2, <4>3, <4>4, <4>6, AwaitsStep
    <3>4. QED
      BY <3>2, <3>3
  <2>2. ASSUME NEW i \in lsb'.valid, NEW e2, e2 = lsb'.entries[i]
        PROVE  Awaits(e2)'
    <3>1. i \in LsbSlot
      BY <2>2, LsbStepT DEF LsbT
    <3>2. CASE Pushed /\ i = lsb.tail
      <4>1. e2 = entry
        BY <1>2, <2>2, <3>1, <3>2, LsbEdge
      <4>2. dispatch
        BY <2>0, <3>2 DEF Pushed
      <4>3. QED
        BY <1>0, <1>2, <4>1, <4>2, AwaitsNew
    <3>3. CASE ~(Pushed /\ i = lsb.tail) /\ i \in lsb'.notified
      <4>1. BothReady(e2)
        BY <2>2, <3>3 DEF NotifiedReady
      <4>2. QED
        BY <4>1, ReadyAwaits
    <3>4. CASE ~(Pushed /\ i = lsb.tail) /\ i \notin lsb'.notified
      <4>1. i \in lsb.valid \ lsb.notified
        BY <1>2, <2>2, <3>1, <3>4, LsbEdge
      <4> PICK e : e = lsb.entries[i]
        OBVIOUS
      <4>2. e2 = Snooped(e, cdb_w)
        BY <1>2, <2>2, <3>1, <4>1, LsbEdge
      <4>3. e \in RsEntry /\ i \in Nat
        <5>1. e \in RsEntry
          BY <3>1 DEF TInv, LsbT
        <5>2. i \in Nat
          BY <3>1, Sizes DEF LsbSlot
        <5>3. QED
          BY <5>1, <5>2
      <4>4. Awaits(e)
        BY <4>1 DEF Awaited
      <4>5. <<"lsb", "lsb", i>> \in Place /\ Held(<<"lsb", "lsb", i>>)
            /\ TagOf(<<"lsb", "lsb", i>>) = e.rob_tag
        BY <4>1, <4>3, HeldIs, PlaceNames
      <4>6. InFlight(e.rob_tag)
        BY <1>0, <4>5 DEF HeldInFlight
      <4>7. QED
        BY <1>0, <1>2, <4>2, <4>3, <4>4, <4>6, AwaitsStep
    <3>5. QED
      BY <3>2, <3>3, <3>4
  <2>3. QED
    BY <2>1, <2>2 DEF Awaited, Awaits
<1>3. QED
  BY <1>1, <1>2

Woken == Renamed /\ Unlinked /\ NotifiedReady /\ Awaited

LEMMA WokenInit ==
  ASSUME Init, NoLinks
  PROVE  Woken
<1>1. (\A s \in Station : busy[s] = {}) /\ lsb.valid = {} /\ lsb.notified = {}
  BY DEF Init, StationInit, LsbInit, EmptyLsb
<1>2. QED
  BY <1>1, RenamedInit, UnlinkedInit DEF Woken, NotifiedReady, Awaited

LEMMA WokenStep ==
  ASSUME Base, Owned, Woken, [Clock]_vars
  PROVE  Woken'
<1>1. TInv /\ LsbShape /\ RobOK /\ BranchResolvesInFlight
  BY BranchInFlight DEF Base, Owned
<1>2. CASE Clock
  <2>1. Renamed' /\ Unlinked' /\ NotifiedReady'
    BY <1>1, <1>2, RenamedStep, UnlinkedStep, NotifiedReadyStep DEF Woken
  <2>2. Awaited'
    BY <1>1, <1>2, <2>1, AwaitedStep DEF Woken
  <2>3. QED
    BY <2>1, <2>2 DEF Woken
<1>3. CASE UNCHANGED vars
  <2>1. Renamed'
    BY <1>3, RenamedStutter DEF Woken
  <2>2. Unlinked' /\ NotifiedReady'
    BY <1>3, Unchanged DEF Woken, Unlinked, NoLinks, Live, LinksNothing, NotifiedReady
  <2>3. ASSUME NEW t, NEW u PROVE Older(t, u)' <=> Older(t, u)
    BY <1>3, Unchanged DEF Older, ROB!Age
  <2>4. ASSUME NEW e PROVE Awaits(e)' <=> Awaits(e)
    BY <1>3, <2>3, Unchanged DEF Awaits, InFlight
  <2>5. Awaited'
    BY <1>3, <2>4, Unchanged DEF Woken, Awaited, Awaits
  <2>6. QED
    BY <2>1, <2>2, <2>5 DEF Woken
<1>4. QED
  BY <1>2, <1>3

(* In a program in which no jump links, and as long as no slot is          *)
(* dispatched to while the result of the branch it held before still waits *)
(* for the bus, no wake-up is lost: an operand that is not ready names an  *)
(* older producer in flight, whose broadcast is still to come, although    *)
(* producers finish, broadcast and retire in the cycle of the dispatch     *)
(* (dispatch.sv operand selection, reservation_station.sv and              *)
(* load_store_buffer.sv snoop).                                            *)
THEOREM NoWakeUpIsLost ==
  Spec /\ NoLinks /\ []NoTagReuse => []OperandsAwaitProducers
<1>1. Init /\ NoLinks => Woken
  BY WokenInit
<1>2. Base /\ Owned /\ Woken /\ [Clock]_vars => Woken'
  BY WokenStep
<1>3. Woken => OperandsAwaitProducers
  <2> SUFFICES ASSUME Woken, NEW e \in Waiting PROVE Awaits(e)
    BY DEF OperandsAwaitProducers, Awaits
  <2>1. \/ \E s \in Station : \E i \in busy[s] : e = slots[s][i]
        \/ \E i \in lsb.valid : e = lsb.entries[i]
    BY DEF Waiting
  <2>2. QED
    BY <2>1 DEF Woken, Awaited
<1>4. QED
  BY <1>1, <1>2, <1>3, Ownership, PTL DEF Spec

-----------------------------------------------------------------------------
(* Memory order.                                                           *)

LsbTag(i) == lsb.entries[i].rob_tag

(* The buffer holds unretired instructions, under their own opcodes, ... *)
LsbLive ==
  \A i \in lsb.valid : Live(LsbTag(i)) /\ entries[LsbTag(i)].op = lsb.entries[i].op

(* ... in program order, ... *)
LsbOrder ==
  \A i \in lsb.valid : \A j \in lsb.valid :
    LsbPos(i) < LsbPos(j) => Older(LsbTag(i), LsbTag(j))

(* ... every unretired store among them, ... *)
StoresQueued ==
  \A t \in Slot : Live(t) /\ is_store_op(entries[t].op) => \E i \in lsb.valid : LsbTag(i) = t

(* ... and a load that waits for the bus is older than all of those. *)
LoadFirst ==
  load.pending => \A t \in Slot : Live(t) /\ is_store_op(entries[t].op) => Older(load.tag, t)

MemLine == LsbLive /\ LsbOrder /\ StoresQueued /\ LoadFirst

LEMMA LsbHeld ==
  ASSUME Base, Owned, NEW i \in lsb.valid
  PROVE  /\ i \in LsbSlot /\ LsbTag(i) \in Slot
         /\ i \notin lsb.notified => InFlight(LsbTag(i))
<1>1. i \in LsbSlot /\ lsb.entries[i] \in RsEntry
  BY DEF Base, TInv, LsbT
<1>2. i \in Nat
  BY <1>1, Sizes DEF LsbSlot
<1>3. LsbTag(i) \in Slot
  BY <1>1 DEF LsbTag, RsEntry
<1>4. i \notin lsb.notified => InFlight(LsbTag(i))
  <2>1. <<"lsb", "lsb", i>> \in Place /\ TagOf(<<"lsb", "lsb", i>>) = LsbTag(i)
        /\ (i \notin lsb.notified => Held(<<"lsb", "lsb", i>>))
    BY <1>2, HeldIs, PlaceNames DEF LsbTag
  <2>2. QED
    BY <2>1 DEF Owned, HeldInFlight
<1>5. QED
  BY <1>1, <1>3, <1>4

(* A slot other than the head has the head of the buffer before it. *)
LEMMA LsbHeadFirst ==
  ASSUME Base, Owned, LsbOrder, NEW i \in lsb.valid, i # lsb.head
  PROVE  lsb.head \in lsb.valid /\ Older(LsbTag(lsb.head), LsbTag(i))
<1>1. i \in 0 .. LSB_SIZE - 1 /\ lsb.head \in 0 .. LSB_SIZE - 1 /\ LSB_SIZE \in Nat \ {0}
  BY Sizes DEF Base, TInv, LsbT, LsbSlot
<1>2. LsbPos(i) \in 0 .. LSB_SIZE - 1 /\ LsbPos(i) # 0
  BY <1>1, RingRange DEF LsbPos
<1>3. LsbPos(lsb.head) = 0
  BY <1>1, RingRange DEF LsbPos
<1>4. LsbPos(i) < lsb.count /\ lsb.count \in Int
  BY <1>1 DEF Base, LsbShape, LsbSlot
<1>5. lsb.head \in lsb.valid
  BY <1>1, <1>2, <1>3, <1>4 DEF Base, LsbShape, LsbSlot
<1>6. QED
  BY <1>2, <1>3, <1>5 DEF LsbOrder

(* The store that retires is at the head of the buffer and leaves it. *)
LEMMA LsbRetires ==
  ASSUME Base, Owned, LsbLive, LsbOrder, commit, NEW i \in lsb.valid, LsbTag(i) = head
  PROVE  i = lsb.head /\ Popped
<1>0. TInv /\ RobOK
  BY DEF Base, Owned
<1>1. i \in lsb.notified
  BY <1>0, LsbHeld, RobPorts
<1>2. is_store_op(lsb.entries[i].op)
  BY <1>1 DEF Base, LsbKind
<1>3. is_store_op(entries[head].op)
  BY <1>2 DEF LsbLive
<1>4. i = lsb.head
  <2> SUFFICES ASSUME i # lsb.head PROVE FALSE
    OBVIOUS
  <2> PICK t : t = LsbTag(lsb.head)
    OBVIOUS
  <2>1. lsb.head \in lsb.valid /\ Older(t, head) /\ t \in Slot /\ head \in Slot
    BY <1>0, LsbHeadFirst, LsbHeld DEF TInv, RobT
  <2>2. t # head
    BY <1>0, <2>1, OrderTotal
  <2>3. Older(head, t)
    BY <1>0, <2>1, <2>2, HeadOldest
  <2>4. QED
    BY <1>0, <2>1, <2>3, OrderTotal
<1>5. store_commit.en /\ store_commit.tag = head
  BY <1>3 DEF store_commit, retiring, ROB!commit_entry_o, Owned, RobOK
<1>6. store_write(store_commit)
  BY <1>2, <1>4, <1>5 DEF store_write, head_entry, LsbTag
<1>7. QED
  BY <1>4, <1>6 DEF Popped, do_pop

(* What leaves the buffer is a load that starts or the store that retires. *)
LEMMA PoppedIs ==
  ASSUME RobOK, Popped
  PROVE  /\ lsb.head \in lsb.valid
         /\ \/ load_issue /\ is_load_op(lsb.entries[lsb.head].op)
            \/ commit /\ LsbTag(lsb.head) = head
  BY DEF Popped, do_pop, load_issue, store_write, store_commit, head_entry, LsbTag, RobOK

(* An instruction that stays in the buffer stays in the reorder buffer. *)
LEMMA LsbStays ==
  ASSUME Base, Owned, LsbLive, LsbOrder, Clock, ~flush, NEW i \in lsb.valid, i \in lsb'.valid,
         NEW t, t = LsbTag(i)
  PROVE  /\ t \in Slot /\ Live(t) /\ ~(commit /\ t = head) /\ ~(dispatch /\ t = tail)
         /\ ~(Popped /\ i = lsb.head) /\ ~(Pushed /\ i = lsb.tail)
         /\ Live(t)' /\ entries'[t].op = entries[t].op /\ lsb'.entries[i].rob_tag = t
         /\ lsb'.entries[i].op = lsb.entries[i].op
<1>0. TInv /\ LsbShape /\ RobOK /\ BranchResolvesInFlight
  BY BranchInFlight DEF Base, Owned
<1>1. i \in LsbSlot /\ t \in Slot /\ Live(t)
  BY LsbHeld DEF LsbLive
<1>2. ~(Pushed /\ i = lsb.tail)
  BY <1>0, <1>1, LsbEdge
<1>3. ~(Popped /\ i = lsb.head)
  BY <1>0, <1>1, <1>2, LsbEdge
<1>4. ~(commit /\ t = head)
  BY <1>3, LsbRetires
<1>5. ~(dispatch /\ t = tail)
  BY <1>0, <1>1, RobPorts
<1>6. Live(t)' /\ entries'[t].op = entries[t].op
  BY <1>0, <1>1, <1>4, <1>5, SlotEdge
<1>7. lsb'.entries[i].rob_tag = t /\ lsb'.entries[i].op = lsb.entries[i].op
  BY <1>0, <1>1, LsbEdge DEF LsbTag
<1>8. QED
  BY <1>1, <1>2, <1>3, <1>4, <1>5, <1>6, <1>7

(* An instruction that is pushed. *)
LEMMA LsbEnters ==
  ASSUME Base, Owned, Clock, ~flush, NEW i \in lsb'.valid, i \notin lsb.valid
  PROVE  /\ Pushed /\ i = lsb.tail /\ dispatch /\ lsb'.entries[i] = entry
         /\ lsb'.entries[i].rob_tag = tail /\ lsb'.entries[i].op = iq_instr.op
<1>0. TInv /\ LsbShape
  BY DEF Base
<1>1. i \in LsbSlot
  BY <1>0, LsbStepT DEF LsbT
<1>2. Pushed /\ i = lsb.tail /\ lsb'.entries[i] = entry
  BY <1>0, <1>1, LsbEdge
<1>3. dispatch
  BY <1>2 DEF Pushed, dispatch_to
<1>4. QED
  BY <1>2, <1>3 DEF entry

LEMMA LsbLiveStep ==
  ASSUME Base, Owned, LsbLive, LsbOrder, Clock, ~flush
  PROVE  LsbLive'
<1>0. TInv /\ RobOK /\ BranchResolvesInFlight
  BY BranchInFlight DEF Base, Owned
<1>1. SUFFICES ASSUME NEW i \in lsb'.valid, NEW t, t = lsb'.entries[i].rob_tag
               PROVE  Live(t)' /\ entries'[t].op = lsb'.entries[i].op
  BY DEF LsbLive, LsbTag, Live
<1>2. CASE i \in lsb.valid
  <2> PICK u : u = LsbTag(i)
    OBVIOUS
  <2>1. t = u /\ Live(u)' /\ entries'[u].op = entries[u].op /\ lsb'.entries[i].op = lsb.entries[i].op
    BY <1>1, <1>2, LsbStays
  <2>2. QED
    BY <1>2, <2>1 DEF LsbLive
<1>3. CASE i \notin lsb.valid
  <2>1. dispatch /\ t = tail /\ lsb'.entries[i].op = iq_instr.op
    BY <1>1, <1>3, LsbEnters
  <2>2. t \in Slot
    BY <1>0, <2>1 DEF TInv, RobT
  <2>3. QED
    BY <1>0, <2>1, <2>2, SlotEdge
<1>4. QED
  BY <1>2, <1>3

LEMMA LsbOrderStep ==
  ASSUME Base, Owned, LsbLive, LsbOrder, Clock, ~flush
  PROVE  LsbOrder'
<1>0. TInv /\ RobOK /\ LsbShape
  BY DEF Base, Owned
<1>1. SUFFICES ASSUME NEW i \in lsb'.valid, NEW j \in lsb'.valid, LsbPos(i)' < LsbPos(j)',
                      NEW t, t = lsb'.entries[i].rob_tag, NEW u, u = lsb'.entries[j].rob_tag
               PROVE  Older(t, u)'
  BY DEF LsbOrder, LsbTag
<1>2. i \in LsbSlot /\ j \in LsbSlot
  BY <1>0, LsbStepT DEF LsbT
<1> PICK c, d, p, q, p2, q2 :
      /\ c = (IF Popped THEN 1 ELSE 0) /\ d = lsb.count
      /\ p = LsbPos(i) /\ q = LsbPos(j) /\ p2 = LsbPos(i)' /\ q2 = LsbPos(j)'
  OBVIOUS
<1>3. c \in Int /\ d \in Int /\ p \in Int /\ q \in Int /\ p2 < q2
  BY <1>0, <1>1, <1>2, LsbPosEdge DEF LsbShape
<1>4. ~(Popped /\ i = lsb.head) => p2 = p - c
  BY <1>0, <1>2, <1>3, LsbPosEdge
<1>5. ~(Popped /\ j = lsb.head) => q2 = q - c
  BY <1>0, <1>2, <1>3, LsbPosEdge
<1>6. (i \in lsb.valid => p < d) /\ (j \in lsb.valid => q < d)
  BY <1>0, <1>2 DEF LsbShape
<1>7. \A k \in LsbSlot : Pushed /\ k = lsb.tail => LsbPos(k) = d /\ ~(Popped /\ k = lsb.head)
  <2>1. Pushed => lsb.count # LSB_SIZE
    BY <1>0, LsbEdgeFacts
  <2>2. \A k \in LsbSlot : lsb.count # LSB_SIZE /\ k = lsb.tail => LsbPos(k) = lsb.count
    BY <1>0, LsbPosEdge
  <2>3. \A k \in LsbSlot : Pushed /\ k = lsb.tail => k \notin lsb.valid
    BY <1>0, LsbEdge
  <2>4. QED
    BY <2>1, <2>2, <2>3, PoppedIn
<1>8. CASE i \in lsb.valid
  <2>1. /\ t \in Slot /\ t = LsbTag(i) /\ Live(t) /\ ~(commit /\ t = head)
        /\ ~(Popped /\ i = lsb.head)
    BY <1>1, <1>8, LsbStays
  <2>2. CASE j \in lsb.valid
    <3>1. /\ u \in Slot /\ u = LsbTag(j) /\ Live(u) /\ ~(commit /\ u = head)
          /\ ~(Popped /\ j = lsb.head)
      BY <1>1, <2>2, LsbStays
    <3>2. p < q
      BY <1>3, <1>4, <1>5, <2>1, <3>1
    <3>3. Older(t, u)
      BY <1>8, <2>1, <2>2, <3>1, <3>2 DEF LsbOrder
    <3>4. QED
      BY <1>0, <2>1, <3>1, <3>3, OrderEdge
  <2>3. CASE j \notin lsb.valid
    <3>1. dispatch /\ u = tail
      BY <1>1, <2>3, LsbEnters
    <3>2. u \in Slot
      BY <1>0, <3>1 DEF TInv, RobT
    <3>3. QED
      BY <1>0, <2>1, <3>1, <3>2, OrderEdge
  <2>4. QED
    BY <2>2, <2>3
<1>9. CASE i \notin lsb.valid
  <2>1. Pushed /\ i = lsb.tail
    BY <1>9, LsbEnters
  <2>2. p2 = d - c
    BY <1>2, <1>4, <1>7, <2>1
  <2>3. CASE j \in lsb.valid
    <3>1. ~(Popped /\ j = lsb.head)
      BY <2>3, LsbStays
    <3>2. QED
      BY <1>3, <1>5, <1>6, <2>2, <2>3, <3>1
  <2>4. CASE j \notin lsb.valid
    <3>1. Pushed /\ j = lsb.tail
      BY <2>4, LsbEnters
    <3>2. q2 = d - c
      BY <1>2, <1>5, <1>7, <3>1
    <3>3. QED
      BY <1>3, <2>2, <3>2
  <2>5. QED
    BY <2>3, <2>4
<1>10. QED
  BY <1>8, <1>9

LEMMA StoresQueuedStep ==
  ASSUME Base, Owned, LsbLive, StoresQueued, Clock, ~flush
  PROVE  StoresQueued'
<1>0. TInv /\ LsbShape /\ RobOK /\ BranchResolvesInFlight
  BY BranchInFlight DEF Base, Owned
<1>1. SUFFICES ASSUME NEW t \in Slot, Live(t)', is_store_op(entries'[t].op)
               PROVE  \E i \in lsb'.valid : lsb'.entries[i].rob_tag = t
  BY DEF StoresQueued, LsbTag, is_store_op
<1>2. CASE dispatch /\ t = tail
  <2>1. is_store_op(iq_instr.op)
    BY <1>0, <1>1, <1>2, SlotEdge
  <2>2. Pushed
    BY <1>0, <1>2, <2>1, EntryTyped, TargetFacts DEF Pushed, dispatch_to, is_store_op
  <2>3. lsb.tail \in LsbSlot
    BY <1>0 DEF TInv, LsbT
  <2>4. lsb.tail \in lsb'.valid /\ lsb'.entries[lsb.tail] = entry
    BY <1>0, <2>2, <2>3, LsbEdge
  <2>5. entry.rob_tag = t
    BY <1>2 DEF entry
  <2>6. QED
    BY <2>4, <2>5
<1>3. CASE ~(dispatch /\ t = tail)
  <2>1. ~(commit /\ t = head)
    BY <1>0, <1>1, SlotEdge
  <2>2. Live(t) /\ is_store_op(entries[t].op)
    BY <1>0, <1>1, <1>3, <2>1, SlotEdge
  <2>3. PICK i \in lsb.valid : LsbTag(i) = t
    BY <2>2 DEF StoresQueued
  <2>4. ~(Popped /\ i = lsb.head)
    <3>1. is_store_op(lsb.entries[i].op)
      BY <2>2, <2>3 DEF LsbLive
    <3>2. QED
      BY <1>0, <2>1, <2>3, <3>1, PoppedIs, LoadsAndStores
  <2>5. i \in LsbSlot
    BY LsbHeld
  <2>6. i \in lsb'.valid /\ lsb'.entries[i].rob_tag = t
    BY <1>0, <2>3, <2>4, <2>5, LsbEdge DEF LsbTag
  <2>7. QED
    BY <2>6
<1>4. QED
  BY <1>2, <1>3

LEMMA LoadFirstStep ==
  ASSUME Base, Owned, MemLine, Clock, ~flush
  PROVE  LoadFirst'
<1>0. TInv /\ LsbShape /\ RobOK /\ BranchResolvesInFlight /\ LsbLive /\ LsbOrder /\ StoresQueued
      /\ LoadFirst
  BY BranchInFlight DEF Base, Owned, MemLine
<1>1. SUFFICES ASSUME load'.pending, NEW t \in Slot, Live(t)', is_store_op(entries'[t].op),
                      NEW a, a = load'.tag
               PROVE  Older(a, t)'
  BY DEF LoadFirst, is_store_op, Live
<1>2. a \in Slot /\ InFlight(a)
      /\ \A u \in Slot : Live(u) /\ is_store_op(entries[u].op) => Older(a, u)
  <2>1. CASE load_issue
    <3>1. a = LsbTag(lsb.head) /\ lsb.head \in lsb.valid /\ is_load_op(lsb.entries[lsb.head].op)
      BY <1>0, <1>1, <2>1, LoadEdge DEF head_entry, LsbTag
    <3>2. lsb.head \notin lsb.notified
      BY <3>1, LoadsAndStores DEF Base, LsbKind
    <3>3. a \in Slot /\ InFlight(a)
      BY <3>1, <3>2, LsbHeld
    <3>4. ASSUME NEW u \in Slot, Live(u), is_store_op(entries[u].op) PROVE Older(a, u)
      <4>1. PICK j \in lsb.valid : LsbTag(j) = u
        BY <1>0, <3>4 DEF StoresQueued
      <4>2. is_store_op(lsb.entries[j].op)
        BY <1>0, <3>4, <4>1 DEF LsbLive
      <4>3. j # lsb.head
        BY <3>1, <4>2, LoadsAndStores
      <4>4. QED
        BY <1>0, <3>1, <4>1, <4>3, LsbHeadFirst
    <3>5. QED
      BY <3>3, <3>4
  <2>2. CASE ~load_issue
    <3>1. load.pending /\ a = load.tag
      BY <1>0, <1>1, <2>2, LoadEdge
    <3>2. LoadPlace \in Place /\ Held(LoadPlace) /\ TagOf(LoadPlace) = a
      BY <3>1, HeldIs, PlaceNames
    <3>3. a \in Slot
      BY <1>0, <3>2, HeldTag
    <3>4. InFlight(a)
      BY <3>2 DEF Owned, HeldInFlight
    <3>5. QED
      BY <1>0, <3>1, <3>3, <3>4 DEF LoadFirst
  <2>3. QED
    BY <2>1, <2>2
<1>3. Live(a) /\ ~(commit /\ a = head)
  BY <1>0, <1>2, RobPorts DEF Live, InFlight
<1>4. CASE dispatch /\ t = tail
  BY <1>0, <1>2, <1>3, <1>4, OrderEdge
<1>5. CASE ~(dispatch /\ t = tail)
  <2>1. ~(commit /\ t = head)
    BY <1>0, <1>1, SlotEdge
  <2>2. Live(t) /\ is_store_op(entries[t].op)
    BY <1>0, <1>1, <1>5, <2>1, SlotEdge
  <2>3. QED
    BY <1>0, <1>2, <1>3, <2>1, <2>2, OrderEdge
<1>6. QED
  BY <1>4, <1>5

LEMMA MemLineInit ==
  ASSUME Init
  PROVE  MemLine
<1>1. lsb.valid = {} /\ ~load.pending
  BY DEF Init, LsbInit, EmptyLsb, NoLoad
<1>2. \A t \in Slot : ~Live(t)
  BY RobNames DEF Init, ROB!RobInit, ZeroRobEntry, Live
<1>3. QED
  BY <1>1, <1>2 DEF MemLine, LsbLive, LsbOrder, StoresQueued, LoadFirst

LEMMA MemLineStep ==
  ASSUME Base, Owned, MemLine, [Clock]_vars
  PROVE  MemLine'
<1>1. CASE Clock /\ flush
  <2>1. lsb'.valid = {} /\ ~load'.pending
    BY <1>1 DEF Clock, LsbClock, LoadClock, EmptyLsb, NoLoad
  <2>2. \A t \in Slot : ~Live(t)'
    BY <1>1, FlushClears DEF Base
  <2>3. QED
    BY <2>1, <2>2 DEF MemLine, LsbLive, LsbOrder, StoresQueued, LoadFirst
<1>2. CASE Clock /\ ~flush
  BY <1>2, LsbLiveStep, LsbOrderStep, StoresQueuedStep, LoadFirstStep DEF MemLine
<1>3. CASE UNCHANGED vars
  <2>1. ASSUME NEW t, NEW u PROVE Older(t, u)' <=> Older(t, u)
    BY <1>3, Unchanged DEF Older, ROB!Age
  <2>2. ASSUME NEW t PROVE Live(t)' <=> Live(t)
    BY <1>3, Unchanged DEF Live
  <2>3. ASSUME NEW i PROVE LsbPos(i)' = LsbPos(i) /\ LsbTag(i)' = LsbTag(i)
    BY <1>3, Unchanged DEF LsbPos, LsbTag
  <2>4. LsbLive' /\ StoresQueued'
    BY <1>3, <2>2, <2>3, Unchanged DEF MemLine, LsbLive, StoresQueued, LsbTag, Live, is_store_op
  <2>5. LsbOrder'
    <3> SUFFICES ASSUME NEW i \in lsb.valid, NEW j \in lsb.valid, LsbPos(i)' < LsbPos(j)',
                        NEW t, t = LsbTag(i), NEW u, u = LsbTag(j)
                 PROVE  Older(t, u)'
      BY <1>3, <2>3, Unchanged DEF LsbOrder, LsbTag
    <3>1. QED
      BY <2>1, <2>3 DEF MemLine, LsbOrder
  <2>6. LoadFirst'
    BY <1>3, <2>1, <2>2, Unchanged DEF MemLine, LoadFirst, is_store_op, Live, Older, ROB!Age
  <2>7. QED
    BY <2>4, <2>5, <2>6 DEF MemLine
<1>4. QED
  BY <1>1, <1>2, <1>3

LEMMA MemLineMeans ==
  ASSUME Base, Owned, MemLine
  PROVE  MemoryInOrder
<1>0. LSB_SIZE \in Nat \ {0} /\ lsb.head \in 0 .. LSB_SIZE - 1 /\ lsb.count \in 0 .. LSB_SIZE
  BY Sizes DEF Base, TInv, LsbT, LsbSlot, LsbShape
<1>1. ASSUME NEW k \in 0 .. LSB_SIZE - 1, k < lsb.count, NEW p, p = (lsb.head + k) % LSB_SIZE
      PROVE  p \in lsb.valid /\ LsbPos(p) = k
  <2> PICK h : h = lsb.head
    OBVIOUS
  <2>0. h \in 0 .. LSB_SIZE - 1 /\ k \in 0 .. LSB_SIZE - 1 /\ LSB_SIZE \in Nat \ {0}
    BY <1>0, <1>1
  <2>1. p = RingEnd(LSB_SIZE, lsb.head, k)
    <3>1. (h + k) % LSB_SIZE = RingEnd(LSB_SIZE, h, k)
      BY ONLY <2>0, RingMod
    <3>2. QED
      BY <1>1, <3>1
  <2>2. p \in 0 .. LSB_SIZE - 1
    BY ONLY <2>0, <2>1, h = lsb.head DEF RingEnd
  <2>3. LsbPos(p) = k
    BY <1>0, <2>1, <2>2, RingAt DEF LsbPos
  <2>4. QED
    BY <1>1, <2>2, <2>3 DEF Base, LsbShape, LsbSlot
<1>2. ASSUME NEW i \in 1 .. lsb.count,
             NEW p, p = (lsb.head + i - 1) % LSB_SIZE, NEW q, q = (lsb.head + i) % LSB_SIZE
      PROVE  /\ p \in lsb.valid /\ Live(lsb.entries[p].rob_tag)
             /\ i < lsb.count => Older(lsb.entries[p].rob_tag, lsb.entries[q].rob_tag)
  <2> PICK k : k = i - 1
    OBVIOUS
  <2>1. k \in 0 .. LSB_SIZE - 1 /\ k < lsb.count /\ lsb.head + i - 1 = lsb.head + k
    BY <1>0
  <2>2. p \in lsb.valid /\ LsbPos(p) = k
    BY <1>1, <1>2, <2>1
  <2>3. i < lsb.count => q \in lsb.valid /\ LsbPos(q) = i
    <3>1. i < lsb.count => i \in 0 .. LSB_SIZE - 1
      BY <1>0
    <3>2. QED
      BY <1>1, <1>2, <3>1
  <2>4. k < i
    BY <1>0
  <2>5. QED
    BY <2>2, <2>3, <2>4 DEF MemLine, LsbLive, LsbOrder, LsbTag
<1>3. QED
  BY <1>2 DEF MemoryInOrder, MemLine, LoadFirst, Base, LsbShape

(* As long as no slot is dispatched to while the result of the branch it   *)
(* held before still waits for the bus, the load/store buffer holds its    *)
(* instructions in program order and no load starts before every older     *)
(* store is in memory, through dispatches, flushes and retirements in the  *)
(* same cycle (load_store_buffer.sv head-only issue).                      *)
THEOREM MemoryIsAccessedInOrder == Spec /\ []NoTagReuse => []MemoryInOrder
<1>1. Init => MemLine
  BY MemLineInit
<1>2. Base /\ Owned /\ MemLine /\ [Clock]_vars => MemLine'
  BY MemLineStep
<1>3. Base /\ Owned /\ MemLine => MemoryInOrder
  BY MemLineMeans
<1>4. QED
  BY <1>1, <1>2, <1>3, Ownership, PTL DEF Spec

-----------------------------------------------------------------------------
(* The straight line of the program through the reorder buffer, the queue  *)
(* and fetch.                                                              *)

(* The pc of the oldest instruction that has not been dispatched. *)
NextPc == IF iq.count # 0 THEN iq_instr.pc ELSE IF fetch.valid THEN fetch.pc_d ELSE fetch.pc

LEMMA NextPcEdge ==
  ASSUME TInv, IqLine, Clock, ~flush
  PROVE  NextPc' = IF dispatch THEN Wrap(iq_instr.pc + 4) ELSE NextPc
<1> PICK h, c, t, h2, c2, es, es2, n :
      /\ h = iq.head /\ c = iq.count /\ t = iq.tail /\ h2 = iq'.head /\ c2 = iq'.count
      /\ es = iq.entries /\ es2 = iq'.entries /\ n = IQ_DEPTH
  OBVIOUS
<1>1. /\ n \in Nat \ {0} /\ h \in 0 .. n - 1 /\ c \in 0 .. n /\ t = RingEnd(n, h, c)
      /\ es \in [0 .. n - 1 -> Decoded] /\ t \in 0 .. n - 1
  BY Sizes DEF TInv, FetchT, IqLine
<1>2. /\ h2 = IF dispatch THEN RingNext(n, h) ELSE h
      /\ c2 = c + (IF IqPush THEN 1 ELSE 0) - (IF dispatch THEN 1 ELSE 0)
      /\ es2 = IF IqPush THEN [es EXCEPT ![t] = decode(instr_raw, fetch.pc_d)] ELSE es
  BY QueueEdgeFacts DEF RingNext, IqPush
<1>3. /\ NextPc = IF c # 0 THEN es[h].pc ELSE IF fetch.valid THEN fetch.pc_d ELSE fetch.pc
      /\ NextPc' = IF c2 # 0 THEN es2[h2].pc ELSE IF fetch'.valid THEN fetch'.pc_d ELSE fetch'.pc
      /\ iq_instr.pc = es[h].pc
  BY DEF NextPc, iq_instr
<1>4. fetch'.valid /\ fetch'.pc_d = IF c = n THEN fetch.pc_d ELSE fetch.pc
  <2>1. fetch' = IF iq_full THEN [fetch EXCEPT !.valid = TRUE]
                 ELSE [pc |-> Wrap(fetch.pc + 4), pc_d |-> fetch.pc, valid |-> TRUE]
    BY DEF Clock, FetchClock
  <2>2. iq_full <=> c = n
    BY DEF iq_full
  <2>3. QED
    BY <2>1, <2>2 DEF TInv, FetchT
<1>5. /\ IqPush <=> fetch.valid /\ c # n
      /\ dispatch => c # 0
      /\ c # 0 => fetch.valid
  BY DEF IqPush, iq_full, dispatch, iq_valid, IqLine
<1>6. IqPush => es2[t].pc = fetch.pc_d
  <2>1. IqPush => es2[t] = decode(instr_raw, fetch.pc_d)
    BY <1>1, <1>2
  <2>2. QED
    BY <2>1 DEF decode
<1>7. \A i \in 0 .. n - 1 : ~(IqPush /\ i = t) => es2[i] = es[i]
  BY <1>1, <1>2
<1>8. CASE ~dispatch /\ c # 0
  <2>1. IqPush => h # t
    <3>1. RingEnd(n, h, c) = h => c = n \/ c = 0
      BY <1>1 DEF RingEnd
    <3>2. QED
      BY <1>1, <1>5, <1>8, <3>1
  <2>2. h2 = h /\ c2 # 0
    BY <1>1, <1>2, <1>8
  <2>3. QED
    BY <1>1, <1>3, <1>7, <1>8, <2>1, <2>2
<1>9. CASE ~dispatch /\ c = 0
  <2>1. h2 = h /\ t = h /\ c # n
    BY <1>1, <1>2, <1>9 DEF RingEnd
  <2>2. CASE fetch.valid
    <3>1. IqPush /\ c2 = 1
      BY <1>2, <1>5, <1>9, <2>1, <2>2
    <3>2. QED
      BY <1>3, <1>6, <1>9, <2>1, <2>2, <3>1
  <2>3. CASE ~fetch.valid
    <3>1. ~IqPush /\ c2 = 0
      BY <1>2, <1>5, <1>9, <2>3
    <3>2. QED
      BY <1>3, <1>4, <1>9, <2>1, <2>3, <3>1
  <2>4. QED
    BY <2>2, <2>3
<1>10. CASE dispatch
  <2>1. c > 0 /\ fetch.valid /\ h2 = RingNext(n, h) /\ h2 \in 0 .. n - 1
    <3>1. RingNext(n, h) \in 0 .. n - 1
      BY <1>1 DEF RingNext
    <3>2. QED
      BY <1>1, <1>2, <1>5, <1>10, <3>1
  <2>2. Wrap(es[h].pc + 4) = IF 1 < c THEN es[RingNext(n, h)].pc ELSE fetch.pc_d
    <3>1. RingPos(n, h, h) = 0
      BY <1>1, RingRange
    <3>2. h \in IqSlot /\ IqPos(h) = 0
      BY <1>1, <3>1 DEF IqSlot, IqPos
    <3>3. 0 < iq.count /\ 0 + 1 = 1
      BY <1>1, <2>1
    <3>4. QED
      BY <3>2, <3>3 DEF IqLine
  <2>3. CASE 1 < c
    <3>1. IqPush => h2 # t
      <4>1. CASE h + c < n
        BY <1>1, <2>1, <2>3, <4>1 DEF RingEnd, RingNext
      <4>2. CASE ~(h + c < n)
        BY <1>1, <1>5, <2>1, <2>3, <4>2 DEF RingEnd, RingNext
      <4>3. QED
        BY <4>1, <4>2
    <3>2. c2 # 0
      BY <1>1, <1>2, <1>10, <2>3
    <3>3. QED
      BY <1>3, <1>7, <1>10, <2>1, <2>2, <2>3, <3>1, <3>2
  <2>4. CASE c = 1 /\ c # n
    <3>1. IqPush /\ c2 = 1
      BY <1>2, <1>5, <1>10, <2>1, <2>4
    <3>2. h2 = t
      BY <1>1, <2>1, <2>4 DEF RingEnd, RingNext
    <3>3. QED
      BY <1>3, <1>6, <1>10, <2>2, <2>4, <3>1, <3>2
  <2>5. CASE c = 1 /\ c = n
    <3>1. ~IqPush /\ c2 = 0
      BY <1>2, <1>5, <1>10, <2>5
    <3>2. QED
      BY <1>3, <1>4, <1>10, <2>2, <2>5, <3>1
  <2>6. QED
    BY <1>1, <2>1, <2>3, <2>4, <2>5
<1>11. QED
  BY <1>8, <1>9, <1>10

RobLine ==
  \A t \in Slot : Live(t) =>
    Wrap(entries[t].pc + 4) =
      IF RingPos(ROB_SIZE, head, t) + 1 < count THEN entries[RingNext(ROB_SIZE, t)].pc ELSE NextPc

LEMMA RobLineStep ==
  ASSUME TInv, IqLine, RobOK, BranchResolvesInFlight, RobLine, Clock, ~flush
  PROVE  RobLine'
<1> PICK n, h, h2, c, c2, dd, cc, np2 :
      /\ n = ROB_SIZE /\ h = head /\ h2 = head' /\ c = count /\ c2 = count' /\ np2 = NextPc'
      /\ dd = (IF dispatch THEN 1 ELSE 0) /\ cc = (IF commit THEN 1 ELSE 0)
  OBVIOUS
<1>0. /\ n \in Nat \ {0} /\ h \in 0 .. n - 1 /\ c \in 0 .. n /\ dd \in {0, 1} /\ cc \in {0, 1}
      /\ Slot = 0 .. n - 1
  BY Sizes DEF TInv, RobT, RobOK, Slot
<1>1. c2 = c + dd - cc
  BY RobEdgeFacts
<1>2. np2 = IF dispatch THEN Wrap(iq_instr.pc + 4) ELSE NextPc
  BY NextPcEdge
<1>3. SUFFICES ASSUME NEW t \in Slot, Live(t)'
               PROVE  Wrap(entries'[t].pc + 4) =
                        IF RingPos(n, h2, t) + 1 < c2 THEN entries'[RingNext(n, t)].pc ELSE np2
  BY DEF RobLine, Live
<1>4. CASE dispatch /\ t = tail
  <2>1. RingPos(n, h2, t) = c - cc
    BY <1>4, AgeEdge
  <2>2. ~(RingPos(n, h2, t) + 1 < c2)
    BY <1>0, <1>1, <1>4, <2>1
  <2>3. entries'[t].pc = iq_instr.pc
    BY <1>4, SlotEdge
  <2>4. QED
    BY <1>2, <1>4, <2>2, <2>3
<1>5. CASE ~(dispatch /\ t = tail)
  <2>1. Live(t) /\ ~(commit /\ t = head)
    BY <1>3, <1>5, SlotEdge
  <2>2. entries'[t].pc = entries[t].pc
    BY <1>5, <2>1, SlotEdge
  <2> PICK p, u : p = RingPos(n, h, t) /\ u = RingNext(n, t)
    OBVIOUS
  <2>3. RingPos(n, h2, t) = p - cc
    BY <2>1, AgeEdge
  <2>4. p \in 0 .. n - 1 /\ p < c /\ u \in Slot
    <3>1. RingPos(n, h, t) \in 0 .. n - 1 /\ RingNext(n, t) \in 0 .. n - 1
      BY <1>0, RingRange
    <3>2. QED
      BY <1>0, <2>1, <3>1 DEF RobOK
  <2>5. RingPos(n, h, u) = IF p = n - 1 THEN 0 ELSE p + 1
    BY <1>0, RingSucc
  <2>6. Wrap(entries[t].pc + 4) = IF p + 1 < c THEN entries[u].pc ELSE NextPc
    BY <2>1 DEF RobLine
  <2>7. CASE p + 1 < c
    <3>1. RingPos(n, h, u) = p + 1
      BY <1>0, <2>4, <2>5, <2>7
    <3>2. Live(u) /\ u # head
      <4>1. u = h => RingPos(n, h, u) = 0
        BY <1>0, <2>4, RingRange
      <4>2. u # h
        BY <2>4, <3>1, <4>1
      <4>3. QED
        BY <2>4, <2>7, <3>1, <4>2 DEF RobOK
    <3>3. entries'[u].pc = entries[u].pc
      BY <2>4, <3>2, RobPorts, SlotEdge
    <3>4. RingPos(n, h2, t) + 1 < c2
      BY <1>0, <1>1, <2>3, <2>4, <2>7
    <3>5. QED
      BY <2>2, <2>6, <2>7, <3>3, <3>4
  <2>8. CASE ~(p + 1 < c) /\ dispatch
    <3>1. p + 1 = c /\ c < n /\ p # n - 1
      BY <1>0, <2>4, <2>8, RobPorts
    <3>2. RingPos(n, h, u) = c /\ c \in 0 .. n - 1
      BY <1>0, <2>5, <3>1
    <3>3. u = tail
      <4>1. RingPos(n, h, u) = c <=> u = RingEnd(n, h, c)
        <5>1. n \in Nat \ {0} /\ h \in 0 .. n - 1 /\ u \in 0 .. n - 1 /\ c \in 0 .. n - 1
          BY <1>0, <2>4, <3>2
        <5>2. QED
          BY ONLY <5>1, RingAt
      <4>2. QED
        BY <3>2, <4>1 DEF RobOK
    <3>4. entries'[u].pc = iq_instr.pc
      BY <2>4, <2>8, <3>3, SlotEdge
    <3>5. NextPc = iq_instr.pc
      BY <2>8, RobPorts DEF NextPc
    <3>6. RingPos(n, h2, t) + 1 < c2
      BY <1>0, <1>1, <2>3, <2>4, <2>8, <3>1
    <3>7. QED
      BY <2>2, <2>6, <2>8, <3>4, <3>5, <3>6
  <2>9. CASE ~(p + 1 < c) /\ ~dispatch
    <3>1. ~(RingPos(n, h2, t) + 1 < c2)
      BY <1>0, <1>1, <2>3, <2>4, <2>9
    <3>2. QED
      BY <1>2, <2>2, <2>6, <2>9, <3>1
  <2>10. QED
    BY <2>7, <2>8, <2>9
<1>6. QED
  BY <1>4, <1>5

(* A run of the program. *)
Chain(s) == \A i \in 1 .. Len(s) - 1 : s[i + 1] = Wrap(s[i] + 4)

LEMMA ChainJoin ==
  ASSUME NEW s \in Seq(Word), NEW t \in Seq(Word), Chain(s), Chain(t),
         Len(s) > 0 /\ Len(t) > 0 => t[1] = Wrap(s[Len(s)] + 4)
  PROVE  /\ s \o t \in Seq(Word) /\ Chain(s \o t) /\ Len(s \o t) = Len(s) + Len(t)
         /\ Len(t) > 0 => (s \o t)[Len(s \o t)] = t[Len(t)]
         /\ Len(t) = 0 => s \o t = s
<1> PICK r, m, k : r = s \o t /\ m = Len(s) /\ k = Len(t)
  OBVIOUS
<1>1. /\ r \in Seq(Word) /\ Len(r) = m + k /\ m \in Nat /\ k \in Nat
      /\ \A i \in 1 .. m : r[i] = s[i]
      /\ \A i \in 1 .. m + k : i > m => r[i] = t[i - m]
  OBVIOUS
<1>2. k = 0 => r = s
  BY <1>1
<1>3. k > 0 => r[m + k] = t[k]
  <2>1. k > 0 => m + k \in 1 .. m + k /\ m + k > m /\ (m + k) - m = k
    BY <1>1
  <2>2. QED
    BY <1>1, <2>1
<1>4. ASSUME NEW i \in 1 .. m + k - 1 PROVE r[i + 1] = Wrap(r[i] + 4)
  <2>1. CASE i < m
    <3>1. i \in 1 .. m - 1 /\ i \in 1 .. m /\ i + 1 \in 1 .. m
      BY <1>1, <2>1
    <3>2. QED
      BY <1>1, <3>1 DEF Chain
  <2>2. CASE i = m
    <3>1. m \in 1 .. m /\ m > 0 /\ k > 0 /\ m + 1 \in 1 .. m + k /\ (m + 1) - m = 1 /\ m + 1 > m
      BY <1>1, <2>2
    <3>2. r[m + 1] = t[1] /\ r[m] = s[m]
      BY <1>1, <3>1
    <3>3. QED
      BY <2>2, <3>1, <3>2
  <2>3. CASE i > m
    <3> PICK j : j = i - m
      OBVIOUS
    <3>1. j \in 1 .. k - 1 /\ i \in 1 .. m + k /\ i + 1 \in 1 .. m + k /\ (i + 1) - m = j + 1
          /\ i + 1 > m
      BY <1>1, <2>3
    <3>2. r[i] = t[j] /\ r[i + 1] = t[j + 1]
      BY <1>1, <2>3, <3>1
    <3>3. QED
      BY <3>1, <3>2 DEF Chain
  <2>4. QED
    BY <1>1, <2>1, <2>2, <2>3
<1>5. QED
  BY <1>1, <1>2, <1>3, <1>4 DEF Chain

(* Reading a ring from its head on. *)
LEMMA RingRead ==
  ASSUME NEW n \in Nat \ {0}, NEW h \in 0 .. n - 1, NEW c \in 0 .. n, NEW i \in 1 .. c
  PROVE  /\ (h + i - 1) % n = RingEnd(n, h, i - 1)
         /\ RingEnd(n, h, i - 1) \in 0 .. n - 1
         /\ RingPos(n, h, RingEnd(n, h, i - 1)) = i - 1
         /\ i < c => (h + i) % n = RingNext(n, RingEnd(n, h, i - 1))
<1> PICK k, p : k = i - 1 /\ p = RingEnd(n, h, k)
  OBVIOUS
<1>1. k \in 0 .. n - 1 /\ h + i - 1 = h + k
  OBVIOUS
<1>2. (h + k) % n = RingEnd(n, h, k)
  BY ONLY <1>1, n \in Nat \ {0}, h \in 0 .. n - 1, RingMod
<1>3. (h + i - 1) % n = p
  BY <1>1, <1>2
<1>4. p \in 0 .. n - 1
  BY ONLY <1>1, p = RingEnd(n, h, k), n \in Nat \ {0}, h \in 0 .. n - 1 DEF RingEnd
<1>5. RingPos(n, h, p) = k
  BY ONLY <1>1, p = RingEnd(n, h, k), <1>4, n \in Nat \ {0}, h \in 0 .. n - 1, RingAt
<1>6. ASSUME i < c PROVE (h + i) % n = RingNext(n, p)
  <2>1. i \in 0 .. n - 1 /\ i = k + 1
    BY <1>6
  <2>2. (h + i) % n = RingEnd(n, h, i)
    BY ONLY <2>1, n \in Nat \ {0}, h \in 0 .. n - 1, RingMod
  <2>3. RingEnd(n, h, k + 1) = RingNext(n, RingEnd(n, h, k))
    BY ONLY <1>1, n \in Nat \ {0}, h \in 0 .. n - 1 DEF RingEnd, RingNext
  <2>4. QED
    BY <2>1, <2>2, <2>3
<1>7. QED
  BY <1>3, <1>4, <1>5, <1>6

LEMMA RobPcsChain ==
  ASSUME TInv, RobOK, RobLine
  PROVE  /\ RobPcs \in Seq(Word) /\ Len(RobPcs) = count /\ Chain(RobPcs)
         /\ count > 0 => Wrap(RobPcs[count] + 4) = NextPc
<1> PICK n, h, c : n = ROB_SIZE /\ h = head /\ c = count
  OBVIOUS
<1>0. n \in Nat \ {0} /\ h \in 0 .. n - 1 /\ c \in 0 .. n /\ Slot = 0 .. n - 1 /\ TagSpan = n
  BY Sizes DEF TInv, RobT, RobOK, Slot
<1>1. ASSUME NEW i \in 1 .. c, NEW p, p = (h + i - 1) % n
      PROVE  /\ p \in Slot /\ RingPos(n, h, p) = i - 1
             /\ i < c => (h + i) % n = RingNext(n, p)
  <2>1. n \in Nat \ {0} /\ h \in 0 .. n - 1 /\ c \in 0 .. n /\ i \in 1 .. c
    BY <1>0
  <2>2. /\ (h + i - 1) % n = RingEnd(n, h, i - 1)
        /\ RingEnd(n, h, i - 1) \in 0 .. n - 1
        /\ RingPos(n, h, RingEnd(n, h, i - 1)) = i - 1
        /\ i < c => (h + i) % n = RingNext(n, RingEnd(n, h, i - 1))
    BY ONLY <2>1, RingRead
  <2>3. p = RingEnd(n, h, i - 1)
    BY <1>1, <2>2
  <2>4. QED
    BY <1>0, <2>2, <2>3
<1>2. RobPcs = [i \in 1 .. c |-> entries[(h + i - 1) % n].pc]
  BY <1>0 DEF RobPcs
<1>3. \A i \in 1 .. c : entries[(h + i - 1) % n].pc \in Word
  BY <1>1 DEF TInv, RobT, RobEntry
<1>4. RobPcs \in Seq(Word) /\ Len(RobPcs) = c
  BY <1>0, <1>2, <1>3
<1>5. ASSUME NEW i \in 1 .. c
      PROVE  /\ i < c => RobPcs[i + 1] = Wrap(RobPcs[i] + 4)
             /\ i = c => Wrap(RobPcs[i] + 4) = NextPc
  <2> PICK p : p = (h + i - 1) % n
    OBVIOUS
  <2>1. /\ p \in Slot /\ RingPos(n, h, p) = i - 1 /\ (i < c => (h + i) % n = RingNext(n, p))
    BY <1>1
  <2>2. Live(p)
    BY <1>0, <2>1 DEF RobOK
  <2>3. RobPcs[i] = entries[p].pc
    BY <1>2
  <2>4. Wrap(entries[p].pc + 4) = IF i < c THEN entries[RingNext(n, p)].pc ELSE NextPc
    <3>1. (i - 1) + 1 = i
      BY <1>0
    <3>2. QED
      BY <2>1, <2>2, <3>1 DEF RobLine
  <2>5. i < c => RobPcs[i + 1] = entries[RingNext(n, p)].pc
    <3>1. i < c => i + 1 \in 1 .. c /\ h + (i + 1) - 1 = h + i
      BY <1>0
    <3>2. QED
      BY <1>2, <2>1, <3>1
  <2>6. QED
    BY <1>0, <2>3, <2>4, <2>5
<1>6. Chain(RobPcs)
  <2>1. \A i \in 1 .. c - 1 : i \in 1 .. c /\ i < c
    BY <1>0
  <2>2. QED
    BY <1>4, <1>5, <2>1 DEF Chain
<1>7. c > 0 => Wrap(RobPcs[c] + 4) = NextPc
  BY <1>0, <1>5
<1>8. QED
  BY <1>4, <1>6, <1>7

LEMMA IqPcsChain ==
  ASSUME TInv, IqLine
  PROVE  /\ IqPcs \in Seq(Word) /\ Len(IqPcs) = iq.count /\ Chain(IqPcs)
         /\ iq.count > 0 => IqPcs[1] = NextPc /\ Wrap(IqPcs[iq.count] + 4) = fetch.pc_d
         /\ \A i \in 1 .. iq.count : \A d : d = iq.entries[(iq.head + i - 1) % IQ_DEPTH] =>
              d = decode(imem[WordIndex(d.pc)], d.pc)
<1> PICK n, h, c, es : n = IQ_DEPTH /\ h = iq.head /\ c = iq.count /\ es = iq.entries
  OBVIOUS
<1>0. /\ n \in Nat \ {0} /\ h \in 0 .. n - 1 /\ c \in 0 .. n /\ IqSlot = 0 .. n - 1
      /\ es \in [0 .. n - 1 -> Decoded]
  BY Sizes DEF TInv, FetchT, IqSlot
<1>1. ASSUME NEW i \in 1 .. c, NEW p, p = (h + i - 1) % n
      PROVE  /\ p \in IqSlot /\ RingPos(n, h, p) = i - 1
             /\ i < c => (h + i) % n = RingNext(n, p)
  <2>1. n \in Nat \ {0} /\ h \in 0 .. n - 1 /\ c \in 0 .. n /\ i \in 1 .. c
    BY <1>0
  <2>2. /\ (h + i - 1) % n = RingEnd(n, h, i - 1)
        /\ RingEnd(n, h, i - 1) \in 0 .. n - 1
        /\ RingPos(n, h, RingEnd(n, h, i - 1)) = i - 1
        /\ i < c => (h + i) % n = RingNext(n, RingEnd(n, h, i - 1))
    BY ONLY <2>1, RingRead
  <2>3. p = RingEnd(n, h, i - 1)
    BY <1>1, <2>2
  <2>4. QED
    BY <1>0, <2>2, <2>3
<1>2. IqPcs = [i \in 1 .. c |-> es[(h + i - 1) % n].pc]
  BY DEF IqPcs
<1>3. ASSUME NEW i \in 1 .. c PROVE es[(h + i - 1) % n].pc \in Word
  <2> PICK p : p = (h + i - 1) % n
    OBVIOUS
  <2>1. p \in IqSlot
    BY <1>1
  <2>2. es[p] \in Decoded
    BY <1>0, <2>1
  <2>3. QED
    BY <2>2 DEF Decoded
<1>4. IqPcs \in Seq(Word) /\ Len(IqPcs) = c
  <2>1. IqPcs \in [1 .. c -> Word] /\ c \in Nat
    BY <1>0, <1>2, <1>3
  <2>2. QED
    BY ONLY <2>1
<1>5. ASSUME NEW i \in 1 .. c, NEW p, p = (h + i - 1) % n
      PROVE  /\ i < c => IqPcs[i + 1] = Wrap(IqPcs[i] + 4)
             /\ i = c => Wrap(IqPcs[i] + 4) = fetch.pc_d
             /\ es[p] = decode(imem[WordIndex(es[p].pc)], es[p].pc)
             /\ IqPcs[i] = es[p].pc
  <2>1. /\ p \in IqSlot /\ IqPos(p) = i - 1 /\ (i < c => (h + i) % n = RingNext(n, p))
    BY <1>1, <1>5 DEF IqPos
  <2>2. IqPos(p) < iq.count /\ (i - 1) + 1 = i
    BY <1>0, <2>1
  <2>3. IqPcs[i] = es[p].pc
    BY <1>2, <1>5
  <2>4. /\ es[p] = decode(imem[WordIndex(es[p].pc)], es[p].pc)
        /\ Wrap(es[p].pc + 4) = IF i < c THEN es[RingNext(n, p)].pc ELSE fetch.pc_d
    BY <2>1, <2>2 DEF IqLine
  <2>5. i < c => IqPcs[i + 1] = es[RingNext(n, p)].pc
    <3>1. i < c => i + 1 \in 1 .. c /\ h + (i + 1) - 1 = h + i
      BY <1>0
    <3>2. QED
      BY <1>2, <2>1, <3>1
  <2>6. QED
    BY <1>0, <2>3, <2>4, <2>5
<1>6. Chain(IqPcs)
  <2>1. \A i \in 1 .. c - 1 : i \in 1 .. c /\ i < c
    BY <1>0
  <2>2. QED
    BY <1>4, <1>5, <2>1 DEF Chain
<1>7. c > 0 => Wrap(IqPcs[c] + 4) = fetch.pc_d
  BY <1>0, <1>5
<1>8. ASSUME c > 0 PROVE IqPcs[1] = NextPc
  <2> PICK i, p : i = 1 /\ p = (h + i - 1) % n
    OBVIOUS
  <2>1. i \in 1 .. c
    BY <1>0, <1>8
  <2>2. p \in 0 .. n - 1 /\ RingPos(n, h, p) = 0
    BY <1>0, <1>1, <2>1
  <2>3. p = h
    BY <1>0, <2>2, RingRange
  <2>4. IqPcs[i] = es[p].pc
    BY <1>5, <2>1
  <2>5. QED
    BY <1>0, <1>8, <2>3, <2>4 DEF NextPc, iq_instr
<1>9. QED
  BY <1>4, <1>5, <1>6, <1>7, <1>8

LEMMA StraightLineMeans ==
  ASSUME TInv, RobOK, IqLine, RobLine
  PROVE  StraightLine
<1> PICK A, B, C, D, AB, ABC :
      /\ A = RobPcs /\ B = IqPcs /\ C = (IF fetch.valid THEN <<fetch.pc_d>> ELSE <<>>)
      /\ D = <<fetch.pc>> /\ AB = A \o B /\ ABC = AB \o C
  OBVIOUS
<1>1. /\ A \in Seq(Word) /\ Len(A) = count /\ Chain(A) /\ count \in Nat
      /\ count > 0 => Wrap(A[count] + 4) = NextPc
  BY RobPcsChain DEF RobOK
<1>2. /\ B \in Seq(Word) /\ Len(B) = iq.count /\ Chain(B) /\ iq.count \in Nat
      /\ iq.count > 0 => B[1] = NextPc /\ Wrap(B[iq.count] + 4) = fetch.pc_d
  BY IqPcsChain DEF TInv, FetchT
<1>3. fetch.pc \in Word /\ fetch.pc_d \in Word /\ fetch.valid \in BOOLEAN
  BY DEF TInv, FetchT
<1>4. /\ C \in Seq(Word) /\ Chain(C) /\ (fetch.valid => Len(C) = 1 /\ C[1] = fetch.pc_d)
      /\ ~fetch.valid => Len(C) = 0
  BY <1>3 DEF Chain
<1>5. D \in Seq(Word) /\ Chain(D) /\ Len(D) = 1 /\ D[1] = fetch.pc
  BY <1>3 DEF Chain
<1>6. /\ AB \in Seq(Word) /\ Chain(AB) /\ Len(AB) = count + iq.count
      /\ iq.count > 0 => AB[Len(AB)] = B[iq.count]
      /\ iq.count = 0 => AB = A
  <2>1. Len(A) > 0 /\ Len(B) > 0 => B[1] = Wrap(A[Len(A)] + 4)
    BY <1>1, <1>2
  <2>2. /\ A \o B \in Seq(Word) /\ Chain(A \o B) /\ Len(A \o B) = Len(A) + Len(B)
        /\ Len(B) > 0 => (A \o B)[Len(A \o B)] = B[Len(B)]
        /\ Len(B) = 0 => A \o B = A
    BY ONLY <1>1, <1>2, <2>1, ChainJoin
  <2>3. QED
    BY ONLY <1>1, <1>2, <2>2, AB = A \o B
<1>7. ASSUME Len(AB) > 0
      PROVE  Wrap(AB[Len(AB)] + 4) = IF iq.count > 0 THEN fetch.pc_d ELSE NextPc
  <2>1. CASE iq.count > 0
    BY <1>2, <1>6, <2>1
  <2>2. CASE iq.count = 0
    <3>1. AB = A /\ Len(AB) = count /\ count > 0
      BY <1>1, <1>6, <1>7, <2>2
    <3>2. QED
      BY <1>1, <2>2, <3>1
  <2>3. iq.count \in Nat
    BY <1>2
  <2>4. iq.count > 0 \/ iq.count = 0
    BY ONLY <2>3
  <2>5. QED
    BY <2>1, <2>2, <2>4
<1>8. iq.count = 0 => NextPc = IF fetch.valid THEN fetch.pc_d ELSE fetch.pc
  BY DEF NextPc
<1>9. Len(AB) > 0 /\ Len(C) > 0 => C[1] = Wrap(AB[Len(AB)] + 4)
  BY <1>2, <1>4, <1>7, <1>8
<1>10. /\ ABC \in Seq(Word) /\ Chain(ABC) /\ Len(ABC) = Len(AB) + Len(C)
       /\ Len(C) > 0 => ABC[Len(ABC)] = C[Len(C)]
       /\ Len(C) = 0 => ABC = AB
  BY <1>4, <1>6, <1>9, ChainJoin
<1>11. Len(ABC) > 0 /\ Len(D) > 0 => D[1] = Wrap(ABC[Len(ABC)] + 4)
  <2>1. CASE fetch.valid
    BY <1>4, <1>5, <1>10, <2>1 DEF IqLine
  <2>2. CASE ~fetch.valid
    <3>1. iq.count = 0
      BY <2>2 DEF IqLine
    <3>2. QED
      BY <1>4, <1>5, <1>7, <1>8, <1>10, <2>2, <3>1
  <2>3. QED
    BY <2>1, <2>2
<1>12. Chain(ABC \o D)
  BY <1>5, <1>10, <1>11, ChainJoin
<1>13. Pcs = ABC \o D
  BY DEF Pcs
<1>14. \A i \in 1 .. iq.count : \A d : d = iq.entries[(iq.head + i - 1) % IQ_DEPTH] =>
              d = decode(imem[WordIndex(d.pc)], d.pc)
  BY IqPcsChain
<1>15. fetch.valid => instr_raw = imem[WordIndex(fetch.pc_d)]
  BY DEF IqLine
<1>16. QED
  BY <1>12, <1>13, <1>14, <1>15 DEF StraightLine, Chain

LEMMA RobLineNext ==
  ASSUME Base, Owned, RobLine, [Clock]_vars
  PROVE  RobLine'
<1>1. CASE Clock /\ flush
  <2>1. \A t \in Slot : ~Live(t)'
    BY <1>1, FlushClears DEF Base
  <2>2. QED
    BY <2>1 DEF RobLine
<1>2. CASE Clock /\ ~flush
  BY <1>2, RobLineStep, BranchInFlight DEF Base, Owned
<1>3. CASE UNCHANGED vars
  <2>1. NextPc' = NextPc
    BY <1>3, Unchanged DEF NextPc, iq_instr
  <2>2. QED
    BY <1>3, <2>1, Unchanged DEF RobLine, Live
<1>4. QED
  BY <1>1, <1>2, <1>3

(* As long as no slot is dispatched to while the result of the branch it   *)
(* held before still waits for the bus, nothing is fetched twice, skipped  *)
(* or carried over a flush: from the oldest unretired instruction to the   *)
(* fetch pc the machine holds a straight run of the program, whatever the  *)
(* depth of the queue and the stalls of fetch (cpu.sv imem_read_pc,        *)
(* instr_queue.sv, rob.sv).                                                *)
THEOREM MachineHoldsAStraightLine == Spec /\ []NoTagReuse => []StraightLine
<1>1. Init => RobLine
  <2>1. Init => \A t \in Slot : ~Live(t)
    BY RobNames DEF Init, ROB!RobInit, ZeroRobEntry, Live
  <2>2. QED
    BY <2>1 DEF RobLine
<1>2. Base /\ Owned /\ RobLine /\ [Clock]_vars => RobLine'
  BY RobLineNext
<1>3. Base /\ Owned /\ RobLine => StraightLine
  BY StraightLineMeans DEF Base, Owned
<1>4. QED
  BY <1>1, <1>2, <1>3, Ownership, PTL DEF Spec
-----------------------------------------------------------------------------
(* A class of programs that meets the hypothesis: no conditional branches. *)
(* A jump flushes the machine when it retires, its own result included, so *)
(* that only the branch that is not taken can leave one behind.            *)

NoBranches == \A w \in Address : imem[w].op \notin BranchOps

(* A branch or jump in flight is in the branch station or its unit. *)
BranchPlace == \A p \in Place : Held(p) /\ entries[TagOf(p)].is_branch => p[2] = "br"

DoneBranch(t) == entries[t].state = "DONE" /\ entries[t].is_branch

JumpsOnly ==
  /\ NoBranches
  /\ instr_raw.op \notin BranchOps
  /\ \A i \in IqSlot : iq.entries[i].op \notin BranchOps
  /\ \A t \in Slot : Live(t) => entries[t].op \notin BranchOps
  /\ BranchPlace
  /\ br.valid => br.taken
  /\ \A t \in Slot : DoneBranch(t) => entries[t].branch_taken
  /\ br_cdb.valid /\ count # 0 => DoneBranch(br_cdb.tag)

LEMMA JumpsOnlyInit ==
  ASSUME Init, NoBranches
  PROVE  JumpsOnly
<1>1. instr_raw = ZeroRaw /\ \A i \in IqSlot : iq.entries[i] = decode(ZeroRaw, 0)
  BY DEF Init, FetchInit, EmptyQueue, IqSlot
<1>2. ZeroRaw.op = "NOP" /\ decode(ZeroRaw, 0).op = "NOP"
  BY DEF ZeroRaw, decode
<1>3. "NOP" \notin BranchOps
  BY DEF BranchOps
<1>4. \A t \in Slot : entries[t].state = "IDLE"
  BY RobNames DEF Init, ROB!RobInit, ZeroRobEntry
<1>5. \A p \in Place : ~Held(p)
  <2>1. TInv /\ RobOK /\ HeldInFlight /\ count = 0
    BY InitT, OwnedInit DEF Owned, Init, ROB!RobInit
  <2>2. QED
    BY <2>1, NothingHeld
<1>6. ~br.valid /\ ~br_cdb.valid
  BY DEF Init, UnitInit, ZeroBr, ZeroBus
<1>7. QED
  BY <1>1, <1>2, <1>3, <1>4, <1>5, <1>6 DEF JumpsOnly, BranchPlace, DoneBranch, Live

(* In an empty machine the latch of the branch unit has the bus, unless    *)
(* that of the arithmetic unit has it.                                     *)
LEMMA EmptyBusBranch ==
  ASSUME TInv, RobOK, HeldInFlight, count = 0, br_cdb.valid, ~alu_cdb.valid
  PROVE  fu_grant("br")
<1>1. 1 \in Fu /\ fu_results(1) = br_cdb
  BY Sizes DEF Fu, fu_results
<1>2. Requests # {}
  BY <1>1 DEF Requests
<1>3. cdb_w.valid
  BY <1>2, CdbTyped
<1>4. PICK u \in Units \cup {"br"} : fu_grant(u)
  BY <1>3, GrantFacts
<1>5. fu_results(FuOf[u]).valid
  BY <1>4, GrantFacts
<1>6. CASE u \in Units
  <2>1. u = "alu"
    BY <1>5, <1>6, OutputFacts, NothingHeld
  <2>2. QED
    BY <1>5, <2>1, FuOfIs
<1>7. QED
  BY <1>4, <1>6

(* The result of a jump leaves before the slot is dispatched to again. *)
LEMMA JumpsReuseNothing ==
  ASSUME TInv, Owned, JumpsOnly
  PROVE  NoTagReuse
<1> SUFFICES ASSUME br_cdb.valid, ~fu_grant("br"), dispatch PROVE br_cdb.tag # tail
  BY DEF NoTagReuse
<1>1. RobOK /\ HeldInFlight
  BY DEF Owned
<1>2. CASE count = 0
  <2>1. iq.count # 0
    BY <1>1, RobPorts
  <2>2. ~alu_cdb.valid
    BY <1>2, <2>1 DEF Owned, Drained
  <2>3. QED
    BY <1>1, <1>2, <2>2, EmptyBusBranch
<1>3. CASE count # 0
  <2>1. Live(br_cdb.tag)
    BY <1>3 DEF JumpsOnly, DoneBranch, Live
  <2>2. QED
    BY <1>1, <2>1, RobPorts
<1>4. QED
  BY <1>2, <1>3

(* To(p) is in the unit of p. *)
LEMMA ToKeepsUnit ==
  ASSUME TInv, NEW p \in Place, Held(p), ~Leaving(p), NEW q, q = To(p)
  PROVE  q[2] = p[2]
<1>1. CASE \E s \in Station : \E i \in busy[s] : p = <<"station", s, i>>
  <2>1. PICK s \in Station : \E i \in busy[s] : p = <<"station", s, i>>
    BY <1>1
  <2>2. PICK i \in busy[s] : p = <<"station", s, i>>
    BY <2>1
  <2>3. q = Exit(s) \/ q = p
    BY <2>2, ToIs
  <2>4. Exit(s)[2] = s
    BY ToIs DEF Station, Pipe, AluPlace, BrPlace, DivPlace
  <2>5. QED
    BY <2>2, <2>3, <2>4
<1>2. CASE \E u \in Pipe : \E k \in 1 .. PipeDepth[u] : pipe[u][k].valid /\ p = <<"stage", u, k>>
  <2>1. PICK u \in Pipe : \E k \in 1 .. PipeDepth[u] : p = <<"stage", u, k>>
    BY <1>2
  <2>2. PICK k \in 1 .. PipeDepth[u] : p = <<"stage", u, k>>
    BY <2>1
  <2>3. q = <<"stage", u, k + 1>> \/ q = <<"stage", u, k>>
    BY <2>2, ToIs
  <2>4. QED
    BY <2>2, <2>3
<1>3. CASE \E i \in lsb.valid \ lsb.notified : p = <<"lsb", "lsb", i>>
  <2>1. PICK i \in lsb.valid \ lsb.notified : p = <<"lsb", "lsb", i>>
    BY <1>3
  <2>2. q = LoadPlace \/ q = p
    BY <2>1, ToIs
  <2>3. QED
    BY <2>1, <2>2 DEF LoadPlace
<1>4. CASE p \in {AluPlace, LatchPlace, DivPlace, LoadPlace}
  BY <1>4, ToIs DEF AluPlace, LatchPlace, DivPlace, LoadPlace
<1>5. CASE p = BrPlace
  BY <1>5, LeavingIs
<1>6. QED
  BY <1>1, <1>2, <1>3, <1>4, <1>5, HeldCases

LEMMA BranchPlaceStep ==
  ASSUME TInv, LsbShape, LsbKind, Owned, BranchPlace, Clock
  PROVE  BranchPlace'
<1> SUFFICES ASSUME NEW q \in Place, Held(q)', entries'[TagOf(q)'].is_branch PROVE q[2] = "br"
  BY DEF BranchPlace
<1>1. ~flush
  BY FlushClears
<1>2. RobOK /\ HeldInFlight /\ Drained /\ BranchResolvesInFlight
  BY BranchInFlight DEF Owned
<1>3. CASE dispatch /\ q = NewPlace /\ TagOf(q)' = tail
  <2>1. tail \in Slot
    BY DEF TInv, RobT
  <2>2. iq_instr.op \in BranchOps \cup JumpOps
    BY <1>1, <1>2, <1>3, <2>1, SlotEdge
  <2>3. iq_instr.op \in Opcode
    BY DEF iq_instr, TInv, FetchT, Decoded
  <2>4. target(iq_instr.op) = "br"
    BY <2>2, <2>3, TargetFacts
  <2>5. QED
    BY <1>3, <2>4 DEF NewPlace
<1>4. CASE \E p \in Place : Held(p) /\ ~Leaving(p) /\ To(p) = q /\ TagOf(q)' = TagOf(p)
  <2>1. PICK p \in Place : Held(p) /\ ~Leaving(p) /\ To(p) = q /\ TagOf(q)' = TagOf(p)
    BY <1>4
  <2> PICK t : t = TagOf(p)
    OBVIOUS
  <2>2. t \in Slot /\ InFlight(t) /\ ~(dispatch /\ t = tail) /\ ~(commit /\ t = head)
    BY <1>1, <2>1, StaysInFlight
  <2>3. entries[t].is_branch
    BY <1>1, <1>2, <2>1, <2>2, SlotEdge
  <2>4. p[2] = "br"
    BY <2>1, <2>3 DEF BranchPlace
  <2>5. QED
    BY <2>1, <2>4, ToKeepsUnit
<1>5. QED
  BY <1>1, <1>2, <1>3, <1>4, ComesFrom

(* The bus never finishes a branch: its outcome has come before. *)
LEMMA BusFinishesNoBranch ==
  ASSUME TInv, Owned, BranchPlace, NEW t \in Slot, InFlight(t), entries[t].is_branch,
         cdb_w.valid, cdb_w.tag = t
  PROVE  br.valid /\ br.tag = t
<1>1. count # 0
  BY NothingHeld DEF Owned
<1>2. ~(br_cdb.valid /\ cdb_w.tag = br_cdb.tag)
  BY DEF Owned, LateBranch
<1>3. PICK p \in Place : Held(p) /\ Leaving(p) /\ TagOf(p) = t
  BY <1>1, <1>2, BusTakes
<1>4. p[2] = "br"
  BY <1>3 DEF BranchPlace
<1>5. ASSUME NEW u \in Units PROVE Output(u)[2] # "br"
  <2>1. CASE u \in Pipe
    BY <2>1, OutputIs DEF Pipe
  <2>2. CASE u \in {"alu", "fp_div"}
    BY <2>2, OutputIs DEF LatchPlace, DivPlace
  <2>3. CASE u = "lsb"
    BY <2>3, OutputIs DEF LoadPlace
  <2>4. QED
    BY <2>1, <2>2, <2>3 DEF Units, Pipe
<1>6. p = BrPlace
  BY <1>3, <1>4, <1>5 DEF Leaving
<1>7. QED
  BY <1>3, <1>6, HeldIs

(* What an edge does to the outcome of a branch. *)
LEMMA DoneBranchStep ==
  ASSUME TInv, Owned, JumpsOnly, Clock, ~flush, NEW t \in Slot, DoneBranch(t)'
  PROVE  entries'[t].branch_taken
<1> PICK e, e2 : e = entries[t] /\ e2 = entries'[t]
  OBVIOUS
<1>0. e \in RobEntry /\ e2.state = "DONE" /\ e2.is_branch
  BY DEF TInv, RobT, DoneBranch
<1>1. e2 = ROB!NextEntry(t, dispatch, iq_instr, cdb_w, br, commit)
  BY RobEdgeFacts
<1>2. CASE commit /\ t = head
  <2>1. e2 = [e EXCEPT !.state = "IDLE"]
    BY <1>1, <1>2 DEF ROB!NextEntry, ROB!Retired
  <2>2. e2.state = "IDLE"
    BY <1>0, <2>1 DEF RobEntry
  <2>3. QED
    BY <1>0, <2>2
<1>3. CASE ~(commit /\ t = head) /\ dispatch /\ t = tail
  <2>1. e2 = ROB!Allocated(iq_instr)
    BY <1>1, <1>3 DEF ROB!NextEntry
  <2>2. e2.state = "IN_FLIGHT"
    BY <2>1 DEF ROB!Allocated
  <2>3. QED
    BY <1>0, <2>2
<1>4. CASE ~(commit /\ t = head) /\ ~(dispatch /\ t = tail)
  <2>1. CASE br.valid /\ t = br.tag /\ e.is_branch
    <3>1. e2 = [e EXCEPT !.branch_taken = br.taken, !.branch_target = br.target, !.state = "DONE"]
      BY <1>1, <1>4, <2>1 DEF ROB!NextEntry, ROB!Resolved
    <3>2. e2.branch_taken = br.taken
      BY <1>0, <3>1 DEF RobEntry
    <3>3. QED
      BY <2>1, <3>2 DEF JumpsOnly
  <2>2. CASE ~(br.valid /\ t = br.tag /\ e.is_branch) /\ cdb_w.valid /\ t = cdb_w.tag
             /\ e.state = "IN_FLIGHT"
    <3>1. e2 = [e EXCEPT !.result = cdb_w.value, !.state = "DONE"]
      BY <1>1, <1>4, <2>2 DEF ROB!NextEntry, ROB!Written
    <3>2. e.is_branch
      BY <1>0, <3>1 DEF RobEntry
    <3>3. br.valid /\ br.tag = t
      BY <2>2, <3>2, BusFinishesNoBranch DEF JumpsOnly, InFlight
    <3>4. QED
      BY <2>2, <3>2, <3>3
  <2>3. CASE ~(br.valid /\ t = br.tag /\ e.is_branch)
             /\ ~(cdb_w.valid /\ t = cdb_w.tag /\ e.state = "IN_FLIGHT")
    <3>1. e2 = e
      BY <1>1, <1>4, <2>3 DEF ROB!NextEntry
    <3>2. QED
      BY <1>0, <3>1 DEF JumpsOnly, DoneBranch
  <2>4. QED
    BY <2>1, <2>2, <2>3
<1>5. QED
  BY <1>2, <1>3, <1>4

(* The result that waits for the bus is that of a jump still in its slot: *)
(* when the jump retires, the flush empties the latch.                     *)
LEMMA LateJumpStep ==
  ASSUME TInv, Owned, JumpsOnly, Clock, br_cdb'.valid, count' # 0, NEW t, t = br_cdb'.tag
  PROVE  DoneBranch(t)'
<1>1. ~flush
  BY FlushClears
<1>2. RobOK /\ HeldInFlight /\ BranchResolvesInFlight /\ Kinds
  BY BranchInFlight DEF Owned
<1>3. t \in Slot
  BY UnitStepT DEF UnitT, Bus
<1>4. CASE br.valid /\ count # 0
  <2>1. t = br.tag
    BY <1>1, <1>4, AluBrEdge
  <2>2. Held(BrPlace) /\ BrPlace \in Place /\ TagOf(BrPlace) = t
    BY <1>4, <2>1, HeldIs, PlaceNames
  <2>3. InFlight(t) /\ entries[t].is_branch
    BY <1>2, <1>4, <2>1, <2>2 DEF HeldInFlight, Kinds
  <2>4. Live(t)
    BY <2>3 DEF Live, InFlight
  <2>5. ~(dispatch /\ t = tail) /\ ~(commit /\ t = head)
    BY <1>2, <2>3, <2>4, RobPorts
  <2>6. Finished(t)
    BY <1>4, <2>1, <2>3 DEF Finished
  <2>7. Live(t)' /\ ~InFlight(t)' /\ entries'[t].is_branch
    BY <1>1, <1>2, <1>3, <2>3, <2>4, <2>5, <2>6, SlotEdge
  <2>8. entries'[t] \in RobEntry
    BY <1>3, RobStepT DEF RobT
  <2>9. QED
    BY <2>7, <2>8 DEF Live, InFlight, DoneBranch, RobEntry
<1>5. CASE br.valid /\ count = 0
  <2>1. ~dispatch
    BY <1>2, <1>5, RobPorts DEF Owned, Drained
  <2>2. QED
    BY <1>1, <1>2, <1>5, <2>1, EmptyBus
<1>6. CASE ~br.valid
  <2>1. br_cdb.valid /\ ~fu_grant("br") /\ t = br_cdb.tag
    BY <1>1, <1>6, AluBrEdge
  <2>2. CASE count = 0
    <3>1. dispatch
      BY <1>1, <1>2, <2>2, EmptyBus
    <3>2. ~alu_cdb.valid
      BY <1>2, <2>1, <2>2, <3>1, RobPorts DEF Owned, Drained
    <3>3. QED
      BY <1>2, <2>1, <2>2, <3>2, EmptyBusBranch
  <2>3. CASE count # 0
    <3>1. DoneBranch(t) /\ entries[t].branch_taken
      BY <1>3, <2>1, <2>3 DEF JumpsOnly
    <3>2. Live(t) /\ ~InFlight(t)
      BY <3>1 DEF DoneBranch, Live, InFlight
    <3>3. ~(commit /\ t = head)
      BY <1>1, <3>1 DEF flush, retiring, ROB!commit_entry_o, DoneBranch
    <3>4. ~(dispatch /\ t = tail)
      BY <1>2, <3>2, RobPorts
    <3>5. Live(t)' /\ ~InFlight(t)' /\ entries'[t].is_branch
      BY <1>1, <1>2, <1>3, <3>1, <3>2, <3>3, <3>4, SlotEdge DEF DoneBranch
    <3>6. entries'[t] \in RobEntry
      BY <1>3, RobStepT DEF RobT
    <3>7. QED
      BY <3>5, <3>6 DEF Live, InFlight, DoneBranch, RobEntry
  <2>4. QED
    BY <2>2, <2>3
<1>7. QED
  BY <1>4, <1>5, <1>6

LEMMA JumpsOnlyStep ==
  ASSUME Base, Owned, JumpsOnly, [Clock]_vars
  PROVE  JumpsOnly'
<1>1. CASE UNCHANGED vars
  <2>1. ASSUME NEW p PROVE (Held(p)' <=> Held(p)) /\ TagOf(p)' = TagOf(p)
    BY <1>1, Unchanged DEF Held, TagOf, AluPlace, LatchPlace, BrPlace, DivPlace, LoadPlace
  <2>2. BranchPlace'
    BY <1>1, <2>1, Unchanged DEF JumpsOnly, BranchPlace
  <2>3. QED
    BY <1>1, <2>2, Unchanged DEF JumpsOnly, NoBranches, DoneBranch, Live
<1>2. CASE Clock
  <2>0. TInv /\ LsbShape /\ LsbKind /\ RobOK /\ BranchResolvesInFlight /\ Kinds
    BY BranchInFlight DEF Base, Owned
  <2>1. NoBranches'
    BY <1>2 DEF Clock, FetchClock, JumpsOnly, NoBranches
  <2>2. instr_raw'.op \notin BranchOps
    <3>1. imem_read_pc \in Word
      BY <2>0 DEF imem_read_pc, TInv, FetchT
    <3>2. WordIndex(imem_read_pc) \in Address
      BY <3>1, IndexTyped
    <3>3. QED
      BY <1>2, <3>2 DEF Clock, FetchClock, JumpsOnly, NoBranches
  <2>3. ASSUME NEW i \in IqSlot PROVE iq'.entries[i].op \notin BranchOps
    <3>1. decode(instr_raw, fetch.pc_d).op \notin BranchOps /\ iq.entries[i].op \notin BranchOps
      BY DEF JumpsOnly, decode
    <3>2. CASE flush
      <4>1. iq'.entries = iq.entries
        BY <1>2, <2>0, <3>2 DEF Clock, QueueClock, TInv, FetchT
      <4>2. QED
        BY <3>1, <4>1
    <3>3. CASE ~flush
      <4>1. iq'.entries[i] \in {iq.entries[i], decode(instr_raw, fetch.pc_d)}
        BY <1>2, <2>0, <3>3, QueueEdgeFacts DEF TInv, FetchT, IqSlot
      <4>2. QED
        BY <3>1, <4>1
    <3>4. QED
      BY <3>2, <3>3
  <2>4. ASSUME NEW t \in Slot, Live(t)' PROVE entries'[t].op \notin BranchOps
    <3>1. CASE flush
      BY <1>2, <2>0, <2>4, <3>1, FlushClears
    <3>2. CASE ~flush /\ dispatch /\ t = tail
      <4>1. entries'[t].op = iq_instr.op
        BY <1>2, <2>0, <3>2, SlotEdge
      <4>2. iq_instr.op \notin BranchOps
        BY <2>0 DEF JumpsOnly, iq_instr, TInv, FetchT, IqSlot
      <4>3. QED
        BY <4>1, <4>2
    <3>3. CASE ~flush /\ ~(dispatch /\ t = tail)
      <4>1. ~(commit /\ t = head)
        BY <1>2, <2>0, <2>4, <3>3, SlotEdge
      <4>2. Live(t) /\ entries'[t].op = entries[t].op
        BY <1>2, <2>0, <2>4, <3>3, <4>1, SlotEdge
      <4>3. QED
        BY <4>2 DEF JumpsOnly
    <3>4. QED
      BY <3>1, <3>2, <3>3
  <2>5. BranchPlace'
    BY <1>2, <2>0, BranchPlaceStep DEF JumpsOnly
  <2>6. ASSUME br'.valid PROVE br'.taken
    <3> PICK e, i : e = issue_entry_o("br") /\ i = issue_idx("br")
      OBVIOUS
    <3>1. issue("br") /\ br'.taken = taken_next(e)
      BY <1>2, <2>6 DEF Clock, UnitClock, BranchClock, ZeroBr
    <3>2. "br" \in Station /\ i \in busy["br"] /\ e = slots["br"][i] /\ target(e.op) = "br"
          /\ e.op \in Opcode /\ e.rob_tag \in Slot
      BY <2>0, <3>1, IssueTyped DEF Station, issue_entry_o, RsEntry
    <3>3. e.op \in BranchOps \cup JumpOps
      BY <3>2, TargetFacts
    <3>4. i \in Nat
      BY <2>0, <3>2, Sizes DEF TInv, StationT, Slots
    <3> PICK p : p = <<"station", "br", i>>
      OBVIOUS
    <3>5. InFlight(e.rob_tag) /\ entries[e.rob_tag].op = e.op
      <4>1. p \in Place /\ Held(p) /\ TagOf(p) = e.rob_tag
        BY <3>2, <3>4, HeldIs, PlaceNames
      <4>2. InFlight(e.rob_tag)
        BY <4>1 DEF Owned, HeldInFlight
      <4>3. QED
        BY <2>0, <3>2, <4>2 DEF Kinds
    <3>6. e.op \in JumpOps
      BY <3>2, <3>3, <3>5 DEF JumpsOnly, Live, InFlight
    <3>7. taken_next(e)
      BY <3>6 DEF taken_next, JumpOps
    <3>8. QED
      BY <3>1, <3>7
  <2>7. ASSUME NEW t \in Slot, DoneBranch(t)' PROVE entries'[t].branch_taken
    <3>1. CASE flush
      BY <1>2, <2>0, <2>7, <3>1, FlushClears DEF DoneBranch
    <3>2. CASE ~flush
      BY <1>2, <2>0, <2>7, <3>2, DoneBranchStep
    <3>3. QED
      BY <3>1, <3>2
  <2>8. br_cdb'.valid /\ count' # 0 => DoneBranch(br_cdb.tag)'
    <3> SUFFICES ASSUME br_cdb'.valid, count' # 0 PROVE DoneBranch(br_cdb.tag)'
      OBVIOUS
    <3> PICK t : t = br_cdb'.tag
      OBVIOUS
    <3>1. DoneBranch(t)'
      BY <1>2, <2>0, LateJumpStep
    <3>2. QED
      BY <3>1 DEF DoneBranch
  <2>9. QED
    BY <2>1, <2>2, <2>3, <2>4, <2>5, <2>6, <2>7, <2>8 DEF JumpsOnly
<1>3. QED
  BY <1>1, <1>2

(* The hypothesis of the theorems above holds of every program without     *)
(* conditional branches, jumps and loops of jumps included: when a jump    *)
(* retires, the flush takes its own result off the latch, and after it the *)
(* latches drain before fetch has refilled the queue (commit_unit.sv       *)
(* flush, tomasulo_core.sv br_cdb).                                        *)
THEOREM JumpsNeverReuseTags == Spec /\ NoBranches => []NoTagReuse
<1>1. Init /\ NoBranches => Base /\ Owned /\ JumpsOnly
  BY BaseInit, OwnedInit, JumpsOnlyInit
<1>2. Base /\ Owned /\ JumpsOnly => NoTagReuse
  BY JumpsReuseNothing DEF Base
<1>3. Base /\ Owned /\ JumpsOnly /\ [Clock]_vars => (Base /\ Owned /\ JumpsOnly)'
  BY <1>2, BaseStep, OwnedStep, JumpsOnlyStep
<1>4. QED
  BY <1>1, <1>2, <1>3, PTL DEF Spec

(* For these programs, with the sizes of all buffers free, the core keeps  *)
(* its window, its renaming, its program order in fetch and memory, and    *)
(* one place for every instruction, without a hypothesis on the run        *)
(* (tomasulo_core.sv).                                                     *)
THEOREM JumpProgramsAreSafe ==
  Spec /\ NoBranches =>
    [](RobWindow /\ OneOwner /\ RatNamesYoungestWriter /\ MemoryInOrder /\ StraightLine)
  BY JumpsNeverReuseTags, WindowInTheMachine, InstructionsHaveOneOwner,
     RenamingNamesYoungestWriter, MemoryIsAccessedInOrder, MachineHoldsAStraightLine, PTL
=============================================================================
