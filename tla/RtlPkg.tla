------------------------------- MODULE RtlPkg --------------------------------
(***************************************************************************)
(* The shared types of the RTL (rv32if_pkg.sv): opcode classes, decoded    *)
(* instructions, reorder-buffer and reservation-station entries, and the   *)
(* common-data-bus record.                                                 *)
(*                                                                         *)
(* A register is the pair of its file and its index.  The two operands of  *)
(* an rs_entry_t are the two positions of its field src.                   *)
(***************************************************************************)
EXTENDS Words

CONSTANTS
  ROB_SIZE,    \* 16
  TagSpan,     \* 2^TAG_W: where a ROB tag wraps; 16
  NUM_REGS,    \* registers of each file; 32
  MEM_SIZE     \* words of each memory; 1024

ASSUME PkgAssumption ==
  /\ TagSpan \in Nat \ {0}
  /\ ROB_SIZE \in 1 .. TagSpan
  /\ NUM_REGS \in Nat \ {0}
  /\ MEM_SIZE \in Nat \ {0}

Tag  == 0 .. TagSpan - 1
Slot == 0 .. ROB_SIZE - 1
Reg  == [fp : BOOLEAN, n : 0 .. NUM_REGS - 1]

X(i) == [fp |-> FALSE, n |-> i]
F(i) == [fp |-> TRUE, n |-> i]
X0   == X(0)

(* The word of a memory that a byte address selects. *)
WordIndex(addr) == (addr \div 4) % MEM_SIZE

-----------------------------------------------------------------------------
RegOps    == {"ADD", "SUB", "AND", "OR", "XOR", "SLL", "SRL", "SRA", "SLT",
              "SLTU"}
ImmOps    == {"ADDI", "ANDI", "ORI", "XORI", "SLLI", "SRLI", "SRAI", "SLTI",
              "SLTIU"}
UpperOps  == {"LUI", "AUIPC"}
BranchOps == {"BEQ", "BNE", "BLT", "BGE", "BLTU", "BGEU"}
JumpOps   == {"JAL", "JALR"}
LoadOps   == {"LW", "FLW", "LB", "LBU", "LH", "LHU"}
StoreOps  == {"SW", "FSW", "SB", "SH"}
FpAddOps  == {"FADD_S", "FSUB_S"}
FpCvtOps  == {"FCVT_W_S", "FCVT_S_W"}
FpOps     == FpAddOps \cup {"FMUL_S", "FDIV_S"}

Opcode == RegOps \cup ImmOps \cup UpperOps \cup BranchOps \cup JumpOps
            \cup LoadOps \cup StoreOps \cup FpOps \cup FpCvtOps
            \cup {"NOP", "HALT"}

is_branch_op(op) == op \in BranchOps
is_jump_op(op)   == op \in JumpOps
is_load_op(op)   == op \in LoadOps
is_store_op(op)  == op \in StoreOps

-----------------------------------------------------------------------------
(* The all-zero values the flip-flops are reset to.  OP_ADD has code 0.    *)
ZeroBus == [valid |-> FALSE, tag |-> 0, value |-> 0]

ZeroRobEntry ==
  [state |-> "IDLE", op |-> "ADD", rd |-> X0, rd_valid |-> FALSE,
   result |-> 0, pc |-> 0, is_branch |-> FALSE, branch_taken |-> FALSE,
   branch_target |-> 0]

ZeroSource == [ready |-> FALSE, val |-> 0, tag |-> 0]

ZeroRsEntry ==
  [op |-> "ADD", rob_tag |-> 0, src |-> <<ZeroSource, ZeroSource>>,
   imm |-> 0, pc |-> 0]

(* A source operand after a cycle in which the bus carried cdb. *)
Captured(src, cdb) ==
  IF cdb.valid /\ ~src.ready /\ src.tag = cdb.tag
    THEN [src EXCEPT !.ready = TRUE, !.val = cdb.value]
    ELSE src

(* The snoop loop of the reservation stations and of the load/store buffer. *)
Snooped(entry, cdb) ==
  [entry EXCEPT !.src = <<Captured(@[1], cdb), Captured(@[2], cdb)>>]

BothReady(entry) == entry.src[1].ready /\ entry.src[2].ready
=============================================================================
