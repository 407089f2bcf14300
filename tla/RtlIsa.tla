------------------------------- MODULE RtlIsa --------------------------------
(***************************************************************************)
(* What the pipeline promises: the program executed one instruction at a   *)
(* time, with no queue, no renaming and no latencies.  The effect of each  *)
(* opcode is the one rv32if_pkg.sv gives beside it.  HALT raises halted    *)
(* and execution goes on, as the clock does.                               *)
(***************************************************************************)
EXTENDS RtlDatapath

CONSTANT Decode(_, _)    \* the decoded instruction of a raw word and its pc

VARIABLES imem, regs, mem, pc, halted

vars == <<imem, regs, mem, pc, halted>>

Current == Decode(imem[WordIndex(pc)], pc)

Value(r) == [ready |-> TRUE, val |-> regs[r], tag |-> 0]

(* The current instruction with its operands. *)
Issued ==
  [op |-> Current.op, rob_tag |-> 0,
   src |-> <<Value(Current.rs1), Value(Current.rs2)>>,
   imm |-> Current.imm, pc |-> pc]

Address == Wrap(regs[Current.rs1] + Current.imm)

WriteRd(value) ==
  regs' = IF Current.rd_valid /\ Current.rd # X0
            THEN [regs EXCEPT ![Current.rd] = value] ELSE regs

Sequential == pc' = Wrap(pc + 4)

Branch ==
  /\ is_branch_op(Current.op)
  /\ pc' = Wrap(pc + (IF taken_next(Issued) THEN Current.imm ELSE 4))
  /\ UNCHANGED <<regs, mem>>

Jump ==
  /\ is_jump_op(Current.op)
  /\ pc' = target_next(Issued)
  /\ WriteRd(Wrap(pc + 4))
  /\ UNCHANGED mem

Load ==
  /\ is_load_op(Current.op)
  /\ WriteRd(load_result(Current.op, Address, mem[WordIndex(Address)]))
  /\ Sequential
  /\ UNCHANGED mem

Store ==
  /\ is_store_op(Current.op)
  /\ mem' = [mem EXCEPT ![WordIndex(Address)] =
               Stored(@, Current.op, Address, regs[Current.rs2])]
  /\ Sequential
  /\ UNCHANGED regs

Float ==
  /\ Current.op \in FpOps \cup FpCvtOps
  /\ WriteRd(Fpu(Current.op, regs[Current.rs1], regs[Current.rs2]))
  /\ Sequential
  /\ UNCHANGED mem

Integer ==
  /\ Current.op \notin BranchOps \cup JumpOps \cup LoadOps \cup StoreOps
                         \cup FpOps \cup FpCvtOps
  /\ WriteRd(alu_result(Issued))
  /\ Sequential
  /\ UNCHANGED mem

Step ==
  /\ Branch \/ Jump \/ Load \/ Store \/ Float \/ Integer
  /\ halted' = (halted \/ Current.op = "HALT")
  /\ UNCHANGED imem

Init ==
  /\ regs = [r \in Reg |-> 0]
  /\ pc = 0
  /\ halted = FALSE

Spec == Init /\ [][Step]_vars
=============================================================================
