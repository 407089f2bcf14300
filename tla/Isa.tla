--------------------------------- MODULE Isa ---------------------------------
(***************************************************************************)
(* What the simulator promises: the program executed one instruction at a  *)
(* time, in order, with no renaming, no buffers and no latencies.  The     *)
(* arithmetic is that of execute_op; the rest is the architectural effect  *)
(* of each opcode.                                                         *)
(***************************************************************************)
EXTENDS Integers, Sequences

CONSTANTS
  Reg, X0, NoReg,      \* the registers
  Decoded,             \* the instructions
  MemWords,            \* MEM_SIZE
  Wrap(_),             \* conversion to uint32_t
  is_branch(_), is_jump(_), is_load(_), is_store(_),
  execute_op(_, _, _, _, _)

VARIABLES
  program,   \* the instructions, in order
  regs,      \* architectural registers
  mem,       \* data memory, by word
  pc,        \* byte address of the next instruction
  halted

vars == <<program, regs, mem, pc, halted>>

Current == program[pc \div 4 + 1]

Operand(r) == IF r = NoReg THEN 0 ELSE regs[r]

(* What execute_op makes of the current instruction. *)
Outcome ==
  execute_op(Current.op, Operand(Current.rs1), Operand(Current.rs2),
             Current.imm, pc)

(* For a load or a store the outcome is the byte address. *)
InMemory == Outcome \div 4 < MemWords

WriteReg(r, value) ==
  regs' = IF r \in {NoReg, X0} THEN regs ELSE [regs EXCEPT ![r] = value]

Sequential == pc' = pc + 4

Redirect(target) == pc' = 4 * (target \div 4)

Halt ==
  /\ Current.op = "HALT"
  /\ halted' = TRUE
  /\ Sequential
  /\ UNCHANGED <<regs, mem>>

Branch ==
  /\ is_branch(Current.op)
  /\ Redirect(Outcome)
  /\ UNCHANGED <<regs, mem, halted>>

Jump ==
  /\ is_jump(Current.op)
  /\ Redirect(Outcome)
  /\ WriteReg(Current.rd, Wrap(pc + 4))
  /\ UNCHANGED <<mem, halted>>

Store ==
  /\ is_store(Current.op)
  /\ mem' = IF InMemory
              THEN [mem EXCEPT ![Outcome \div 4] = Operand(Current.rs2)]
              ELSE mem
  /\ Sequential
  /\ UNCHANGED <<regs, halted>>

Load ==
  /\ is_load(Current.op)
  /\ WriteReg(Current.rd, IF InMemory THEN mem[Outcome \div 4] ELSE 0)
  /\ Sequential
  /\ UNCHANGED <<mem, halted>>

Compute ==
  /\ Current.op # "HALT"
  /\ ~is_branch(Current.op) /\ ~is_jump(Current.op)
  /\ ~is_load(Current.op) /\ ~is_store(Current.op)
  /\ WriteReg(Current.rd, Outcome)
  /\ Sequential
  /\ UNCHANGED <<mem, halted>>

Running == ~halted /\ pc \div 4 < Len(program)

Step ==
  /\ Running
  /\ Halt \/ Branch \/ Jump \/ Store \/ Load \/ Compute
  /\ UNCHANGED program

(* Once, before the first step. *)
LoadProgram ==
  /\ program = << >>
  /\ program' \in Seq(Decoded) \ {<< >>}
  /\ UNCHANGED <<regs, mem, pc, halted>>

Init ==
  /\ program = << >>
  /\ regs = [r \in Reg |-> 0]
  /\ mem = [w \in 0 .. MemWords - 1 |-> 0]
  /\ pc = 0
  /\ halted = FALSE

Spec == Init /\ [][LoadProgram \/ Step]_vars
=============================================================================
