--------------------------- MODULE InstructionQueue ---------------------------
(***************************************************************************)
(* The fetch buffer (instruction_queue.{h,cpp}).  Program positions count  *)
(* from 0 as in the code: position p is program[p + 1].                    *)
(***************************************************************************)
EXTENDS Integers, Sequences

CONSTANTS
  IqCapacity,     \* IQ_CAPACITY
  IqFetchWidth    \* IQ_FETCH_WIDTH

VARIABLES program, buffer, pc   \* program_, buffer_, pc_

(* load_program stamps every instruction with its byte address. *)
Stamped(prog, p) ==
  [op |-> prog[p + 1].op, rd |-> prog[p + 1].rd, rs1 |-> prog[p + 1].rs1,
   rs2 |-> prog[p + 1].rs2, imm |-> prog[p + 1].imm, pc |-> 4 * p]

Init == buffer = << >> /\ pc = 0

load_program(prog) == program' = prog /\ buffer' = << >> /\ pc' = 0

Min2(a, b) == IF a < b THEN a ELSE b

(* Mutant: the room in the buffer is only looked at before the loop. *)
Fetched_NoCapacity ==
  IF pc >= Len(program) THEN 0
  ELSE Min2(IqFetchWidth, Len(program) - pc)

(* How many instructions one tick fetches: bounded by the width, by the    *)
(* rest of the program and by the room in the buffer.                      *)
Fetched ==
  IF pc >= Len(program) \/ Len(buffer) >= IqCapacity THEN 0
  ELSE Min2(IqFetchWidth, Min2(Len(program) - pc, IqCapacity - Len(buffer)))

tick ==
  /\ buffer' = buffer \o [k \in 1 .. Fetched |-> Stamped(program, pc + k - 1)]
  /\ pc' = pc + Fetched

can_dispatch == buffer # << >>
peek         == Head(buffer)
dispatch     == can_dispatch /\ buffer' = Tail(buffer) /\ UNCHANGED pc
done         == pc >= Len(program) /\ buffer = << >>

seek(byte_pc) == buffer' = << >> /\ pc' = byte_pc \div 4
=============================================================================
