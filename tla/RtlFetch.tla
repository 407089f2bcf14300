------------------------------ MODULE RtlFetch -------------------------------
(***************************************************************************)
(* Fetch, decode and the instruction queue (cpu.sv, instr_mem.sv, decode   *)
(* in tomasulo_core.sv, instr_queue.sv).                                   *)
(*                                                                         *)
(* A raw instruction word is [opcode, op, rd, rs1, rs2, imm]: the major    *)
(* opcode, the operation its function bits select under that opcode ("NOP" *)
(* when they select none), the register fields as they stand in the word,  *)
(* and the immediate of its format, extended to a word.                    *)
(***************************************************************************)
EXTENDS RtlPkg

CONSTANT IQ_DEPTH    \* 8; the pointers of $clog2(IQ_DEPTH) bits wrap there

ASSUME IqAssumption == IQ_DEPTH \in Nat \ {0} /\ IQ_DEPTH \in {2^k : k \in 0 .. 8}

VARIABLES
  imem,        \* the instruction memory
  fetch,       \* [pc, pc_d, valid]: fetch_pc, fetch_pc_d, fetch_valid
  instr_raw,   \* the registered read port of the instruction memory
  iq           \* the queue: [entries, head, tail, count]

fetchVars == <<imem, fetch, instr_raw, iq>>

-----------------------------------------------------------------------------
(* Major opcodes, by which fields of the word decode takes over. *)
RdOpcodes  == {"33", "13", "03", "6F", "37", "17"}    \* whatever op selects
RdOps      == JumpOps \cup FpOps \cup FpCvtOps \cup {"FLW"}
Rs1Opcodes == {"33", "13", "03", "23", "63"}
Rs1Ops     == {"JALR", "FLW", "FSW"} \cup FpOps \cup FpCvtOps
Rs2Opcodes == {"33", "23", "63"}
Rs2Ops     == {"FSW"} \cup FpOps

FpRdOps  == FpOps \cup {"FCVT_S_W", "FLW"}
FpRs1Ops == FpOps \cup {"FCVT_W_S"}
FpRs2Ops == FpOps \cup {"FSW"}

(* A field that the format does not have is decoded as integer register 0. *)
Field(has, fp, n) == IF has THEN [fp |-> fp, n |-> n] ELSE X0

writes_rd(raw) == raw.opcode \in RdOpcodes \/ raw.op \in RdOps

decode(raw, pc) ==
  [op  |-> raw.op,
   rd  |-> Field(writes_rd(raw), raw.op \in FpRdOps, raw.rd),
   rs1 |-> Field(raw.opcode \in Rs1Opcodes \/ raw.op \in Rs1Ops,
                 raw.op \in FpRs1Ops, raw.rs1),
   rs2 |-> Field(raw.opcode \in Rs2Opcodes \/ raw.op \in Rs2Ops,
                 raw.op \in FpRs2Ops, raw.rs2),
   imm |-> raw.imm,
   rd_valid |-> writes_rd(raw),
   pc  |-> pc]

(* The all-zero word: no opcode decode knows. *)
ZeroRaw == [opcode |-> "00", op |-> "NOP", rd |-> 0, rs1 |-> 0, rs2 |-> 0,
            imm |-> 0]

-----------------------------------------------------------------------------
iq_full  == iq.count = IQ_DEPTH
iq_valid == iq.count # 0
iq_instr == iq.entries[iq.head]

(* Mutant: a stalled fetch reads one instruction ahead. *)
imem_read_pc_Ahead == fetch.pc

(* While the queue is full the stalled address is read again. *)
imem_read_pc == IF iq_full THEN fetch.pc_d ELSE fetch.pc

EmptyQueue ==
  [entries |-> [i \in 0 .. IQ_DEPTH - 1 |-> decode(ZeroRaw, 0)],
   head |-> 0, tail |-> 0, count |-> 0]

(* After reset; imem holds the program the loader has copied there. *)
FetchInit ==
  /\ fetch = [pc |-> 0, pc_d |-> 0, valid |-> FALSE]
  /\ instr_raw = ZeroRaw
  /\ iq = EmptyQueue

FetchClock(flush, redirect) ==
  /\ instr_raw' = imem[WordIndex(imem_read_pc)]
  /\ fetch' =
       IF flush THEN [pc |-> redirect, pc_d |-> redirect, valid |-> FALSE]
       ELSE IF iq_full THEN [fetch EXCEPT !.valid = TRUE]
       ELSE [pc |-> Wrap(fetch.pc + 4), pc_d |-> fetch.pc, valid |-> TRUE]
  /\ UNCHANGED imem

(* A flush resets the pointers and leaves the stored entries. *)
QueueClock(flush, pop_en) ==
  LET push == fetch.valid /\ ~iq_full
      pop  == pop_en /\ iq_valid
  IN iq' =
       IF flush THEN [iq EXCEPT !.head = 0, !.tail = 0, !.count = 0]
       ELSE [entries |-> IF push
                           THEN [iq.entries EXCEPT
                                   ![iq.tail] = decode(instr_raw, fetch.pc_d)]
                           ELSE iq.entries,
             tail  |-> (iq.tail + (IF push THEN 1 ELSE 0)) % IQ_DEPTH,
             head  |-> (iq.head + (IF pop THEN 1 ELSE 0)) % IQ_DEPTH,
             count |-> iq.count + (IF push THEN 1 ELSE 0)
                                - (IF pop THEN 1 ELSE 0)]
=============================================================================
