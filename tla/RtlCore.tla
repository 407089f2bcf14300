------------------------------- MODULE RtlCore -------------------------------
(***************************************************************************)
(* The out-of-order pipeline of the RTL (tomasulo_core.sv): dispatch,      *)
(* commit and the wires between the units, with the halt latch of cpu.sv.  *)
(* One step of Clock is one rising edge of clk; every name below it is a   *)
(* wire, read before the edge.                                             *)
(***************************************************************************)
EXTENDS RtlFetch, RtlRename, RtlCdb, RtlStation, RtlUnits, RtlLsb

CONSTANTS
  Programs,    \* the instruction sequences the loader may copy to address 0
  Data         \* the numeric value of each word of the image it copies

VARIABLES
  entries, head, tail, count,   \* the reorder buffer
  rob_head_reg,                 \* tomasulo_core's copy of the head
  halted                        \* the halt latch of cpu.sv

ROB == INSTANCE RtlRob

vars == <<fetchVars, renameVars, last_grant, stationVars, unitVars, lsbVars,
          ROB!robVars, rob_head_reg, halted>>

(* Seven units share the bus, and a tag names a slot of the reorder buffer. *)
ASSUME CoreAssumption == NUM_FU = 7 /\ ROB_SIZE = TagSpan

(* The major opcodes of decode's cases, and one for all the others.  The   *)
(* function bits select a store or a branch only under a major opcode of   *)
(* its own, none of those that write a register.                           *)
Major == {"33", "13", "03", "07", "23", "27", "63", "6F", "67", "37", "17", "53",
          "73", "00"}

RawWord ==
  {raw \in [opcode : Major, op : Opcode, rd : 0 .. NUM_REGS - 1,
            rs1 : 0 .. NUM_REGS - 1, rs2 : 0 .. NUM_REGS - 1, imm : Word] :
     raw.op \in StoreOps \cup BranchOps => raw.opcode \notin RdOpcodes}

ASSUME ImageAssumption ==
  /\ Programs \subseteq Seq(RawWord)
  /\ Data \in [0 .. MEM_SIZE - 1 -> Word]

-----------------------------------------------------------------------------
(* The common data bus *)

fu_results(i) ==
  CASE i = 0 -> alu_cdb
    [] i = 1 -> br_cdb
    [] i = 2 -> pipe["fp_add"][PipeDepth["fp_add"]]
    [] i = 3 -> pipe["fp_mul"][PipeDepth["fp_mul"]]
    [] i = 4 -> div_bus
    [] i = 5 -> lsb_bus
    [] i = 6 -> pipe["fp_cvt"][PipeDepth["fp_cvt"]]

FuOf == [alu |-> 0, br |-> 1, fp_add |-> 2, fp_mul |-> 3, fp_div |-> 4,
         lsb |-> 5, fp_cvt |-> 6]

Requests    == {i \in Fu : fu_results(i).valid}
fu_grant(u) == granted(Requests, FuOf[u])

cdb_w == IF Requests = {} THEN ZeroBus ELSE fu_results(Grant(Requests))

fu_ready(s) ==
  CASE s = "alu"    -> alu_fu_ready(fu_grant("alu"))
    [] s = "br"     -> br_fu_ready(fu_grant("br"))
    [] s = "fp_div" -> div_fu_ready
    [] OTHER        -> advance(s, fu_grant(s))

-----------------------------------------------------------------------------
(* Commit: one instruction a cycle, the head of the reorder buffer. *)

commit == ROB!commit_valid_o
retiring == ROB!commit_entry_o

wr == [en |-> commit /\ retiring.rd_valid, reg |-> retiring.rd,
       tag |-> rob_head_reg, val |-> retiring.result]

store_commit == [en |-> commit /\ is_store_op(retiring.op), tag |-> rob_head_reg]

(* Every branch was predicted not taken. *)
flush    == commit /\ retiring.is_branch /\ retiring.branch_taken
redirect == IF flush THEN retiring.branch_target ELSE 0

halted_core == commit /\ retiring.op = "HALT"

-----------------------------------------------------------------------------
(* Dispatch: one instruction a cycle, the head of the instruction queue. *)

(* Where an instruction waits for its operands. *)
target(op) ==
  CASE op \in BranchOps \cup JumpOps -> "br"
    [] op \in FpAddOps               -> "fp_add"
    [] op = "FMUL_S"                 -> "fp_mul"
    [] op = "FDIV_S"                 -> "fp_div"
    [] op \in LoadOps \cup StoreOps  -> "lsb"
    [] op \in FpCvtOps               -> "fp_cvt"
    [] OTHER                         -> "alu"

target_full(op) ==
  IF target(op) = "lsb" THEN lsb_full ELSE rs_full_o(target(op))

dispatch == iq_valid /\ ~ROB!rob_full_o /\ ~target_full(iq_instr.op)

(* Mutant: a result on the bus in the dispatch cycle is missed. *)
operand_NoBus(r) ==
  LET t == rat[r].tag
      done(v) == [ready |-> TRUE, val |-> v, tag |-> t]
  IN IF ~rat_valid_o(r, wr) THEN done(reg_val_o(r, wr))
     ELSE IF ROB!lookup_done(t) THEN done(ROB!lookup_val(t))
     ELSE [ready |-> FALSE, val |-> 0, tag |-> t]

(* An operand: the register file, else the finished producer in the        *)
(* reorder buffer, else the bus, else a wait for the bus.                  *)
operand(r) ==
  LET t == rat[r].tag
      done(v) == [ready |-> TRUE, val |-> v, tag |-> t]
  IN IF ~rat_valid_o(r, wr) THEN done(reg_val_o(r, wr))
     ELSE IF ROB!lookup_done(t) THEN done(ROB!lookup_val(t))
     ELSE IF cdb_w.valid /\ cdb_w.tag = t THEN done(cdb_w.value)
     ELSE [ready |-> FALSE, val |-> 0, tag |-> t]

entry ==
  [op |-> iq_instr.op, rob_tag |-> tail,
   src |-> <<operand(iq_instr.rs1), operand(iq_instr.rs2)>>,
   imm |-> iq_instr.imm, pc |-> iq_instr.pc]

dispatch_to == IF dispatch THEN target(iq_instr.op) ELSE "none"

(* x0 is never renamed. *)
map == [en |-> dispatch /\ iq_instr.rd_valid /\ iq_instr.rd # X0,
        reg |-> iq_instr.rd, tag |-> tail]

-----------------------------------------------------------------------------
issue(s) == issue_valid_o(s, fu_ready(s))

UnitClock ==
  /\ AluClock(issue("alu"), issue_entry_o("alu"))
  /\ BranchClock(issue("br"), issue_entry_o("br"))
  /\ LatchClock(flush, fu_grant("alu"), fu_grant("br"))
  /\ pipe' = [u \in Pipe |->
       NextPipe(u, flush, issue(u), issue_entry_o(u), fu_grant(u))]
  /\ div' = NextDiv(flush, issue("fp_div"), issue_entry_o("fp_div"),
                    fu_grant("fp_div"))

(* Mutant: the copy of the head survives a flush. *)
HeadClock_NoFlush ==
  rob_head_reg' = IF commit THEN ROB!NextTag(rob_head_reg) ELSE rob_head_reg

HeadClock ==
  rob_head_reg' = IF flush THEN 0
                  ELSE IF commit THEN ROB!NextTag(rob_head_reg)
                  ELSE rob_head_reg

Clock ==
  /\ FetchClock(flush, redirect)
  /\ QueueClock(flush, dispatch)
  /\ ROB!RobClock(flush, dispatch, iq_instr, cdb_w, br, commit)
  /\ RatClock(flush, map, wr)
  /\ RegfileClock(wr)
  /\ StationClock(flush, dispatch_to, entry, cdb_w,
                  {s \in Station : fu_ready(s)})
  /\ UnitClock
  /\ LsbClock(flush, dispatch_to = "lsb", entry, cdb_w, store_commit,
              fu_grant("lsb"))
  /\ MemClock(store_commit)
  /\ CdbClock(Requests)
  /\ HeadClock
  /\ halted' = (halted \/ halted_core)

(* After reset; the memories hold what the loader copied. *)
Init ==
  /\ \E p \in Programs :
       imem = [w \in 0 .. MEM_SIZE - 1 |->
                 IF w < Len(p) THEN p[w + 1] ELSE ZeroRaw]
  /\ dmem = Data
  /\ FetchInit
  /\ RenameInit
  /\ CdbInit
  /\ StationInit
  /\ UnitInit
  /\ LsbInit
  /\ mem_rd_data = 0
  /\ ROB!RobInit
  /\ rob_head_reg = 0
  /\ halted = FALSE

Spec == Init /\ [][Clock]_vars

(* The clock keeps ticking. *)
FairSpec == Spec /\ WF_vars(Clock)
=============================================================================
