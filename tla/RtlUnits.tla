------------------------------ MODULE RtlUnits -------------------------------
(***************************************************************************)
(* The execution units of the RTL: alu_unit.sv, branch_unit.sv, the result *)
(* latches that tomasulo_core.sv puts behind them, and the floating-point  *)
(* units fp_add, fp_mul, fp_cvt (pipelines) and fp_div (a counter).        *)
(* The parameter e is the rs_entry_t being issued.                         *)
(***************************************************************************)
EXTENDS RtlDatapath, Sequences

CONSTANTS
  PipeDepth,     \* stages of fp_add, fp_mul and fp_cvt: 2, 4, 2
  DivLast        \* the last value of the divider's counter; 6

Pipe == {"fp_add", "fp_mul", "fp_cvt"}

ASSUME UnitAssumption ==
  /\ PipeDepth \in [Pipe -> Nat \ {0}]
  /\ DivLast \in Nat

VARIABLES
  alu,       \* output registers of alu_int: [valid, tag, value]
  alu_cdb,   \* the result latch on bus input 0
  br,        \* output registers of branch_unit: [valid, tag, target, taken]
  br_d,      \* br_op_d and br_pc_d
  br_cdb,    \* the result latch on bus input 1
  pipe,      \* by pipelined unit, its stages, the first first
  div        \* the divider: [state, cnt, tag, value]

unitVars == <<alu, alu_cdb, br, br_d, br_cdb, pipe, div>>

-----------------------------------------------------------------------------
(* The return address of a jump; a branch broadcasts its target. *)
br_cdb_val == IF br_d.op \in JumpOps THEN Wrap(br_d.pc + 4) ELSE br.target

-----------------------------------------------------------------------------
ZeroBr  == [valid |-> FALSE, tag |-> 0, target |-> 0, taken |-> FALSE]
ZeroDiv == [state |-> "IDLE", cnt |-> 0, tag |-> 0, value |-> 0]
ZeroPipe == [u \in Pipe |-> [k \in 1 .. PipeDepth[u] |-> ZeroBus]]

UnitInit ==
  /\ alu = ZeroBus /\ alu_cdb = ZeroBus
  /\ br = ZeroBr /\ br_cdb = ZeroBus
  /\ br_d = [op |-> "NOP", pc |-> 0]
  /\ pipe = ZeroPipe
  /\ div = ZeroDiv

alu_fu_ready(grant) == (~alu_cdb.valid \/ grant) /\ ~alu.valid
br_fu_ready(grant)  == (~br_cdb.valid \/ grant) /\ ~br.valid

(* Mutant: a pipeline moves on although its result was not taken. *)
advance_Always(u, grant) == TRUE

advance(u, grant)   == ~pipe[u][PipeDepth[u]].valid \/ grant
div_fu_ready        == div.state = "IDLE"
div_bus             == [valid |-> div.state = "DONE", tag |-> div.tag,
                        value |-> div.value]

(* Not reset by a flush: neither alu_int nor branch_unit has that port. *)
AluClock(issue, e) ==
  alu' = IF issue
           THEN [valid |-> TRUE, tag |-> e.rob_tag, value |-> alu_result(e)]
           ELSE [alu EXCEPT !.valid = FALSE]

BranchClock(issue, e) ==
  /\ br' = IF issue
             THEN [valid |-> TRUE, tag |-> e.rob_tag,
                   target |-> target_next(e), taken |-> taken_next(e)]
             ELSE ZeroBr
  /\ br_d' = [op |-> e.op, pc |-> e.pc]

(* A latch keeps its result until the arbiter takes it. *)
NextLatch(latch, flush, valid, tag, value, grant) ==
  IF flush THEN ZeroBus
  ELSE IF valid THEN [valid |-> TRUE, tag |-> tag, value |-> value]
  ELSE IF grant THEN [latch EXCEPT !.valid = FALSE]
  ELSE latch

LatchClock(flush, alu_grant, br_grant) ==
  /\ alu_cdb' = NextLatch(alu_cdb, flush, alu.valid, alu.tag, alu.value, alu_grant)
  /\ br_cdb'  = NextLatch(br_cdb, flush, br.valid, br.tag, br_cdb_val, br_grant)

(* What enters the first stage of a pipelined unit. *)
Entering(issue, e) ==
  [valid |-> issue, tag |-> e.rob_tag,
   value |-> IF issue THEN Fpu(e.op, e.src[1].val, e.src[2].val) ELSE 0]

NextPipe(u, flush, issue, e, grant) ==
  IF flush THEN ZeroPipe[u]
  ELSE IF advance(u, grant)
    THEN <<Entering(issue, e)>> \o SubSeq(pipe[u], 1, PipeDepth[u] - 1)
  ELSE pipe[u]

NextDiv(flush, issue, e, grant) ==
  CASE flush -> ZeroDiv
    [] ~flush /\ div.state = "IDLE" /\ issue ->
         [state |-> "DIVIDE", cnt |-> 0, tag |-> e.rob_tag,
          value |-> Fpu(e.op, e.src[1].val, e.src[2].val)]
    [] ~flush /\ div.state = "DIVIDE" /\ div.cnt = DivLast ->
         [div EXCEPT !.state = "DONE"]
    [] ~flush /\ div.state = "DIVIDE" /\ div.cnt # DivLast ->
         [div EXCEPT !.cnt = @ + 1]
    [] ~flush /\ div.state = "DONE" /\ grant -> [div EXCEPT !.state = "IDLE"]
    [] OTHER -> div
=============================================================================
