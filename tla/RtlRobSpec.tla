----------------------------- MODULE RtlRobSpec ------------------------------
(***************************************************************************)
(* The reorder buffer of the RTL on its own: in every cycle its ports may  *)
(* carry anything that the rest of the core can put on them.               *)
(***************************************************************************)
EXTENDS RtlRob

CONSTANTS
  Instr,     \* decoded instructions
  Values     \* results and branch targets

ASSUME PortAssumption ==
  \A i \in Instr : i.op \in Opcode /\ i.rd \in Reg /\ i.rd_valid \in BOOLEAN

Bus == {ZeroBus} \cup [valid : {TRUE}, tag : Tag, value : Values]

IdlePort == [valid |-> FALSE, tag |-> 0, target |-> 0, taken |-> FALSE]
Port     == {IdlePort}
              \cup [valid : {TRUE}, tag : Tag, target : Values, taken : BOOLEAN]

(* An assumption about the neighbour: the branch unit reports a branch     *)
(* while it is in flight, or, after a flush, one whose slot is no branch   *)
(* any more.  BranchResolvesInFlight of RtlProps discharges it.            *)
BranchContract(b) ==
  b.valid => /\ b.tag \in Slot
             /\ entries[b.tag].is_branch => entries[b.tag].state = "IN_FLIGHT"

Cycle(flush, alloc_en, commit_en, instr, cdb, b) ==
  /\ BranchContract(b)
  /\ RobClock(flush, alloc_en, instr, cdb, b, commit_en)

Next ==
  \E flush, alloc_en, commit_en \in BOOLEAN, instr \in Instr, cdb \in Bus,
     b \in Port : Cycle(flush, alloc_en, commit_en, instr, cdb, b)

Spec == RobInit /\ [][Next]_robVars

-----------------------------------------------------------------------------
Result == Values \cup {0}
Pc     == {i.pc : i \in Instr} \cup {0}

RobEntry ==
  [state : {"IDLE", "IN_FLIGHT", "DONE"}, op : Opcode, rd : Reg,
   rd_valid : BOOLEAN, result : Result, pc : Pc, is_branch : BOOLEAN,
   branch_taken : BOOLEAN, branch_target : Result]

(* Type correctness of the four fields. *)
TypeOK ==
  /\ entries \in [Slot -> RobEntry]
  /\ head \in Slot /\ tail \in Slot
  /\ count \in 0 .. ROB_SIZE

(* A finished entry keeps its result until it retires or is flushed: a     *)
(* second broadcast under its tag, or one that comes with the branch       *)
(* outcome, changes nothing (rob.sv cdb port).  That no second outcome     *)
(* comes by the branch port, which does not look at the state, is          *)
(* BranchContract.                                                         *)
DoneIsFinal ==
  [][\A t \in Slot :
       entries[t].state = "DONE" /\ entries'[t].state # "IDLE"
         => entries'[t] = entries[t]]_robVars
=============================================================================
