------------------------------- MODULE MCRtlRob ------------------------------
(* Instances of the reorder buffer of the RTL: one instruction with a      *)
(* destination and one branch.                                             *)
EXTENDS RtlRobSpec

MCInstr ==
  {[op |-> "ADD", rd |-> X(1), rd_valid |-> TRUE, pc |-> 0],
   [op |-> "BEQ", rd |-> X0, rd_valid |-> FALSE, pc |-> 0]}
=============================================================================
