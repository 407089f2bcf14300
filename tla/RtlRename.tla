------------------------------ MODULE RtlRename ------------------------------
(***************************************************************************)
(* The register alias table (rat.sv) and the architectural register file   *)
(* (regfile.sv).  The integer and the floating-point banks work alike, and *)
(* the commit unit drives at most one of them in a cycle, so each table is *)
(* one function over Reg and has one commit port:                          *)
(*   wr  = [en, reg, tag, val], the retirement of this cycle.              *)
(***************************************************************************)
EXTENDS RtlPkg

VARIABLES
  rat,    \* by register: [valid, tag]
  regs    \* int_regs and fp_regs

renameVars == <<rat, regs>>

Unmapped == [valid |-> FALSE, tag |-> 0]

(* A lookup does not see a mapping that retires in this very cycle. *)
rat_valid_o(r, wr) ==
  rat[r].valid /\ ~(wr.en /\ wr.reg = r /\ wr.tag = rat[r].tag)

(* A read returns the value that is being written in this very cycle. *)
reg_val_o(r, wr) == IF wr.en /\ wr.reg = r /\ r # X0 THEN wr.val ELSE regs[r]

RenameInit ==
  /\ rat = [r \in Reg |-> Unmapped]
  /\ regs = [r \in Reg |-> 0]

(* Mutant: the retirement wins over the dispatch. *)
NextMapping_RetireWins(r, map, wr) ==
  IF wr.en /\ wr.reg = r /\ rat[r].valid /\ rat[r].tag = wr.tag THEN Unmapped
  ELSE IF map.en /\ map.reg = r /\ r # X0
    THEN [valid |-> TRUE, tag |-> map.tag]
  ELSE rat[r]

(* map = [en, reg, tag], the destination dispatched in this cycle; it wins  *)
(* over a retirement of the same register.                                 *)
NextMapping(r, map, wr) ==
  IF map.en /\ map.reg = r /\ r # X0 THEN [valid |-> TRUE, tag |-> map.tag]
  ELSE IF wr.en /\ wr.reg = r /\ rat[r].valid /\ rat[r].tag = wr.tag
    THEN Unmapped
  ELSE rat[r]

RatClock(flush, map, wr) ==
  rat' = [r \in Reg |-> IF flush THEN Unmapped ELSE NextMapping(r, map, wr)]

(* A flush does not hold the write of the instruction that caused it. *)
RegfileClock(wr) ==
  regs' = IF wr.en /\ wr.reg # X0 THEN [regs EXCEPT ![wr.reg] = wr.val]
                                  ELSE regs
=============================================================================
