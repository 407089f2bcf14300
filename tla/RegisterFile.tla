---------------------------- MODULE RegisterFile ----------------------------
(***************************************************************************)
(* The architectural registers (regfile.{h,cpp}), both files: rf[r] holds  *)
(* the bits of int_regs_ or fp_regs_.                                      *)
(***************************************************************************)
CONSTANTS Reg, X0, NoReg

VARIABLE rf

Init == rf = [r \in Reg |-> 0]

read(r) == rf[r]

(* Writes to x0 are ignored.  The caller's test of rd >= 0 is the NoReg    *)
(* case.                                                                   *)
write(r, value) ==
  rf' = IF r \in {NoReg, X0} THEN rf ELSE [rf EXCEPT ![r] = value]
=============================================================================
