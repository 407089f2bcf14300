----------------------- MODULE RegisterRemappingTable -----------------------
(***************************************************************************)
(* The rename table (register_remapping_table.{h,cpp}): rat[r] is the tag  *)
(* of the instruction that will write r, NoTag when the entry is not       *)
(* valid.                                                                  *)
(***************************************************************************)
EXTENDS Integers

CONSTANTS Reg, X0, NoReg, NoTag

VARIABLE rat

(* The constructor, which is flush. *)
Init == rat = [r \in Reg |-> NoTag]

lookup(r) == rat[r]

(* x0 is never renamed; an instruction without destination maps nothing. *)
map(r, t) == rat' = IF r \in {NoReg, X0} THEN rat ELSE [rat EXCEPT ![r] = t]

(* Mutant: the mapping is cleared whoever it names. *)
commit_Always(r, t) ==
  rat' = IF r # NoReg THEN [rat EXCEPT ![r] = NoTag] ELSE rat

(* A newer mapping of the register stays. *)
commit(r, t) ==
  rat' = IF r # NoReg /\ lookup(r) = t THEN [rat EXCEPT ![r] = NoTag] ELSE rat
=============================================================================
