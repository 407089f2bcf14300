------------------------------- MODULE RtlCdb --------------------------------
(***************************************************************************)
(* The common data bus and its round-robin arbiter (cdb.sv, arbiter.sv).   *)
(* One-hot vectors are the index of their bit: last_grant is the unit      *)
(* served last, base the one after it.  The bit-parallel form of the       *)
(* arbiter is in RtlArbiter.                                               *)
(***************************************************************************)
EXTENDS Integers

CONSTANT NUM_FU    \* functional units on the bus; 7

ASSUME FuAssumption == NUM_FU \in Nat \ {0}

VARIABLE last_grant

Fu == 0 .. NUM_FU - 1

(* Mutant: unit 0 always comes first. *)
base_Fixed == 0

base == IF last_grant = NUM_FU - 1 THEN 0 ELSE last_grant + 1

(* How many places after base unit i comes. *)
Rank(i) == IF i >= base THEN i - base ELSE i - base + NUM_FU

(* The first requester at or after base; req is not empty. *)
Grant(req) == CHOOSE i \in req : \A j \in req : Rank(i) <= Rank(j)

(* The units whose grant bit is set: one, or none. *)
Served(req) == IF req = {} THEN {} ELSE {Grant(req)}

granted(req, i) == i \in Served(req)

CdbInit == last_grant = 0

(* Mutant: the vector is shifted without rotating it. *)
CdbClock_Shifted(req) ==
  last_grant' = IF req = {} THEN last_grant ELSE Grant(req) + 1

CdbClock(req) == last_grant' = IF req = {} THEN last_grant ELSE Grant(req)
=============================================================================
