----------------------------- MODULE RtlArbiter ------------------------------
(***************************************************************************)
(* The arbiter of the common data bus among units that keep a request up   *)
(* until it is granted or flushed (cdb.sv, arbiter.sv), and the            *)
(* bit-parallel circuit of arbiter.sv that computes the grant.             *)
(***************************************************************************)
EXTENDS RtlCdb, Words

ASSUME DoubleWidth == WordBits = 2 * NUM_FU

VARIABLE req     \* valid_vec: the units that hold a result

arbVars == <<req, last_grant>>

-----------------------------------------------------------------------------
Vector(set) == MapThenSumSet(LAMBDA i : 2^i, set)

double_req == Vector(req) * 2^NUM_FU + Vector(req)

(* Mutant: the search starts at the last winner. *)
double_grant_NoRotate ==
  BitAnd(double_req, WordSize - 1 - Wrap(double_req - 2^last_grant))

double_grant == BitAnd(double_req, WordSize - 1 - Wrap(double_req - 2^base))

(* grant: the two halves folded back onto NUM_FU bits. *)
grant_vec == BitOr(double_grant % 2^NUM_FU, double_grant \div 2^NUM_FU)

-----------------------------------------------------------------------------
(* A unit drops its request when it is served; others keep theirs, and any *)
(* unit may come up with a new result.                                     *)
Arbitrate ==
  /\ CdbClock(req)
  /\ req' \in SUBSET Fu
  /\ req \ Served(req) \subseteq req'

(* A flush clears the results that wait. *)
Flushed ==
  /\ CdbClock(req)
  /\ req' = {}

Init == CdbInit /\ req \in SUBSET Fu
Next == Flushed \/ Arbitrate
Spec == Init /\ [][Next]_arbVars

(* The clock keeps ticking. *)
FairSpec == Spec /\ WF_arbVars(Next)

-----------------------------------------------------------------------------
(* The circuit grants one unit, the first requester after the last winner, *)
(* and none when there is no request: the double-width subtraction never   *)
(* borrows through the wrong half (arbiter.sv double_grant).               *)
CircuitGrantsFirst ==
  grant_vec = IF req = {} THEN 0 ELSE 2^Grant(req)

(* Type correctness of the last winner. *)
TypeOK == last_grant \in Fu /\ req \subseteq Fu

(* A unit that is passed over moves up: with every grant it comes strictly *)
(* nearer to the front, so that it waits for at most NUM_FU - 1 grants     *)
(* (cdb.sv base, last_grant).                                              *)
PassedOverMovesUp ==
  [][\A i \in req \ Served(req) : Rank(i)' < Rank(i)]_arbVars

(* Every result that waits for the bus is broadcast, or flushed.           *)
EveryResultLeaves == \A i \in Fu : i \in req ~> i \notin req \ Served(req)
=============================================================================
