---------------------------- MODULE RtlDivideBus -----------------------------
(***************************************************************************)
(* The divider on the common data bus: fp_div.sv as one of the units that  *)
(* cdb.sv serves, at one clock.  Every edge is an edge of both; what the   *)
(* other units ask for is arbitrary, as in RtlArbiter.                     *)
(***************************************************************************)
EXTENDS RtlArbiter, FpDivide

FpDiv == 4     \* its place in fu_results

busVars == <<arbVars, divVars>>

(* The divider asks for the bus exactly while it holds a result. *)
cdb_valid_o == state = "DONE"

BusInit ==
  /\ Init
  /\ Reset
  /\ FpDiv \in req <=> cdb_valid_o

BusClock ==
  /\ Arbitrate
  /\ DivideClock(granted(req, FpDiv))
  /\ FpDiv \in req' <=> cdb_valid_o'

BusFlush == Flush /\ Flushed

BusNext == BusFlush \/ BusClock

(* The clock keeps ticking, as in RtlArbiter; every step is one of its own, *)
(* so that what holds of it for any units holds here.                       *)
BusSpec == BusInit /\ [][BusNext]_busVars /\ WF_arbVars(Next)

-----------------------------------------------------------------------------
(* For TLC: mantissas of nine bits, in three cycles of three; dividend and  *)
(* divisor equal, or one just over half of the other.                       *)
MCOperands == [sign : {0}, exp : {3}, frac : {1, 254}]
=============================================================================
