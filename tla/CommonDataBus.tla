---------------------------- MODULE CommonDataBus ----------------------------
(***************************************************************************)
(* The common data bus (common_data_bus.{h,cpp}): the results broadcast in *)
(* this cycle, in broadcast order, and how a waiting entry captures one    *)
(* (the body of both snoop loops).  There is no limit on the number of     *)
(* results in a cycle.                                                     *)
(***************************************************************************)
EXTENDS Integers, Sequences

VARIABLE cdb   \* results_: a sequence of [tag, value]

Init == cdb = << >>

broadcast(tag, value) == cdb' = Append(cdb, [tag |-> tag, value |-> value])

flush == cdb' = << >>

OnBus(q) == \E k \in DOMAIN cdb : cdb[k].tag = q

(* The loop runs over the results in order and clears q at the first match. *)
BusValue(q) ==
  LET first == CHOOSE k \in DOMAIN cdb :
                 cdb[k].tag = q /\ \A j \in 1 .. k - 1 : cdb[j].tag # q
  IN  cdb[first].value

(* Mutant: the second operand is not compared with the bus. *)
Captured_FirstOperand(e) ==
  [e EXCEPT !.vj = IF OnBus(e.qj) THEN BusValue(e.qj) ELSE @,
            !.qj = IF OnBus(e.qj) THEN -1 ELSE @]

(* Entry e after snooping: an operand whose tag is on the bus is resolved. *)
Captured(e) ==
  [e EXCEPT !.vj = IF OnBus(e.qj) THEN BusValue(e.qj) ELSE @,
            !.qj = IF OnBus(e.qj) THEN -1 ELSE @,
            !.vk = IF OnBus(e.qk) THEN BusValue(e.qk) ELSE @,
            !.qk = IF OnBus(e.qk) THEN -1 ELSE @]
=============================================================================
