---------------------------- MODULE BufferStation ----------------------------
(***************************************************************************)
(* The shift register that models a functional unit                        *)
(* (buffer_station.{h,cpp}): stage 0 takes an operation in, stage depth    *)
(* puts its result out.  The main loop includes the header but builds no   *)
(* BufferStation.                                                          *)
(***************************************************************************)
EXTENDS Integers

CONSTANTS
  MaxDepth,   \* bound on depth_
  NoValue     \* the value of an empty BufSlot

VARIABLES
  depth,      \* depth_
  pipelined,  \* pipelined_
  stages      \* stages_

EmptySlot == [valid |-> FALSE, tag |-> -1, value |-> NoValue]

(* The constructor; its assertion is the lower bound. *)
Init ==
  /\ depth \in 1 .. MaxDepth
  /\ pipelined \in BOOLEAN
  /\ stages = [i \in 0 .. depth |-> EmptySlot]

busy       == \E i \in DOMAIN stages : stages[i].valid
has_output == stages[depth].valid

(* accept returns true only then. *)
CanAccept == (pipelined \/ ~busy) /\ ~stages[0].valid

accept(tag, value) ==
  /\ CanAccept
  /\ stages' = [stages EXCEPT ![0] = [valid |-> TRUE, tag |-> tag, value |-> value]]
  /\ UNCHANGED <<depth, pipelined>>

(* Mutant: the shift runs upwards, over what it is still to move. *)
tick_Upwards ==
  /\ stages' = [i \in 0 .. depth |-> IF i = 0 THEN EmptySlot ELSE stages[0]]
  /\ UNCHANGED <<depth, pipelined>>

tick ==
  /\ stages' = [i \in 0 .. depth |-> IF i = 0 THEN EmptySlot ELSE stages[i - 1]]
  /\ UNCHANGED <<depth, pipelined>>

pop_output ==
  /\ has_output
  /\ stages' = [stages EXCEPT ![depth] = EmptySlot]
  /\ UNCHANGED <<depth, pipelined>>
=============================================================================
