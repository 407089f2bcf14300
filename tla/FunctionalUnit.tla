---------------------------- MODULE FunctionalUnit ----------------------------
(***************************************************************************)
(* A BufferStation at work beside the reorder buffer, driven in the        *)
(* sequence its header prescribes for each cycle: pop the output and give  *)
(* the result to the ROB, accept ready work, tick.  The other callers of   *)
(* the ROB take their steps at any moment, but leave the entries of this   *)
(* unit to it, and do not flush the ROB while the unit is at work: a       *)
(* BufferStation cannot be flushed.                                        *)
(***************************************************************************)
EXTENDS ReorderBuffer

CONSTANTS MaxDepth

ASSUME DepthAssumption == MaxDepth \in Nat \ {0}

VARIABLES
  depth, pipelined, stages,
  step,      \* where in the caller sequence the cycle is
  issued     \* history: the operations accepted and not yet popped

unitVars == <<depth, pipelined, stages>>

BS == INSTANCE BufferStation

Issued(t) == \E o \in issued : o.tag = t

UnitInit ==
  /\ Init
  /\ BS!Init
  /\ step = "pop"
  /\ issued = {}

Pop ==
  LET out == stages[depth] IN
  /\ step = "pop"
  /\ BS!pop_output
  /\ write_result(out.tag, out.value)
  /\ issued' = {o \in issued : o.tag # out.tag}
  /\ step' = "accept"

NothingToPop ==
  /\ step = "pop"
  /\ ~BS!has_output
  /\ step' = "accept"
  /\ UNCHANGED <<vars, unitVars, issued>>

(* An operation that is ready in a reservation station: its ROB entry is   *)
(* in flight and no unit has it.                                           *)
Accept(t, value) ==
  /\ step = "accept"
  /\ entries[t].state = "IN_FLIGHT" /\ ~Issued(t)
  /\ BS!accept(t, value)
  /\ issued' = issued \cup {[tag |-> t, value |-> value]}
  /\ UNCHANGED <<vars, step>>

NothingToAccept ==
  /\ step = "accept"
  /\ step' = "tick"
  /\ UNCHANGED <<vars, unitVars, issued>>

Tick ==
  /\ step = "tick"
  /\ BS!tick
  /\ step' = "pop"
  /\ UNCHANGED <<vars, issued>>

(* The rest of the machine. *)
Others ==
  /\ \/ \E info \in Info : allocate(info)
     \/ \E t \in Slot, value \in Value : ~Issued(t) /\ write_result(t, value)
     \/ commit
     \/ issued = {} /\ flush
  /\ UNCHANGED <<unitVars, step, issued>>

UnitNext ==
  \/ Pop \/ NothingToPop
  \/ \E t \in Slot, value \in Value : Accept(t, value)
  \/ NothingToAccept \/ Tick
  \/ Others

allVars == <<vars, unitVars, step, issued>>

UnitSpec == UnitInit /\ [][UnitNext]_allVars

-----------------------------------------------------------------------------
Holds(i, o) == stages[i].valid /\ stages[i].tag = o.tag /\ stages[i].value = o.value

(* What the unit has accepted is in exactly one of its stages, and nothing *)
(* else is, until it is popped: no tick overwrites an output or smears a   *)
(* stage over the next ones.  The ROB entry of each is still waiting for   *)
(* it, so that the result never reaches the slot's next owner; and a unit  *)
(* that is not pipelined holds one at most (accept, tick, pop_output).     *)
UnitHoldsWhatItAccepted ==
  /\ \A o \in issued : \E i \in 0 .. depth : Holds(i, o)
  /\ \A i \in 0 .. depth :
       stages[i].valid => \E o \in issued : Holds(i, o)
  /\ \A i, j \in 0 .. depth :
       /\ stages[i].valid /\ stages[j].valid
       /\ ~pipelined \/ stages[i].tag = stages[j].tag
       => i = j
  /\ \A o \in issued : o.tag \in Slot /\ entries[o.tag].state = "IN_FLIGHT"
=============================================================================
