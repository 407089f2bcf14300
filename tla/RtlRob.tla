------------------------------- MODULE RtlRob --------------------------------
(***************************************************************************)
(* The circular reorder buffer of the RTL (rob.sv).  The ports of rob_unit *)
(* are the parameters of RobClock, one step of which is one clock edge.    *)
(***************************************************************************)
EXTENDS RtlPkg

VARIABLES
  entries,   \* the ROB_SIZE slots
  head,      \* the next entry to retire
  tail,      \* the slot, and tag, of the next allocation
  count      \* occupied slots

robVars == <<entries, head, tail, count>>

(* Mutant: a tag one bit wider than the pointers. *)
NextTag_NoWrap(t) == t + 1

NextTag(t) == (t + 1) % TagSpan

rob_full_o     == count = ROB_SIZE
commit_entry_o == entries[head]
commit_valid_o == commit_entry_o.state = "DONE"

(* Mutant: a producer counts as finished as soon as it has a slot. *)
lookup_done_AnyLive(t) == entries[t].state # "IDLE"

lookup_done(t) == entries[t].state = "DONE"
lookup_val(t)  == entries[t].result

Allocated(instr) ==
  [state |-> "IN_FLIGHT", op |-> instr.op, rd |-> instr.rd,
   rd_valid |-> instr.rd_valid, result |-> 0, pc |-> instr.pc,
   is_branch |-> is_branch_op(instr.op) \/ is_jump_op(instr.op),
   branch_taken |-> FALSE, branch_target |-> 0]

Resolved(e, br) ==
  [e EXCEPT !.branch_taken = br.taken, !.branch_target = br.target,
            !.state = "DONE"]

Written(e, value) == [e EXCEPT !.result = value, !.state = "DONE"]

(* Mutant: a retired slot is not freed. *)
Retired_Kept(e) == e

Retired(e) == [e EXCEPT !.state = "IDLE"]

(* Mutant: the bus port does not look at the state. *)
NextEntry_AnyState(t, alloc, instr, cdb, br, commit) ==
  LET e == entries[t] IN
    IF commit /\ t = head THEN Retired(e)
    ELSE IF alloc /\ t = tail THEN Allocated(instr)
    ELSE IF br.valid /\ t = br.tag /\ e.is_branch THEN Resolved(e, br)
    ELSE IF cdb.valid /\ t = cdb.tag THEN Written(e, cdb.value)
    ELSE e

(* Every writer copies the whole old entry; the last one in program order  *)
(* of the always_ff block wins the slot.                                   *)
NextEntry(t, alloc, instr, cdb, br, commit) ==
  LET e == entries[t] IN
    IF commit /\ t = head THEN Retired(e)
    ELSE IF alloc /\ t = tail THEN Allocated(instr)
    ELSE IF br.valid /\ t = br.tag /\ e.is_branch THEN Resolved(e, br)
    ELSE IF cdb.valid /\ t = cdb.tag /\ e.state = "IN_FLIGHT"
      THEN Written(e, cdb.value)
    ELSE e

RobInit ==
  /\ entries = [t \in Slot |-> ZeroRobEntry]
  /\ head = 0 /\ tail = 0 /\ count = 0

(* Mutant: a flush resets the states and leaves the other fields. *)
RobFlush_StateOnly ==
  /\ entries' = [t \in Slot |-> [entries[t] EXCEPT !.state = "IDLE"]]
  /\ head' = 0 /\ tail' = 0 /\ count' = 0

(* Mutant: a flush leaves the tail alone. *)
RobFlush_TailKept ==
  /\ entries' = [t \in Slot |-> ZeroRobEntry]
  /\ head' = 0 /\ tail' = tail /\ count' = 0

RobFlush ==
  /\ entries' = [t \in Slot |-> ZeroRobEntry]
  /\ head' = 0 /\ tail' = 0 /\ count' = 0

RobEdge(alloc, instr, cdb, br, commit) ==
  /\ entries' = [t \in Slot |-> NextEntry(t, alloc, instr, cdb, br, commit)]
  /\ tail'  = IF alloc THEN NextTag(tail) ELSE tail
  /\ head'  = IF commit THEN NextTag(head) ELSE head
  /\ count' = count + (IF alloc THEN 1 ELSE 0) - (IF commit THEN 1 ELSE 0)

RobClock(flush, alloc_en, instr, cdb, br, commit_en) ==
  \/ flush /\ RobFlush
  \/ ~flush /\ RobEdge(alloc_en /\ ~rob_full_o, instr, cdb, br,
                       commit_en /\ commit_valid_o)

-----------------------------------------------------------------------------
(* How many slots lie between the head and t, going round. *)
Age(t) == IF t >= head THEN t - head ELSE t - head + ROB_SIZE

(* Head, tail and count agree however often the pointers have wrapped, so  *)
(* that a full buffer and an empty one, which both have head = tail, are   *)
(* told apart (rob.sv head, tail, count).                                  *)
PositionsAgree ==
  tail = IF head + count < ROB_SIZE THEN head + count
                                    ELSE head + count - ROB_SIZE

(* The occupied slots are the count ones from head on: none lies outside,  *)
(* where the next allocation would overwrite it, and none inside is free,  *)
(* where commit would wait for it for ever, although a retirement, an      *)
(* allocation, a bus write and a branch outcome may hit the array in one   *)
(* cycle (rob.sv always_ff).  That an outcome never brings a free slot     *)
(* back is BranchContract where the buffer is alone, and a property of the *)
(* core (BranchResolvesInFlight).                                          *)
WindowIsLive ==
  \A t \in Slot : entries[t].state # "IDLE" <=> Age(t) < count
=============================================================================
