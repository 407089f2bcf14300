--------------------------- MODULE ReorderBuffer ---------------------------
(***************************************************************************)
(* The reorder buffer of the software simulator (reorder_buffer.{h,cpp}):  *)
(* a circular buffer whose slot numbers are the rename tags of the whole   *)
(* machine.  allocate, write_result and commit are driven by the main      *)
(* loop; here any caller that respects the assertions may call them in any *)
(* order, so what holds here holds for every such caller.                  *)
(***************************************************************************)
EXTENDS Integers

CONSTANTS
  Size,     \* size_, ROB_SIZE in the simulator
  Info,     \* what allocate copies from the instruction: op, rd, pc
  Value,    \* result values
  NoInfo,   \* the op/rd/pc of a default-constructed ROBEntry
  NoValue   \* its result

ASSUME SizeAssumption == Size \in Nat \ {0}

VARIABLES
  entries,  \* entries_: slot -> ROBEntry
  head,     \* head_
  tail,     \* tail_
  count     \* count_

vars == <<entries, head, tail, count>>

Slot  == 0 .. Size - 1
State == {"IDLE", "IN_FLIGHT", "DONE"}

IdleEntry == [state |-> "IDLE", info |-> NoInfo, result |-> NoValue]

Init ==
  /\ entries = [t \in Slot |-> IdleEntry]
  /\ head = 0
  /\ tail = 0
  /\ count = 0

full  == count = Size
empty == count = 0

(* Mutant: the head may retire before its result is there. *)
head_ready_Early == ~empty

head_ready == ~empty /\ entries[head].state = "DONE"

peek(t) == entries[t]

(* Mutant: the index is not wrapped. *)
Succ_NoWrap(t) == t + 1

Succ(t) == (t + 1) % Size

(* The slot the next allocate hands out is tail. *)
allocate(info) ==
  /\ ~full
  /\ entries' = [entries EXCEPT ![tail] =
                   [state |-> "IN_FLIGHT", info |-> info, result |-> NoValue]]
  /\ tail' = Succ(tail)
  /\ count' = count + 1
  /\ UNCHANGED head

(* The two assertions of the code are the guard: a call outside them ends  *)
(* the program.                                                            *)
write_result(t, value) ==
  /\ t \in Slot
  /\ entries[t].state = "IN_FLIGHT"
  /\ entries' = [entries EXCEPT ![t] =
                   [state |-> "DONE", info |-> @.info, result |-> value]]
  /\ UNCHANGED <<head, tail, count>>

(* Mutant: the retired slot is not reset. *)
commit_KeepsEntry ==
  /\ head_ready
  /\ head' = Succ(head)
  /\ count' = count - 1
  /\ UNCHANGED <<entries, tail>>

commit ==
  /\ head_ready
  /\ entries' = [entries EXCEPT ![head] = IdleEntry]
  /\ head' = Succ(head)
  /\ count' = count - 1
  /\ UNCHANGED tail

(* Mutant: flush forgets the tail. *)
flush_KeepsTail ==
  /\ entries' = [t \in Slot |-> IdleEntry]
  /\ head' = 0
  /\ count' = 0
  /\ UNCHANGED tail

flush ==
  /\ entries' = [t \in Slot |-> IdleEntry]
  /\ head' = 0
  /\ tail' = 0
  /\ count' = 0

Next ==
  \/ \E info \in Info : allocate(info)
  \/ \E t \in Slot, value \in Value : write_result(t, value)
  \/ commit
  \/ flush

Spec == Init /\ [][Next]_vars

-----------------------------------------------------------------------------
(* How many slots lie between the head and t, going round. *)
Age(t) == IF t >= head THEN t - head ELSE t - head + Size

(* Type correctness of the four fields. *)
TypeOK ==
  /\ entries \in [Slot -> [state : State, info : Info \cup {NoInfo},
                           result : Value \cup {NoValue}]]
  /\ head \in Slot
  /\ tail \in Slot
  /\ count \in 0 .. Size

(* The three position fields agree however often head and tail have wrapped *)
(* round: tail is count slots past head, and full and empty are told apart  *)
(* although head = tail in both (allocate, commit, flush).                  *)
PositionsAgree ==
  tail = IF head + count < Size THEN head + count ELSE head + count - Size

(* The slots in use are exactly the count slots from head on: no live entry *)
(* lies outside the window, where the next allocate would overwrite it, and *)
(* no idle one inside it, where commit would wait for it for ever.          *)
WindowIsLive ==
  \A t \in Slot : entries[t].state # "IDLE" <=> Age(t) < count

(* The live entries, oldest first. *)
Queue == INSTANCE RetireQueue WITH
           queue <- [k \in 1 .. count |-> entries[(head + k - 1) % Size]]

(* Whatever its head and tail have been through, the circular buffer is a  *)
(* queue: an entry keeps its place and its result until it is the oldest   *)
(* and DONE, and no operation loses, duplicates or reorders one.           *)
ImplementsQueue == Queue!Spec
=============================================================================
