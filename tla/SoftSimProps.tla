----------------------------- MODULE SoftSimProps -----------------------------
(***************************************************************************)
(* What makes the software simulator correct: it implements the sequential *)
(* machine Isa, and the invariants of renaming, wake-up, memory order and  *)
(* branch stalling on which that rests.                                    *)
(***************************************************************************)
EXTENDS SoftSim, FiniteSets

Tag == ROB!Slot

Live(t) == robEntries[t].state # "IDLE"

Older(t, u) == ROB!Age(t) < ROB!Age(u)

(* The address of the oldest instruction that has not retired. *)
ArchPc ==
  IF ~ROB!empty THEN Entry.info.pc
  ELSE IF IQ!can_dispatch THEN IQ!peek.pc
  ELSE 4 * iqPc

ISA == INSTANCE Isa WITH regs <- rf, pc <- ArchPc

(* Type correctness of every field of the pipeline. *)
TypeOK ==
  /\ program \in Seq(Decoded)
  /\ iqPc \in Nat /\ Len(iqBuffer) <= IqCapacity
  /\ ROB!TypeOK
  /\ rat \in [Reg -> Tag \cup {NoTag}]
  /\ rf \in [Reg -> Word] /\ rf[X0] = 0
  /\ mem \in [0 .. MemWords - 1 -> Word]
  /\ \A s \in Station : \A i \in RS!RSlot(s) :
       LET e == rs[s][i] IN
       /\ e.busy \in BOOLEAN /\ e.done \in BOOLEAN /\ e.op \in Opcode
       /\ {e.vj, e.vk, e.result} \subseteq Word /\ e.rem \in Nat
       /\ {e.tag, e.qj, e.qk} \subseteq Tag \cup {NoTag}
  /\ \A i \in LSB!LSlot :
       LET e == lsbEntries[i] IN
       /\ e.state \in {"IDLE", "WAITING", "ADDR_READY", "EXECUTING", "DONE"}
       /\ {e.vj, e.vk, e.addr, e.result} \subseteq Word /\ e.rem \in Nat
       /\ {e.tag, e.qj, e.qk} \subseteq Tag \cup {NoTag}
  /\ lsbHead \in LSB!LSlot /\ lsbTail \in LSB!LSlot /\ lsbCount \in 0 .. LsbSize
  /\ cdb \in Seq([tag : Tag, value : Word])
  /\ slot \in 0 .. IqFetchWidth
  /\ branch_in_flight \in BOOLEAN /\ halted \in BOOLEAN
  /\ cycle \in 1 .. MaxCycles + 1
  /\ last.op \in Opcode /\ last.rd \in Reg \cup {NoReg} /\ last.result \in Word

(* Out-of-order execution is invisible: seen through the register file, the *)
(* memory and the oldest unretired pc, the whole pipeline does nothing but  *)
(* execute the program one instruction at a time (sim.cpp main loop,        *)
(* commit_unit.cpp).                                                        *)
ImplementsIsa == ISA!Spec

-----------------------------------------------------------------------------
Writers(r) == {t \in Tag : Live(t) /\ robEntries[t].info.rd = r}

(* The rename table names the youngest unretired writer of every register, *)
(* and no one when there is none: committing an older writer leaves a newer *)
(* mapping alone, and no mapping outlives its ROB slot, which is about to  *)
(* be reused (register_remapping_table.cpp map, commit).                   *)
RatNamesYoungestWriter ==
  \A r \in Reg \ {X0} :
    IF Writers(r) = {} THEN rat[r] = NoTag
    ELSE /\ rat[r] \in Writers(r)
         /\ \A t \in Writers(r) \ {rat[r]} : Older(t, rat[r])

LsbLive == {LSB!At(k) : k \in LSB!Position}
RsBusy  == UNION {{rs[s][i] : i \in {j \in RS!RSlot(s) : rs[s][j].busy}} : s \in Station}

(* No wake-up is ever lost: whatever an entry still waits for is an older, *)
(* unretired instruction whose result is yet to be broadcast, or is on the *)
(* bus and about to be snooped; an entry that misses its broadcast would   *)
(* wait for ever, or take the result of the slot's next owner.  And nobody *)
(* waits for a jump, whose ROB result is its target and not the value of   *)
(* its register (resolve_operand, both snoop loops, phases 3, 4 and 6).    *)
NoLostWakeup ==
  \A e \in RsBusy \cup LsbLive : \A q \in {e.qj, e.qk} \ {NoTag} :
    /\ Older(q, e.tag)
    /\ ~is_jump(robEntries[q].info.op)
    /\ \/ InFlight(q) /\ ~CDB!OnBus(q)
       \/ phase \in {"broadcast", "snoop"} /\ CDB!OnBus(q)

StationSlots == UNION {{s} \X RS!RSlot(s) : s \in Station}

Holders(t) ==
  {p \in StationSlots : rs[p[1]][p[2]].busy /\ rs[p[1]][p[2]].tag = t}
    \cup {k \in LSB!Position : LSB!At(k).tag = t}

(* Every unfinished ROB entry is in exactly one station or LSB slot, so its *)
(* result comes exactly once; a finished one is nowhere, except a store,    *)
(* which stays in the LSB until it commits (try_dispatch, pop_result,       *)
(* pop_load_result, commit_store).                                          *)
OneUnitPerEntry ==
  \A t \in Tag :
    Cardinality(Holders(t)) =
      IF InFlight(t) \/ (Live(t) /\ is_store(robEntries[t].info.op)) THEN 1 ELSE 0

-----------------------------------------------------------------------------
(* The LSB holds the memory operations in program order, and the LSB head  *)
(* is the very store the ROB retires: commit_store takes the LSB head on   *)
(* trust and would otherwise write some other store (commit_unit.cpp).     *)
LsbInProgramOrder ==
  /\ \A j, k \in LSB!Position : j < k => Older(LSB!At(j).tag, LSB!At(k).tag)
  /\ \A k \in LSB!Position : robEntries[LSB!At(k).tag].info.op = LSB!At(k).op
  /\ ROB!head_ready /\ is_store(Entry.info.op) =>
       LSB!can_commit_store /\ LSB!At(0).tag = robHead

SameWord(k) ==
  {j \in LSB!Position :
     /\ j < k /\ is_store(LSB!At(j).op)
     /\ LSB!WordIndex(LSB!At(j).addr) = LSB!WordIndex(LSB!At(k).addr)}

(* A load that has its value has the value it would have at its turn in    *)
(* program order: that of the youngest older store to its word that is     *)
(* still in the LSB, else what memory holds (LoadStoreBuffer::tick,        *)
(* commit_store).                                                          *)
LoadsSeeOlderStores ==
  \A k \in LSB!Position :
    LET e == LSB!At(k) IN
    is_load(e.op) /\ e.state = "DONE" =>
      /\ \A j \in 0 .. k - 1 : is_store(LSB!At(j).op) => LSB!At(j).state # "WAITING"
      /\ e.result = IF SameWord(k) = {} THEN LSB!ReadMem(e.addr)
                                         ELSE LSB!At(Max(SameWord(k))).vk

-----------------------------------------------------------------------------
ControlOps == Branches \cup Jumps

(* While a branch or jump is in flight it is the youngest instruction and  *)
(* the fetch buffer is empty, so nothing is ever fetched past it; and the  *)
(* stall ends exactly when it retires (sim.cpp phases 5 and 6).  docs/     *)
(* ISA.md says otherwise: PredictsNotTaken below.                          *)
StallsBehindBranch ==
  LET control == {t \in Tag : Live(t) /\ robEntries[t].info.op \in ControlOps}
  IN  /\ branch_in_flight <=> control # {}
      /\ branch_in_flight => iqBuffer = << >>
      /\ \A t \in control : \A u \in Tag : Live(u) => ~Older(t, u)

(* On a unit that is not pipelined no two entries of an opcode execute at  *)
(* the same time, however many become ready together                       *)
(* (ReservationStation::tick).                                             *)
OneAtATimeUnpipelined ==
  \A s \in Station : \A i, j \in RS!RSlot(s) :
    /\ i # j /\ rs[s][i].op = rs[s][j].op
    /\ RS!Executing(rs[s][i]) /\ RS!Executing(rs[s][j])
    => is_pipelined(rs[s][i].op)

(* A program whose control flow goes forward only. *)
Forward ==
  \A i \in DOMAIN program :
    /\ program[i].op \in Branches \cup {"JAL"} => program[i].imm > 0
    /\ program[i].op # "JALR"

(* No program without a backward branch is cut off by MAX_CYCLES: every    *)
(* one gets to its HALT or retires its last instruction, so that nothing   *)
(* waits for ever for an operand, a unit or a slot (the loop of main).     *)
Completes == phase = "exit" /\ Forward => Finished

-----------------------------------------------------------------------------
(* Where execution may go on after the instruction at pc, by the program   *)
(* alone; a target is cut to a word by seek.                               *)
MayFollow(pc, next) ==
  LET i == program[pc \div 4 + 1]
      taken == 4 * (Wrap(pc + i.imm) \div 4)
  IN  CASE is_branch(i.op) -> next \in {pc + 4, taken}
        [] i.op = "JAL"    -> next = taken
        [] i.op = "JALR"   -> TRUE
        [] OTHER           -> next = pc + 4

(* What retired in the cycles before this one is in the log. *)
LogWritten == phase \in {"update_rob", "broadcast", "snoop", "commit"}

(* cu.log is a path of the program from address 0, with no line missing,   *)
(* repeated or out of order, however many idle cycles lie between two      *)
(* commits; and once a cycle has written its line, the path leads to the   *)
(* oldest instruction that has not retired.  A line names a register       *)
(* exactly when its instruction has one (CommitUnit::tick, dump, the order *)
(* of log and commit in the loop).                                         *)
LogFollowsProgram ==
  LET pcs == [k \in DOMAIN cuLog |-> cuLog[k].pc]
      path == IF LogWritten THEN Append(pcs, ArchPc) ELSE pcs
  IN  /\ path # << >> => path[1] = 0
      /\ \A k \in 1 .. Len(path) - 1 : MayFollow(path[k], path[k + 1])
      /\ \A k \in DOMAIN cuLog :
           LET i == program[cuLog[k].pc \div 4 + 1] IN
           /\ cuLog[k].name = opcode_name(i.op)
           /\ cuLog[k].written = << >> <=> i.rd = NoReg

-----------------------------------------------------------------------------
(* "Prediction | Not-taken - fetch continues sequentially from PC + 4"     *)
(* (docs/ISA.md): in every cycle before HALT in which the buffer has room  *)
(* and instructions are left, the fetch phase takes the next one, behind a *)
(* branch in flight as well.                                               *)
PredictsNotTaken ==
  [][ /\ phase = "fetch" /\ phase' # "fetch"
      /\ ~halted /\ Len(iqBuffer) < IqCapacity /\ iqPc < Len(program)
      => iqPc' > iqPc ]_vars
=============================================================================
