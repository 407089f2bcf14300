------------------------------- MODULE SoftSim -------------------------------
(***************************************************************************)
(* The software simulator: main of sim.cpp from the source text to the     *)
(* final report, with try_dispatch, the commit unit and resolve_operand,   *)
(* over the component modules.  A cycle is the seven phases of the loop in *)
(* their order; phase says which comes next.  A loop inside a phase (one   *)
(* CDB result, one dispatched instruction) is one step per iteration.      *)
(***************************************************************************)
EXTENDS ExecuteOp, Assembler

CONSTANTS
  RobSize, LsbSize, MemWords, IqCapacity, IqFetchWidth,
  StationSize,    \* RS_*_SIZE by station
  MaxCycles       \* MAX_CYCLES

StationOrder == <<"alu", "branch", "fp_addsub", "fp_mul", "fp_div", "fp_cvt">>
Station      == {StationOrder[k] : k \in DOMAIN StationOrder}

ASSUME SizesAssumption ==
  /\ {RobSize, LsbSize, MemWords, IqCapacity, IqFetchWidth, MaxCycles}
       \subseteq Nat \ {0}
  /\ StationSize \in [Station -> Nat \ {0}]

(* A program fits the address space. *)
ASSUME ProgramsAssumption == \A s \in Sources : 4 * Len(s) < WordSize

VARIABLES
  program, iqBuffer, iqPc,                       \* iq
  robEntries, robHead, robTail, robCount,        \* rob
  rat,                                           \* int_rat_ and fp_rat_
  rf,                                            \* the register file
  rs,                                            \* the six stations
  lsbEntries, lsbHead, lsbTail, lsbCount,        \* lsb
  mem,
  cdb,
  phase,               \* where the loop body is
  slot,                \* the loop variable _w of the dispatch loop
  branch_in_flight,
  halted,
  cycle,
  last,                \* last_: the CommitRecord of the latest CommitUnit::tick
  cuLog,               \* the COMMIT lines of cu.log
  report               \* final_regs.txt, once it is written

iqVars   == <<iqBuffer, iqPc>>
robVars  == <<robEntries, robHead, robTail, robCount>>
lsbVars  == <<lsbEntries, lsbHead, lsbTail, lsbCount>>
archVars == <<rf, mem>>
outVars  == <<last, cuLog, report>>
vars     == <<asmVars, program, iqVars, robVars, rat, archVars, rs, lsbVars, cdb,
              phase, slot, branch_in_flight, halted, cycle, outVars>>

NoInfo == [op |-> "NOP", rd |-> NoReg, pc |-> 0]
Info   == [op : Opcode, rd : Reg \cup {NoReg}, pc : Nat]

IQ  == INSTANCE InstructionQueue WITH buffer <- iqBuffer, pc <- iqPc
ROB == INSTANCE ReorderBuffer WITH
         Size <- RobSize, Value <- Word, NoValue <- 0, entries <- robEntries,
         head <- robHead, tail <- robTail, count <- robCount
RS  == INSTANCE ReservationStation
LSB == INSTANCE LoadStoreBuffer WITH entries <- lsbEntries, head <- lsbHead,
         tail <- lsbTail, count <- lsbCount
CDB == INSTANCE CommonDataBus
RF  == INSTANCE RegisterFile
RAT == INSTANCE RegisterRemappingTable

NoCommit == [valid |-> FALSE, op |-> "NOP", rd |-> NoReg, result |-> 0, pc |-> 0]

NotWritten == [cycles |-> 0, regs |-> << >>, mem |-> << >>]

Init ==
  /\ AsmInit
  /\ program = << >>
  /\ IQ!Init
  /\ ROB!Init
  /\ RAT!Init
  /\ RF!Init
  /\ RS!Init
  /\ LSB!Init
  /\ mem = [w \in 0 .. MemWords - 1 |-> 0]
  /\ CDB!Init
  /\ phase = "parse"
  /\ slot = 0
  /\ branch_in_flight = FALSE
  /\ halted = FALSE
  /\ cycle = 1
  /\ last = NoCommit
  /\ cuLog = << >>
  /\ report = NotWritten

pipeVars == <<robVars, rat, archVars, rs, lsbVars, cdb, slot, branch_in_flight,
              halted, cycle, outVars>>

-----------------------------------------------------------------------------
(* Before the loop: parse_program, then load_program or the early return.  *)
Parse ==
  /\ phase = "parse"
  /\ AsmNext
  /\ UNCHANGED <<program, iqVars, pipeVars, phase>>

(* The locals of parse_program are gone once it has returned. *)
Returned ==
  /\ phase = "parse" /\ pass = "done"
  /\ raw' = << >> /\ line' = 1 /\ wpc' = 0 /\ labels' = << >> /\ prog' = << >>
  /\ UNCHANGED <<pass, pipeVars>>

LoadProgram ==
  /\ Returned
  /\ prog # << >>
  /\ IQ!load_program(prog)
  /\ phase' = "execute"

NoInstructions ==
  /\ Returned
  /\ prog = << >>
  /\ phase' = "no_instructions"
  /\ UNCHANGED <<program, iqVars>>

-----------------------------------------------------------------------------
(* CommitUnit::dump at the start of a cycle: what retired in the last one. *)
(* A line names a register, with its value, only for a commit that has one. *)
LogLine(r) ==
  [name    |-> opcode_name(r.op),
   pc      |-> r.pc,
   written |-> IF r.rd = NoReg THEN << >> ELSE <<r.rd, r.result>>]

log_cycle == cuLog' = IF last.valid THEN Append(cuLog, LogLine(last)) ELSE cuLog

(* The logs, then phase 1: one cycle of every station and of the           *)
(* load/store buffer.                                                      *)
Execute ==
  /\ phase = "execute"
  /\ log_cycle
  /\ RS!tick
  /\ LSB!tick
  /\ phase' = "update_rob"
  /\ UNCHANGED <<asmVars, last, report, program, iqVars, robVars, rat, archVars, cdb, slot,
                 branch_in_flight, halted, cycle>>

(* Phase 2: LoadStoreBuffer::update_rob, one store per step. *)
InFlight(t) == robEntries[t].state = "IN_FLIGHT"

NotifyStore ==
  /\ phase = "update_rob"
  /\ \E t \in LSB!DoneStoreTags : InFlight(t) /\ ROB!write_result(t, 0)
  /\ UNCHANGED <<asmVars, outVars, program, iqVars, rat, archVars, rs, lsbVars, cdb, phase, slot,
                 branch_in_flight, halted, cycle>>

StoresNotified ==
  /\ phase = "update_rob"
  /\ \A t \in LSB!DoneStoreTags : ~InFlight(t)
  /\ phase' = "broadcast"
  /\ UNCHANGED <<asmVars, outVars, program, iqVars, robVars, rat, archVars, rs, lsbVars, cdb,
                 slot, branch_in_flight, halted, cycle>>

(* Phase 3: results to the ROB and onto the bus; the stations in order,    *)
(* each drained before the next, then the loads at the LSB head.           *)
BroadcastStation ==
  \E k \in DOMAIN StationOrder :
    LET s == StationOrder[k]
        r == RS!Popped(s)
    IN  /\ phase = "broadcast"
        /\ RS!has_result(s)
        /\ \A j \in 1 .. k - 1 : ~RS!has_result(StationOrder[j])
        /\ RS!pop_result(s)
        /\ ROB!write_result(r.tag, r.result)
        /\ CDB!broadcast(r.tag, r.result)
        /\ UNCHANGED <<asmVars, outVars, program, iqVars, rat, archVars, lsbVars, phase, slot,
                       branch_in_flight, halted, cycle>>

StationsDrained == \A s \in Station : ~RS!has_result(s)

BroadcastLoad ==
  LET r == lsbEntries[lsbHead] IN
  /\ phase = "broadcast"
  /\ StationsDrained
  /\ LSB!pop_load_result
  /\ ROB!write_result(r.tag, r.result)
  /\ CDB!broadcast(r.tag, r.result)
  /\ UNCHANGED <<asmVars, outVars, program, iqVars, rat, archVars, rs, phase, slot,
                 branch_in_flight, halted, cycle>>

BroadcastEnds ==
  /\ phase = "broadcast"
  /\ StationsDrained
  /\ ~LSB!has_load_result
  /\ phase' = "snoop"
  /\ UNCHANGED <<asmVars, outVars, program, iqVars, robVars, rat, archVars, rs, lsbVars, cdb,
                 slot, branch_in_flight, halted, cycle>>

(* Phase 4: waiting entries capture this cycle's results. *)
Snoop ==
  /\ phase = "snoop"
  /\ RS!snoop
  /\ LSB!snoop
  /\ phase' = "commit"
  /\ UNCHANGED <<asmVars, outVars, program, iqVars, robVars, rat, archVars, cdb, slot,
                 branch_in_flight, halted, cycle>>

-----------------------------------------------------------------------------
(* Phase 5: CommitUnit::tick and what the loop does with its answer, one   *)
(* action per kind of head entry.                                          *)
Entry == robEntries[robHead]

Committing ==
  /\ phase = "commit"
  /\ ROB!commit
  /\ last' = [valid |-> TRUE, op |-> Entry.info.op, rd |-> Entry.info.rd,
              result |-> Entry.result, pc |-> Entry.info.pc]
  /\ phase' = "fetch"
  /\ UNCHANGED <<asmVars, program, rs, cdb, slot, cycle, cuLog, report>>

CommitHalt ==
  /\ Committing
  /\ Entry.info.op = "HALT"
  /\ halted' = TRUE
  /\ UNCHANGED <<iqVars, rat, archVars, lsbVars, branch_in_flight>>

Redirect ==
  /\ branch_in_flight' = FALSE
  /\ IQ!seek(Entry.result)

CommitBranch ==
  /\ Committing
  /\ is_branch(Entry.info.op)
  /\ Redirect
  /\ UNCHANGED <<rat, archVars, lsbVars, halted>>

(* The entry's result is the target; the register gets the return address. *)
CommitJump ==
  /\ Committing
  /\ is_jump(Entry.info.op)
  /\ Redirect
  /\ RF!write(Entry.info.rd, Wrap(Entry.info.pc + 4))
  /\ RAT!commit(Entry.info.rd, robHead)
  /\ UNCHANGED <<mem, lsbVars, halted>>

CommitStore ==
  /\ Committing
  /\ is_store(Entry.info.op)
  /\ LSB!commit_store
  /\ UNCHANGED <<iqVars, rat, rf, branch_in_flight, halted>>

CommitResult ==
  /\ Committing
  /\ Entry.info.op \notin {"HALT"} \cup Branches \cup Jumps \cup Stores
  /\ RF!write(Entry.info.rd, Entry.result)
  /\ RAT!commit(Entry.info.rd, robHead)
  /\ UNCHANGED <<iqVars, mem, lsbVars, branch_in_flight, halted>>

(* Mutant: the record of the commit before is left in place. *)
CommitNothing_KeepsLast ==
  /\ phase = "commit"
  /\ ~ROB!head_ready
  /\ phase' = "fetch"
  /\ UNCHANGED <<asmVars, program, iqVars, robVars, rat, archVars, rs, lsbVars,
                 cdb, slot, branch_in_flight, halted, cycle, outVars>>

CommitNothing ==
  /\ phase = "commit"
  /\ ~ROB!head_ready
  /\ last' = NoCommit
  /\ phase' = "fetch"
  /\ UNCHANGED <<asmVars, program, iqVars, robVars, rat, archVars, rs, lsbVars,
                 cdb, slot, branch_in_flight, halted, cycle, cuLog, report>>

-----------------------------------------------------------------------------
(* Phase 6: fetch, then dispatch up to IQ_FETCH_WIDTH instructions.        *)
Fetch ==
  /\ phase = "fetch"
  /\ ~branch_in_flight /\ ~halted
  /\ IQ!tick
  /\ slot' = 0
  /\ phase' = "dispatch"
  /\ UNCHANGED <<asmVars, outVars, program, robVars, rat, archVars, rs, lsbVars, cdb,
                 branch_in_flight, halted, cycle>>

FetchStalled ==
  /\ phase = "fetch"
  /\ branch_in_flight \/ halted
  /\ phase' = "next_cycle"
  /\ UNCHANGED <<asmVars, outVars, program, iqVars, robVars, rat, archVars, rs, lsbVars, cdb,
                 slot, branch_in_flight, halted, cycle>>

(* Mutant: a result that is waiting in the ROB is waited for. *)
resolve_operand_NoForward(r) ==
  IF r = NoReg THEN [v |-> 0, q |-> NoTag]
  ELSE IF RAT!lookup(r) = NoTag THEN [v |-> RF!read(r), q |-> NoTag]
  ELSE [v |-> 0, q |-> RAT!lookup(r)]

resolve_operand(r) ==
  IF r = NoReg THEN [v |-> 0, q |-> NoTag]
  ELSE IF RAT!lookup(r) = NoTag THEN [v |-> RF!read(r), q |-> NoTag]
  ELSE LET e == ROB!peek(RAT!lookup(r))
       IN  IF e.state = "DONE" THEN [v |-> e.result, q |-> NoTag]
                               ELSE [v |-> 0, q |-> RAT!lookup(r)]

ToLsb(op) == is_load(op) \/ is_store(op)

TargetStation(op) ==
  CASE is_branch(op) \/ is_jump(op)   -> "branch"
    [] op \in {"FADD_S", "FSUB_S"}    -> "fp_addsub"
    [] op = "FMUL_S"                  -> "fp_mul"
    [] op = "FDIV_S"                  -> "fp_div"
    [] op \in FpCvt                   -> "fp_cvt"
    [] OTHER                          -> "alu"

HasRoom(op) ==
  ~ROB!full /\ IF ToLsb(op) THEN ~LSB!full ELSE ~RS!full(TargetStation(op))

(* try_dispatch up to iq.dispatch(): the operands are resolved against the *)
(* mapping from before this instruction.                                   *)
try_dispatch(i) ==
  LET a == resolve_operand(i.rs1)
      b == resolve_operand(i.rs2)
  IN  /\ phase = "dispatch"
      /\ slot < IqFetchWidth
      /\ HasRoom(i.op)
      /\ ROB!allocate([op |-> i.op, rd |-> i.rd, pc |-> i.pc])
      /\ IF ToLsb(i.op)
           THEN LSB!issue(i, robTail, a, b) /\ UNCHANGED rs
           ELSE RS!issue(TargetStation(i.op), i, robTail, a, b) /\ UNCHANGED lsbVars
      /\ RAT!map(i.rd, robTail)
      /\ slot' = slot + 1
      /\ UNCHANGED <<asmVars, outVars, program, archVars, cdb, halted, cycle>>

Dispatch ==
  /\ IQ!can_dispatch
  /\ ~is_branch(IQ!peek.op) /\ ~is_jump(IQ!peek.op)
  /\ try_dispatch(IQ!peek)
  /\ IQ!dispatch
  /\ UNCHANGED <<phase, branch_in_flight>>

(* Mutant: the stall flag is not set. *)
DispatchBranch_NoStall ==
  /\ IQ!can_dispatch
  /\ is_branch(IQ!peek.op) \/ is_jump(IQ!peek.op)
  /\ try_dispatch(IQ!peek)
  /\ IQ!seek(IQ!peek.pc + 4)
  /\ phase' = "next_cycle"
  /\ UNCHANGED branch_in_flight

(* A branch or jump stalls fetch until it commits. *)
DispatchBranch ==
  /\ IQ!can_dispatch
  /\ is_branch(IQ!peek.op) \/ is_jump(IQ!peek.op)
  /\ try_dispatch(IQ!peek)
  /\ IQ!seek(IQ!peek.pc + 4)
  /\ branch_in_flight' = TRUE
  /\ phase' = "next_cycle"

DispatchEnds ==
  /\ phase = "dispatch"
  /\ slot < IqFetchWidth /\ IQ!can_dispatch => ~HasRoom(IQ!peek.op)
  /\ phase' = "next_cycle"
  /\ UNCHANGED <<asmVars, outVars, program, iqVars, robVars, rat, archVars, rs, lsbVars, cdb,
                 slot, branch_in_flight, halted, cycle>>

(* Phase 7 and the two ways out of the loop, or MAX_CYCLES. *)
Finished == halted \/ (IQ!done /\ ROB!empty)

NextCycle ==
  /\ phase = "next_cycle"
  /\ CDB!flush
  /\ cycle' = cycle + 1
  /\ phase' = IF Finished \/ cycle' > MaxCycles THEN "report" ELSE "execute"
  /\ UNCHANGED <<asmVars, outVars, program, iqVars, robVars, rat, archVars, rs, lsbVars, slot,
                 branch_in_flight, halted>>

(* After the loop: the registers, and the memory words that are not zero. *)
Report ==
  /\ phase = "report"
  /\ report' = [cycles |-> cycle - 1,
                regs   |-> [r \in Reg |-> RF!read(r)],
                mem    |-> [w \in {v \in DOMAIN mem : mem[v] # 0} |-> mem[w]]]
  /\ phase' = "exit"
  /\ UNCHANGED <<asmVars, program, iqVars, robVars, rat, archVars, rs, lsbVars,
                 cdb, slot, branch_in_flight, halted, cycle, last, cuLog>>

Exited == phase \in {"exit", "no_instructions"} /\ UNCHANGED vars

Next ==
  \/ Parse \/ LoadProgram \/ NoInstructions
  \/ Execute
  \/ NotifyStore \/ StoresNotified
  \/ BroadcastStation \/ BroadcastLoad \/ BroadcastEnds
  \/ Snoop
  \/ CommitHalt \/ CommitBranch \/ CommitJump \/ CommitStore \/ CommitResult
  \/ CommitNothing
  \/ Fetch \/ FetchStalled
  \/ Dispatch \/ DispatchBranch \/ DispatchEnds
  \/ NextCycle
  \/ Report
  \/ Exited

Spec == Init /\ [][Next]_vars
=============================================================================
