------------------------------ MODULE RtlProps -------------------------------
(***************************************************************************)
(* What makes the RTL pipeline correct: it implements the sequential       *)
(* machine RtlIsa, and the invariants of fetching, renaming, wake-up, tag  *)
(* ownership and memory order on which that rests.                         *)
(***************************************************************************)
EXTENDS RtlCore

Live(t)     == entries[t].state # "IDLE"
InFlight(t) == entries[t].state = "IN_FLIGHT"

Older(t, u) == ROB!Age(t) < ROB!Age(u)

(* The address of the oldest instruction that has not retired. *)
ArchPc ==
  IF count > 0 THEN entries[head].pc
  ELSE IF iq_valid THEN iq_instr.pc
  ELSE IF fetch.valid THEN fetch.pc_d
  ELSE fetch.pc

ISA == INSTANCE RtlIsa WITH mem <- dmem, pc <- ArchPc, Decode <- decode

(* Out-of-order execution is invisible: seen through the register file, the *)
(* data memory, the halt latch and the oldest unretired pc, every clock     *)
(* edge executes at most one instruction of the program, in program order   *)
(* (tomasulo_core.sv as a whole).                                           *)
ImplementsIsa == ISA!Spec

-----------------------------------------------------------------------------
Source  == [ready : BOOLEAN, val : Word, tag : Tag]
IsEntry(e) ==
  /\ e.rob_tag \in Tag /\ e.src[1] \in Source /\ e.src[2] \in Source
  /\ e.imm \in Word /\ e.pc \in Word
IsBus(b) == b.valid \in BOOLEAN /\ b.tag \in Tag /\ b.value \in Word

(* Type correctness of every register of the pipeline. *)
TypeOK ==
  /\ fetch \in [pc : Word, pc_d : Word, valid : BOOLEAN]
  /\ iq.count \in 0 .. IQ_DEPTH
  /\ iq.head \in 0 .. IQ_DEPTH - 1 /\ iq.tail \in 0 .. IQ_DEPTH - 1
  /\ head \in Slot /\ tail \in Slot /\ count \in 0 .. ROB_SIZE
  /\ \A t \in Slot :
       /\ entries[t].state \in {"IDLE", "IN_FLIGHT", "DONE"}
       /\ entries[t].rd \in Reg /\ entries[t].rd_valid \in BOOLEAN
       /\ {entries[t].result, entries[t].pc, entries[t].branch_target}
            \subseteq Word
  /\ rat \in [Reg -> [valid : BOOLEAN, tag : Tag]]
  /\ regs \in [Reg -> Word] /\ dmem \in [0 .. MEM_SIZE - 1 -> Word]
  /\ last_grant \in Fu
  /\ \A s \in Station :
       busy[s] \subseteq Slots(s) /\ \A i \in Slots(s) : IsEntry(slots[s][i])
  /\ \A i \in Fu : IsBus(fu_results(i))
  /\ \A i \in DOMAIN lsb.entries : IsEntry(lsb.entries[i])
  /\ halted \in BOOLEAN

-----------------------------------------------------------------------------
(* The pcs that are in the machine, oldest first: reorder buffer, queue,   *)
(* and the word that fetch is about to push.                               *)
RobPcs == [i \in 1 .. count |-> entries[(head + i - 1) % TagSpan].pc]
IqPcs  == [i \in 1 .. iq.count |-> iq.entries[(iq.head + i - 1) % IQ_DEPTH].pc]
Pcs    == RobPcs \o IqPcs \o (IF fetch.valid THEN <<fetch.pc_d>> ELSE <<>>)
            \o <<fetch.pc>>

(* Nothing is fetched twice, skipped or carried over a flush: from the     *)
(* oldest unretired instruction to the fetch pc, the machine holds a       *)
(* straight run of the program, and every queued instruction is the one    *)
(* stored at its pc, whatever the stalls of the full queue (cpu.sv         *)
(* imem_read_pc, instr_queue.sv).                                          *)
StraightLine ==
  /\ \A i \in 1 .. Len(Pcs) - 1 : Pcs[i + 1] = Wrap(Pcs[i] + 4)
  /\ \A i \in 1 .. iq.count :
       LET d == iq.entries[(iq.head + i - 1) % IQ_DEPTH]
       IN d = decode(imem[WordIndex(d.pc)], d.pc)
  /\ fetch.valid => instr_raw = imem[WordIndex(fetch.pc_d)]

(* In the whole machine the reorder buffer keeps its window, and the copy  *)
(* of head that tomasulo_core.sv keeps for the commit unit is head, so     *)
(* that the tag with which a retiring instruction clears its mapping and   *)
(* releases its store is its own (rob.sv, tomasulo_core.sv rob_head_reg).  *)
RobWindow ==
  /\ ROB!PositionsAgree
  /\ ROB!WindowIsLive
  /\ rob_head_reg = head

-----------------------------------------------------------------------------
Writers(r) ==
  {t \in Slot : Live(t) /\ entries[t].rd_valid /\ entries[t].rd = r}

(* The rename table names the youngest unretired writer of every register, *)
(* and no one when there is none, also when a writer retires in the cycle  *)
(* in which the next one is dispatched (rat.sv).                           *)
RatNamesYoungestWriter ==
  \A r \in Reg \ {X0} :
    /\ rat[r].valid <=> Writers(r) # {}
    /\ rat[r].valid =>
         /\ rat[r].tag \in Writers(r)
         /\ \A t \in Writers(r) : ~Older(rat[r].tag, t)

(* Every instruction that waits in a station or in the load/store buffer. *)
Waiting ==
  (UNION {{slots[s][i] : i \in busy[s]} : s \in Station})
    \cup {lsb.entries[i] : i \in lsb.valid}

(* No wake-up is lost: an operand that is not ready waits for an older     *)
(* instruction that has not broadcast its result yet, although producers   *)
(* finish, broadcast and retire in the very cycle in which the consumer is *)
(* dispatched (dispatch.sv operand selection, reservation_station.sv and   *)
(* load_store_buffer.sv snoop).                                            *)
OperandsAwaitProducers ==
  \A e \in Waiting : \A k \in 1 .. 2 :
    ~e.src[k].ready =>
      /\ InFlight(e.src[k].tag)
      /\ entries[e.src[k].tag].rd_valid
      /\ Older(e.src[k].tag, e.rob_tag)

-----------------------------------------------------------------------------
Where(c, place) == IF c THEN {place} ELSE {}

(* The places that hold the instruction of slot t or its result. *)
Holders(t) ==
  (UNION {{<<"station", s, i>> : i \in {j \in busy[s] : slots[s][j].rob_tag = t}}
            : s \in Station})
  \cup (UNION {{<<"stage", u, k>> :
                  k \in {j \in 1 .. PipeDepth[u] :
                           pipe[u][j].valid /\ pipe[u][j].tag = t}} : u \in Pipe})
  \cup {<<"lsb", i>> : i \in {j \in lsb.valid \ lsb.notified :
                                lsb.entries[j].rob_tag = t}}
  \cup Where(alu.valid /\ alu.tag = t, <<"alu">>)
  \cup Where(alu_cdb.valid /\ alu_cdb.tag = t, <<"alu_cdb">>)
  \cup Where(br.valid /\ br.tag = t, <<"br">>)
  \cup Where(br_cdb.valid /\ br_cdb.tag = t, <<"br_cdb">>)
  \cup Where(div.state # "IDLE" /\ div.tag = t, <<"div">>)
  \cup Where(load.pending /\ load.tag = t, <<"load">>)

(* Every instruction in flight is in exactly one place, so that exactly    *)
(* one result will arrive under its tag: none is dropped by a stalled      *)
(* pipeline or a busy latch, and none of a flushed instruction, which the  *)
(* output registers of alu_int and branch_unit keep over a flush, is still *)
(* there when its tag is in use again.                                     *)
OneOwner == \A t \in Slot : InFlight(t) => Cardinality(Holders(t)) = 1

(* A branch outcome reaches the reorder buffer while its branch is in      *)
(* flight: the branch port of rob.sv tests is_branch only, and would bring *)
(* a retired slot back to life.                                            *)
BranchResolvesInFlight ==
  br.valid /\ entries[br.tag].is_branch => InFlight(br.tag)

-----------------------------------------------------------------------------
(* The load/store buffer holds the memory operations that have neither     *)
(* started their load nor written their store, in program order, and no    *)
(* load starts before every older store is in memory (load_store_buffer.sv *)
(* head-only issue).                                                       *)
MemoryInOrder ==
  /\ \A i \in 1 .. lsb.count :
       LET p == (lsb.head + i - 1) % LSB_SIZE
           q == (lsb.head + i) % LSB_SIZE
       IN /\ p \in lsb.valid
          /\ Live(lsb.entries[p].rob_tag)
          /\ i < lsb.count =>
               Older(lsb.entries[p].rob_tag, lsb.entries[q].rob_tag)
  /\ Cardinality(lsb.valid) = lsb.count
  /\ load.pending =>
       \A t \in Slot :
         Live(t) /\ is_store_op(entries[t].op) => Older(load.tag, t)

(* The machine gets to the HALT at the end of the program, through every   *)
(* stall: no latch, arbiter, station or buffer waits for ever.             *)
Halts == <>halted

-----------------------------------------------------------------------------
(* "rd = PC+4" (rv32if_pkg.sv OP_JAL, OP_JALR): a jump retires with its    *)
(* return address as its result.                                           *)
JumpLinks ==
  commit /\ retiring.op \in JumpOps => retiring.result = Wrap(retiring.pc + 4)

(* A bus tag is the "ROB index of the completing instruction"              *)
(* (rv32if_pkg.sv cdb_t): a broadcast under the tag of an instruction in   *)
(* flight is that instruction's, the only one on its way.                  *)
BusNamesCompleting ==
  cdb_w.valid /\ InFlight(cdb_w.tag) => Cardinality(Holders(cdb_w.tag)) = 1
=============================================================================
