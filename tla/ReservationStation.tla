-------------------------- MODULE ReservationStation --------------------------
(***************************************************************************)
(* The six reservation stations of the software simulator                  *)
(* (reservation_station.{h,cpp}).  rs[s] is entries_ of station s; its     *)
(* count_ is the number of busy slots.                                     *)
(***************************************************************************)
EXTENDS Integers, FiniteSetsExt

CONSTANTS
  Station,       \* the stations
  StationSize,   \* the RS_*_SIZE constants, by station
  NoTag,         \* the ROB tag -1
  latency_of(_), is_pipelined(_), execute_op(_, _, _, _, _)

VARIABLES rs, cdb

Bus == INSTANCE CommonDataBus

RSlot(s) == 1 .. StationSize[s]

FreeEntry ==
  [busy |-> FALSE, done |-> FALSE, op |-> "NOP", tag |-> NoTag, imm |-> 0,
   pc |-> 0, vj |-> 0, vk |-> 0, qj |-> NoTag, qk |-> NoTag, rem |-> 0,
   result |-> 0]

Init == rs = [s \in Station |-> [i \in RSlot(s) |-> FreeEntry]]

full(s) == \A i \in RSlot(s) : rs[s][i].busy

FreeSlot(s) == Min({i \in RSlot(s) : ~rs[s][i].busy})

(* a and b are the resolved operands: [v, q]. *)
issue(s, instr, tag, a, b) ==
  /\ ~full(s)
  /\ rs' = [rs EXCEPT ![s][FreeSlot(s)] =
              [FreeEntry EXCEPT !.busy = TRUE, !.op = instr.op,
                 !.tag = tag, !.imm = instr.imm, !.pc = instr.pc,
                 !.vj = a.v, !.qj = a.q, !.vk = b.v, !.qk = b.q]]

snoop ==
  rs' = [s \in Station |-> [i \in RSlot(s) |->
           IF rs[s][i].busy /\ ~rs[s][i].done
             THEN Bus!Captured(rs[s][i]) ELSE rs[s][i]]]

-----------------------------------------------------------------------------
(* tick, first pass: one cycle of every executing entry. *)
Result(e) == execute_op(e.op, e.vj, e.vk, e.imm, e.pc)

Finish(e) == [e EXCEPT !.rem = 0, !.result = Result(e), !.done = TRUE]

Executing(e) == e.busy /\ ~e.done /\ e.rem # 0

CountDown(e) ==
  IF ~Executing(e)   THEN e
  ELSE IF e.rem = 1  THEN Finish(e)
  ELSE [e EXCEPT !.rem = @ - 1]

(* tick, second pass: start the ready entries.  On a unit that is not      *)
(* pipelined an entry is held back by another one of the same opcode that  *)
(* is executing, one started earlier in this pass included.                *)
Ready(e) == e.busy /\ ~e.done /\ e.qj = NoTag /\ e.qk = NoTag /\ e.rem = 0

(* Mutant: an entry started earlier in the same pass is overlooked. *)
UnitBusy_BeforePass(st, i) ==
  \E j \in DOMAIN st : j # i /\ st[j].op = st[i].op /\ Executing(st[j])

UnitBusy(st, i) ==
  \E j \in DOMAIN st :
    /\ st[j].op = st[i].op
    /\ \/ j # i /\ Executing(st[j])
       \/ j < i /\ Ready(st[j]) /\ latency_of(st[j].op) > 1

Starts(st, i) ==
  Ready(st[i]) /\ (is_pipelined(st[i].op) \/ ~UnitBusy(st, i))

Start(e) ==
  IF latency_of(e.op) <= 1 THEN Finish(e)
                           ELSE [e EXCEPT !.rem = latency_of(e.op) - 1]

Ticked(st) ==
  LET counted == [i \in DOMAIN st |-> CountDown(st[i])]
  IN  [i \in DOMAIN st |->
         IF Starts(counted, i) THEN Start(counted[i]) ELSE counted[i]]

tick == rs' = [s \in Station |-> Ticked(rs[s])]

-----------------------------------------------------------------------------
has_result(s) == \E i \in RSlot(s) : rs[s][i].busy /\ rs[s][i].done

DoneSlot(s) == Min({i \in RSlot(s) : rs[s][i].busy /\ rs[s][i].done})

(* The entry pop_result hands out. *)
Popped(s) == rs[s][DoneSlot(s)]

(* Mutant: the result is taken but the slot is not released. *)
pop_result_KeepsSlot(s) ==
  /\ has_result(s)
  /\ rs' = [rs EXCEPT ![s][DoneSlot(s)].done = FALSE]

pop_result(s) ==
  /\ has_result(s)
  /\ rs' = [rs EXCEPT ![s][DoneSlot(s)] = FreeEntry]
=============================================================================
