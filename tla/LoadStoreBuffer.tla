--------------------------- MODULE LoadStoreBuffer ---------------------------
(***************************************************************************)
(* The load/store buffer of the software simulator                         *)
(* (load_store_buffer.{h,cpp}): a circular buffer of memory operations in  *)
(* program order.  Loads read mem here, stores write it when they commit.  *)
(***************************************************************************)
EXTENDS Integers, FiniteSetsExt

CONSTANTS
  LsbSize,      \* LSB_SIZE
  MemWords,     \* MEM_SIZE
  NoTag,        \* the ROB tag -1
  Wrap(_),      \* conversion to uint32_t
  latency_of(_), is_load(_), is_store(_)

VARIABLES
  entries, head, tail, count,   \* entries_, head_, tail_, count_
  mem,                          \* the word-addressed memory of main
  cdb

vars == <<entries, head, tail, count>>

Bus == INSTANCE CommonDataBus

LSlot == 0 .. LsbSize - 1

IdleEntry ==
  [state |-> "IDLE", op |-> "NOP", tag |-> NoTag, vj |-> 0, vk |-> 0,
   qj |-> NoTag, qk |-> NoTag, imm |-> 0, addr |-> 0, rem |-> 0, result |-> 0]

Init ==
  /\ entries = [i \in LSlot |-> IdleEntry]
  /\ head = 0
  /\ tail = 0
  /\ count = 0

full  == count = LsbSize
empty == count = 0

(* Logical (program-order) position to slot, for positions 0 .. count - 1. *)
phys(k)   == (head + k) % LsbSize
Position  == 0 .. count - 1
At(k)     == entries[phys(k)]

(* entries with the one at every position k in use replaced by f[k]. *)
Rewritten(f) ==
  [i \in LSlot |->
     LET k == IF i >= head THEN i - head ELSE i - head + LsbSize
     IN  IF k < count THEN f[k] ELSE entries[i]]

issue(instr, tag, a, b) ==
  /\ ~full
  /\ entries' = [entries EXCEPT ![tail] =
                   [IdleEntry EXCEPT !.state = "WAITING", !.op = instr.op,
                      !.tag = tag, !.imm = instr.imm,
                      !.vj = a.v, !.qj = a.q, !.vk = b.v, !.qk = b.q]]
  /\ tail' = (tail + 1) % LsbSize
  /\ count' = count + 1
  /\ UNCHANGED head

snoop ==
  /\ entries' = Rewritten([k \in Position |->
                  IF At(k).state \in {"IDLE", "DONE"} THEN At(k)
                                                     ELSE Bus!Captured(At(k))])
  /\ UNCHANGED <<head, tail, count>>

-----------------------------------------------------------------------------
(* mem is indexed by word; a read outside it gives 0.                      *)
WordIndex(addr) == addr \div 4
ReadMem(addr)   == IF WordIndex(addr) < MemWords THEN mem[WordIndex(addr)] ELSE 0

(* tick, passes 1 and 2: addresses, then stores with address and data.     *)
Addressed(e) ==
  LET a == IF e.state = "WAITING" /\ e.qj = NoTag
             THEN [e EXCEPT !.addr = Wrap(e.vj + e.imm), !.state = "ADDR_READY"]
             ELSE e
  IN  IF a.state = "ADDR_READY" /\ is_store(a.op) /\ a.qk = NoTag
        THEN [a EXCEPT !.state = "DONE"] ELSE a

(* tick, pass 3: a load against the older stores.  old[j] is the entry at  *)
(* position j after passes 1 and 2.                                        *)
OlderStores(k, old) == {j \in 0 .. k - 1 : is_store(old[j].op)}

Aliasing(k, old) == {j \in OlderStores(k, old) : old[j].addr = old[k].addr}

(* Mutant: an older store of unknown address does not block. *)
Blocked_KnownOnly(k, old) ==
  \E j \in Aliasing(k, old) : old[j].state # "DONE"

Blocked(k, old) ==
  \/ \E j \in OlderStores(k, old) : old[j].state = "WAITING"
  \/ \E j \in Aliasing(k, old) : old[j].state # "DONE"

Loaded(e) == [e EXCEPT !.rem = 0, !.result = ReadMem(e.addr), !.state = "DONE"]

(* Mutant: the load forwards from the oldest aliasing store. *)
ExecuteLoad_Oldest(k, old) ==
  LET e == old[k] IN
  IF e.state # "ADDR_READY" \/ ~is_load(e.op) \/ Blocked(k, old) THEN e
  ELSE IF Aliasing(k, old) # {}
    THEN [e EXCEPT !.result = old[Min(Aliasing(k, old))].vk, !.state = "DONE"]
  ELSE IF latency_of(e.op) <= 1 THEN Loaded(e)
  ELSE [e EXCEPT !.rem = latency_of(e.op) - 1, !.state = "EXECUTING"]

ExecuteLoad(k, old) ==
  LET e == old[k] IN
  IF e.state # "ADDR_READY" \/ ~is_load(e.op) \/ Blocked(k, old) THEN e
  ELSE IF Aliasing(k, old) # {}
    THEN [e EXCEPT !.result = old[Max(Aliasing(k, old))].vk, !.state = "DONE"]
  ELSE IF latency_of(e.op) <= 1 THEN Loaded(e)
  ELSE [e EXCEPT !.rem = latency_of(e.op) - 1, !.state = "EXECUTING"]

(* tick, pass 4: one cycle of every executing load, those just started too. *)
CountDown(e) ==
  IF e.state # "EXECUTING" THEN e
  ELSE IF e.rem = 1        THEN Loaded(e)
  ELSE [e EXCEPT !.rem = @ - 1]

tick ==
  LET old == [j \in Position |-> Addressed(At(j))]
  IN  /\ entries' = Rewritten([k \in Position |-> CountDown(ExecuteLoad(k, old))])
      /\ UNCHANGED <<head, tail, count>>

-----------------------------------------------------------------------------
Pop ==
  /\ entries' = [entries EXCEPT ![head] = IdleEntry]
  /\ head' = (head + 1) % LsbSize
  /\ count' = count - 1
  /\ UNCHANGED tail

has_load_result ==
  ~empty /\ entries[head].state = "DONE" /\ is_load(entries[head].op)

pop_load_result == has_load_result /\ Pop

can_commit_store ==
  ~empty /\ entries[head].state = "DONE" /\ is_store(entries[head].op)

(* Mutant: the store is written but stays in the buffer. *)
commit_store_KeepsEntry ==
  /\ can_commit_store
  /\ mem' = IF WordIndex(entries[head].addr) < MemWords
              THEN [mem EXCEPT ![WordIndex(entries[head].addr)] = entries[head].vk]
              ELSE mem
  /\ UNCHANGED vars

(* The assertion is the guard; a store outside the memory is dropped. *)
commit_store ==
  /\ can_commit_store
  /\ mem' = IF WordIndex(entries[head].addr) < MemWords
              THEN [mem EXCEPT ![WordIndex(entries[head].addr)] = entries[head].vk]
              ELSE mem
  /\ Pop

(* The tags update_rob completes: stores that are DONE, whatever their      *)
(* position.                                                               *)
DoneStoreTags ==
  {At(k).tag : k \in {p \in Position : is_store(At(p).op) /\ At(p).state = "DONE"}}
=============================================================================
