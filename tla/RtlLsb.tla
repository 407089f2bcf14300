------------------------------- MODULE RtlLsb --------------------------------
(***************************************************************************)
(* The load/store buffer and the data memory of the RTL                    *)
(* (load_store_buffer.sv, data_mem.sv).                                    *)
(***************************************************************************)
EXTENDS RtlDatapath

CONSTANT LSB_SIZE    \* 8; the pointers of $clog2(LSB_SIZE) bits wrap there

ASSUME LsbAssumption == LSB_SIZE \in Nat \ {0} /\ LSB_SIZE \in {2^k : k \in 0 .. 8}

VARIABLES
  lsb,          \* [entries, valid, notified, head, tail, count]
  load,         \* load_pending and its registers: [pending, tag, op, addr]
  dmem,         \* the data memory
  mem_rd_data   \* its registered read port

lsbVars == <<lsb, load, dmem, mem_rd_data>>

-----------------------------------------------------------------------------
NextPtr(p) == (p + 1) % LSB_SIZE

lsb_full   == lsb.count = LSB_SIZE
head_entry == lsb.entries[lsb.head]
head_addr  == Wrap(head_entry.src[1].val + head_entry.imm)

(* The head is a load that starts its memory access. *)
load_issue ==
  /\ lsb.head \in lsb.valid
  /\ ~load.pending
  /\ is_load_op(head_entry.op)
  /\ BothReady(head_entry)

(* Mutant: a store writes as soon as its operands are there. *)
store_write_Early(st) ==
  /\ lsb.head \in lsb.valid
  /\ is_store_op(head_entry.op)
  /\ BothReady(head_entry)

(* The head is the store that retires: st = [en, tag] comes from the       *)
(* commit unit.  This is also mem_wr_en_o.                                 *)
store_write(st) ==
  /\ lsb.head \in lsb.valid
  /\ is_store_op(head_entry.op)
  /\ st.en /\ head_entry.rob_tag = st.tag

do_pop(st) == load_issue \/ store_write(st)

(* Stores whose operands are known and that have not said so on the bus. *)
store_ready_vec ==
  {i \in lsb.valid \ lsb.notified :
     is_store_op(lsb.entries[i].op) /\ BothReady(lsb.entries[i])}

store_notify_idx ==
  IF store_ready_vec = {} THEN LSB_SIZE - 1 ELSE Min(store_ready_vec)

lsb_bus ==
  [valid |-> load.pending \/ store_ready_vec # {},
   tag   |-> IF load.pending THEN load.tag
                             ELSE lsb.entries[store_notify_idx].rob_tag,
   value |-> IF load.pending THEN load_result(load.op, load.addr, mem_rd_data)
                             ELSE 0]

(* Mutant: the address is not held while a load waits for the bus. *)
mem_rd_addr_o_HeadOnly == head_addr

mem_rd_addr_o == IF load.pending THEN load.addr ELSE head_addr

-----------------------------------------------------------------------------
EmptyLsb ==
  [entries |-> [i \in 0 .. LSB_SIZE - 1 |-> ZeroRsEntry],
   valid |-> {}, notified |-> {}, head |-> 0, tail |-> 0, count |-> 0]

NoLoad == [pending |-> FALSE, tag |-> 0, op |-> "LW", addr |-> 0]

LsbInit == lsb = EmptyLsb /\ load = NoLoad

LoadClock(flush, grant) ==
  load' = IF flush THEN NoLoad
          ELSE IF load_issue
            THEN [pending |-> TRUE, tag |-> head_entry.rob_tag,
                  op |-> head_entry.op, addr |-> head_addr]
          ELSE [load EXCEPT !.pending = @ /\ ~grant]

(* Mutant: a slot that is used again counts as notified already. *)
QueueEdge_StaysNotified(push, entry, cdb, st, grant) ==
  LET popped   == IF do_pop(st) THEN {lsb.head} ELSE {}
      pushed   == IF push THEN {lsb.tail} ELSE {}
      notified == IF ~load.pending /\ store_ready_vec # {} /\ grant
                    THEN {store_notify_idx} ELSE {}
  IN lsb' =
     [entries |-> [i \in 0 .. LSB_SIZE - 1 |->
        IF i \in pushed THEN entry
        ELSE IF i \in lsb.valid THEN Snooped(lsb.entries[i], cdb)
        ELSE lsb.entries[i]],
      valid    |-> (lsb.valid \ popped) \cup pushed,
      notified |-> lsb.notified \cup notified,
      head     |-> IF do_pop(st) THEN NextPtr(lsb.head) ELSE lsb.head,
      tail     |-> IF push THEN NextPtr(lsb.tail) ELSE lsb.tail,
      count    |-> lsb.count + Cardinality(pushed) - Cardinality(popped)]

(* One clock edge of the queue: push is issue_valid_i & ~full. *)
QueueEdge(push, entry, cdb, st, grant) ==
  LET popped   == IF do_pop(st) THEN {lsb.head} ELSE {}
      pushed   == IF push THEN {lsb.tail} ELSE {}
      notified == IF ~load.pending /\ store_ready_vec # {} /\ grant
                    THEN {store_notify_idx} ELSE {}
  IN lsb' =
     [entries |-> [i \in 0 .. LSB_SIZE - 1 |->
        IF i \in pushed THEN entry
        ELSE IF i \in lsb.valid THEN Snooped(lsb.entries[i], cdb)
        ELSE lsb.entries[i]],
      valid    |-> (lsb.valid \ popped) \cup pushed,
      notified |-> ((lsb.notified \cup notified) \ popped) \ pushed,
      head     |-> IF do_pop(st) THEN NextPtr(lsb.head) ELSE lsb.head,
      tail     |-> IF push THEN NextPtr(lsb.tail) ELSE lsb.tail,
      count    |-> lsb.count + Cardinality(pushed) - Cardinality(popped)]

LsbClock(flush, issue_valid, entry, cdb, st, grant) ==
  /\ LoadClock(flush, grant)
  /\ \/ flush /\ lsb' = EmptyLsb
     \/ ~flush /\ QueueEdge(issue_valid /\ ~lsb_full, entry, cdb, st, grant)

(* The memory writes at the edge; the read port registers the old word. *)
MemClock(st) ==
  /\ dmem' = IF store_write(st)
               THEN [dmem EXCEPT ![WordIndex(head_addr)] =
                       Stored(@, head_entry.op, head_addr, head_entry.src[2].val)]
               ELSE dmem
  /\ mem_rd_data' = dmem[WordIndex(mem_rd_addr_o)]
=============================================================================
