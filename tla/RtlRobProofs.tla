---------------------------- MODULE RtlRobProofs -----------------------------
(***************************************************************************)
(* The reorder buffer of the RTL keeps its window and its results for      *)
(* every size that the tag width fits (ROB_SIZE = 2^TAG_W, as shipped),    *)
(* every set of instructions and values, and every combination of port     *)
(* activity in every cycle.                                                *)
(***************************************************************************)
EXTENDS RtlRobSpec, TLAPS

(* With as many slots as tags, a pointer wraps where the buffer ends. *)
LEMMA NextTagWraps ==
  ASSUME ROB_SIZE = TagSpan, NEW t \in Slot
  PROVE  NextTag(t) = IF t = ROB_SIZE - 1 THEN 0 ELSE t + 1
<1> USE PkgAssumption DEF Slot, NextTag
<1>1. CASE t = ROB_SIZE - 1
  BY <1>1
<1>2. CASE t # ROB_SIZE - 1
  <2>1. t + 1 \in 0 .. ROB_SIZE - 1
    BY <1>2
  <2>2. QED
    BY <1>2, <2>1
<1>3. QED
  BY <1>1, <1>2

(* The inductive invariant.  No part is inductive alone: allocation needs  *)
(* the positions to know that the tail is the slot behind the window, and  *)
(* the retirement of the head needs the window to keep count above 0.      *)
IInv == TypeOK /\ PositionsAgree /\ WindowIsLive

LEMMA ZeroEntryType == ZeroRobEntry \in RobEntry
<1>1. X0 \in Reg
  BY PkgAssumption DEF X0, X, Reg
<1>2. 0 \in Result /\ 0 \in Pc
  BY DEF Result, Pc
<1>3. "ADD" \in Opcode
  BY DEF Opcode, RegOps
<1>4. QED
  BY <1>1, <1>2, <1>3 DEF ZeroRobEntry, RobEntry

(* Reset empties the window. *)
LEMMA InitIInv == RobInit => IInv
  BY PkgAssumption, ZeroEntryType
  DEF RobInit, IInv, TypeOK, PositionsAgree, WindowIsLive, Slot, ZeroRobEntry, Age

(* So does a flush. *)
LEMMA FlushIInv == RobFlush => IInv'
  BY PkgAssumption, ZeroEntryType
  DEF RobFlush, IInv, TypeOK, PositionsAgree, WindowIsLive, Slot, ZeroRobEntry, Age

(* What one edge does to the state of one slot, if a branch is reported    *)
(* only while it is in flight: a slot comes to life at the tail, dies at   *)
(* the head, and otherwise stays as live as it was.                        *)
LEMMA EdgeLiveness ==
  ASSUME TypeOK,
         NEW alloc \in BOOLEAN, NEW commit \in BOOLEAN, NEW instr \in Instr,
         NEW cdb \in Bus, NEW b \in Port, BranchContract(b),
         NEW t \in Slot,
         ~(alloc /\ commit /\ head = tail)
  PROVE  LET e == NextEntry(t, alloc, instr, cdb, b, commit)
         IN  /\ e \in RobEntry
             /\ commit /\ t = head => e.state = "IDLE"
             /\ alloc /\ t = tail => e.state # "IDLE"
             /\ ~(commit /\ t = head) /\ ~(alloc /\ t = tail)
                  => (e.state # "IDLE" <=> entries[t].state # "IDLE")
<1> DEFINE e == entries[t]
           n == NextEntry(t, alloc, instr, cdb, b, commit)
<1>1. e \in RobEntry
  BY DEF TypeOK
<1>2. CASE commit /\ t = head
  <2>1. n = Retired(e)
    BY <1>2 DEF NextEntry
  <2>2. Retired(e) \in RobEntry /\ Retired(e).state = "IDLE"
    BY <1>1 DEF Retired, RobEntry
  <2>3. QED
    BY <1>2, <2>1, <2>2
<1>3. CASE ~(commit /\ t = head) /\ alloc /\ t = tail
  <2>1. n = Allocated(instr)
    BY <1>3 DEF NextEntry
  <2>2. is_branch_op(instr.op) \/ is_jump_op(instr.op) \in BOOLEAN
    BY DEF is_branch_op, is_jump_op
  <2>3. 0 \in Result /\ instr.pc \in Pc
    BY DEF Result, Pc
  <2>4. Allocated(instr) \in RobEntry /\ Allocated(instr).state # "IDLE"
    BY <2>2, <2>3, PortAssumption DEF Allocated, RobEntry
  <2>5. QED
    BY <1>3, <2>1, <2>4
<1>4. CASE ~(commit /\ t = head) /\ ~(alloc /\ t = tail)
  <2>1. CASE b.valid /\ t = b.tag /\ e.is_branch
    <3>1. n = Resolved(e, b) /\ e.state # "IDLE"
      BY <1>4, <2>1 DEF NextEntry, BranchContract
    <3>2. b.taken \in BOOLEAN /\ b.target \in Result
      <4>1. CASE b = IdlePort
        BY <2>1, <4>1 DEF IdlePort
      <4>2. CASE b # IdlePort
        BY <4>2 DEF Port, Result
      <4>3. QED
        BY <4>1, <4>2
    <3>3. Resolved(e, b) \in RobEntry /\ Resolved(e, b).state # "IDLE"
      BY <1>1, <3>2 DEF Resolved, RobEntry
    <3>4. QED
      BY <1>4, <3>1, <3>3
  <2>2. CASE ~(b.valid /\ t = b.tag /\ e.is_branch)
             /\ cdb.valid /\ t = cdb.tag /\ e.state = "IN_FLIGHT"
    <3>1. n = Written(e, cdb.value)
      BY <1>4, <2>2 DEF NextEntry
    <3>2. cdb.value \in Result
      <4>1. CASE cdb = ZeroBus
        BY <2>2, <4>1 DEF ZeroBus
      <4>2. CASE cdb # ZeroBus
        BY <4>2 DEF Bus, Result
      <4>3. QED
        BY <4>1, <4>2
    <3>3. Written(e, cdb.value) \in RobEntry /\ Written(e, cdb.value).state # "IDLE"
      BY <1>1, <3>2 DEF Written, RobEntry
    <3>4. QED
      BY <1>4, <2>2, <3>1, <3>3
  <2>3. CASE ~(b.valid /\ t = b.tag /\ e.is_branch)
             /\ ~(cdb.valid /\ t = cdb.tag /\ e.state = "IN_FLIGHT")
    <3>1. n = e
      BY <1>4, <2>3 DEF NextEntry
    <3>2. QED
      BY <1>1, <1>4, <3>1
  <2>4. QED
    BY <2>1, <2>2, <2>3
<1>5. QED
  BY <1>2, <1>3, <1>4

(* An edge without a flush moves both ends of the window by at most one. *)
LEMMA EdgeIInv ==
  ASSUME ROB_SIZE = TagSpan, IInv,
         NEW alloc \in BOOLEAN, NEW commit \in BOOLEAN, NEW instr \in Instr,
         NEW cdb \in Bus, NEW b \in Port, BranchContract(b),
         alloc => ~rob_full_o, commit => commit_valid_o,
         RobEdge(alloc, instr, cdb, b, commit)
  PROVE  IInv'
<1> USE PkgAssumption
<1> DEFINE Next1(p) == IF p = ROB_SIZE - 1 THEN 0 ELSE p + 1
<1>1. /\ tail' = IF alloc THEN Next1(tail) ELSE tail
      /\ head' = IF commit THEN Next1(head) ELSE head
      /\ count' = count + (IF alloc THEN 1 ELSE 0) - (IF commit THEN 1 ELSE 0)
  BY NextTagWraps DEF IInv, TypeOK, RobEdge
<1>2. /\ head \in Slot /\ tail \in Slot /\ count \in 0 .. ROB_SIZE
      /\ alloc => count < ROB_SIZE
  BY DEF IInv, TypeOK, rob_full_o
<1>3. commit => count > 0
  BY DEF IInv, TypeOK, WindowIsLive, commit_valid_o, commit_entry_o, Age, Slot
<1>4. ~(alloc /\ commit /\ head = tail)
  BY <1>2, <1>3 DEF IInv, PositionsAgree, Slot
<1>5. \A t \in Slot : entries'[t] = NextEntry(t, alloc, instr, cdb, b, commit)
  BY DEF RobEdge
<1>6. TypeOK'
  <2>1. head' \in Slot /\ tail' \in Slot /\ count' \in 0 .. ROB_SIZE
    BY <1>1, <1>2, <1>3 DEF Slot
  <2>2. QED
    BY <1>4, <2>1, EdgeLiveness DEF IInv, TypeOK, RobEdge
<1>7. PositionsAgree'
  BY <1>1, <1>2, <1>3 DEF IInv, PositionsAgree, Slot
<1>8. WindowIsLive'
  <2> SUFFICES ASSUME NEW t \in Slot
               PROVE  entries'[t].state # "IDLE" <=> Age(t)' < count'
    BY DEF WindowIsLive
  <2>1. /\ commit /\ t = head => entries'[t].state = "IDLE"
        /\ alloc /\ t = tail => entries'[t].state # "IDLE"
        /\ ~(commit /\ t = head) /\ ~(alloc /\ t = tail)
             => (entries'[t].state # "IDLE" <=> entries[t].state # "IDLE")
    BY <1>4, <1>5, EdgeLiveness DEF IInv
  <2>2. entries[t].state # "IDLE" <=> Age(t) < count
    BY DEF IInv, WindowIsLive
  <2>3. Age(t)' = IF t >= head' THEN t - head' ELSE t - head' + ROB_SIZE
    BY DEF Age
  <2>4. CASE commit /\ t = head
    BY <1>1, <1>2, <1>3, <1>4, <2>1, <2>3, <2>4 DEF Slot
  <2>5. CASE alloc /\ t = tail
    BY <1>1, <1>2, <1>3, <1>4, <2>1, <2>3, <2>5 DEF IInv, PositionsAgree, Slot
  <2>6. CASE ~(commit /\ t = head) /\ ~(alloc /\ t = tail)
    BY <1>1, <1>2, <1>3, <1>4, <2>1, <2>2, <2>3, <2>6
    DEF IInv, PositionsAgree, Age, Slot
  <2>7. QED
    BY <2>4, <2>5, <2>6
<1>9. QED
  BY <1>6, <1>7, <1>8 DEF IInv

(* Every cycle, and every stuttering step, keeps the invariant. *)
LEMMA NextIInv ==
  ASSUME ROB_SIZE = TagSpan, IInv, [Next]_robVars
  PROVE  IInv'
<1>1. CASE UNCHANGED robVars
  BY <1>1 DEF robVars, IInv, TypeOK, PositionsAgree, WindowIsLive, Age
<1>2. CASE Next
  <2>1. PICK flush, alloc_en, commit_en \in BOOLEAN, instr \in Instr,
             cdb \in Bus, b \in Port :
               Cycle(flush, alloc_en, commit_en, instr, cdb, b)
    BY <1>2 DEF Next
  <2>2. CASE flush
    BY <2>1, <2>2, FlushIInv DEF Cycle, RobClock
  <2>3. CASE ~flush
    <3> DEFINE alloc  == alloc_en /\ ~rob_full_o
               commit == commit_en /\ commit_valid_o
    <3>1. /\ BranchContract(b)
          /\ RobEdge(alloc, instr, cdb, b, commit)
      BY <2>1, <2>3 DEF Cycle, RobClock
    <3>2. alloc \in BOOLEAN /\ commit \in BOOLEAN
      BY DEF rob_full_o, commit_valid_o
    <3>3. (alloc => ~rob_full_o) /\ (commit => commit_valid_o)
      OBVIOUS
    <3> HIDE DEF alloc, commit
    <3>4. QED
      BY <3>1, <3>2, <3>3, EdgeIInv
  <2>4. QED
    BY <2>2, <2>3
<1>3. QED
  BY <1>1, <1>2

(* The invariant holds in every reachable state. *)
THEOREM Invariance ==
  ASSUME ROB_SIZE = TagSpan
  PROVE  Spec => []IInv
<1>1. RobInit => IInv
  BY InitIInv
<1>2. IInv /\ [Next]_robVars => IInv'
  BY NextIInv
<1>3. QED
  BY <1>1, <1>2, PTL DEF Spec

(* Every register of the reorder buffer keeps its type; head, tail and     *)
(* count stay in range in every cycle (rob.sv).                            *)
THEOREM TypeCorrect ==
  ASSUME ROB_SIZE = TagSpan
  PROVE  Spec => []TypeOK
<1>1. IInv => TypeOK
  BY DEF IInv
<1>2. QED
  BY <1>1, Invariance, PTL

(* The occupied slots are exactly the window of count slots from head on,  *)
(* for every size and after any number of wraps (rob.sv always_ff).        *)
THEOREM WindowCorrect ==
  ASSUME ROB_SIZE = TagSpan
  PROVE  Spec => []WindowIsLive
<1>1. IInv => WindowIsLive
  BY DEF IInv
<1>2. QED
  BY <1>1, Invariance, PTL

(* Tail stays count slots past head whatever an edge does at once:         *)
(* allocation, retirement and flush (rob.sv always_ff).                    *)
THEOREM PositionsCorrect ==
  ASSUME ROB_SIZE = TagSpan
  PROVE  Spec => []PositionsAgree
<1>1. IInv => PositionsAgree
  BY DEF IInv
<1>2. QED
  BY <1>1, Invariance, PTL

(* The slot that an allocation takes is idle. *)
LEMMA TailIdle ==
  ASSUME IInv, ~rob_full_o
  PROVE  entries[tail].state = "IDLE"
<1>1. ~(Age(tail) < count)
  BY PkgAssumption DEF IInv, TypeOK, PositionsAgree, Age, Slot, rob_full_o
<1>2. QED
  BY <1>1 DEF IInv, TypeOK, WindowIsLive

(* A finished entry is left alone until it retires or is flushed, whatever *)
(* arrives under its tag (rob.sv write ports).                             *)
THEOREM ResultsFinal ==
  ASSUME ROB_SIZE = TagSpan
  PROVE  Spec => DoneIsFinal
<1> DEFINE Final == \A t \in Slot :
              entries[t].state = "DONE" /\ entries'[t].state # "IDLE"
                => entries'[t] = entries[t]
<1>1. IInv /\ [Next]_robVars => [Final]_robVars
  <2> SUFFICES ASSUME IInv, Next, NEW t \in Slot, entries[t].state = "DONE",
                      entries'[t].state # "IDLE"
               PROVE  entries'[t] = entries[t]
    OBVIOUS
  <2>1. PICK flush, alloc_en, commit_en \in BOOLEAN, instr \in Instr,
             cdb \in Bus, b \in Port :
               Cycle(flush, alloc_en, commit_en, instr, cdb, b)
    BY DEF Next
  <2>2. CASE flush
    BY <2>1, <2>2 DEF Cycle, RobClock, RobFlush, ZeroRobEntry
  <2>3. CASE ~flush
    <3> DEFINE alloc  == alloc_en /\ ~rob_full_o
               commit == commit_en /\ commit_valid_o
    <3>1. entries'[t] = NextEntry(t, alloc, instr, cdb, b, commit)
      BY <2>1, <2>3 DEF Cycle, RobClock, RobEdge
    <3>2. ~(commit /\ t = head)
      <4>1. Retired(entries[t]).state = "IDLE"
        BY DEF IInv, TypeOK, RobEntry, Retired
      <4>2. QED
        BY <3>1, <4>1 DEF NextEntry
    <3>3. ~(alloc /\ t = tail)
      BY TailIdle
    <3>4. ~(b.valid /\ t = b.tag /\ entries[t].is_branch)
      BY <2>1 DEF Cycle, BranchContract
    <3>5. QED
      BY <3>1, <3>2, <3>3, <3>4 DEF NextEntry
  <2>4. QED
    BY <2>2, <2>3
<1>2. QED
  BY <1>1, Invariance, PTL DEF Spec, DoneIsFinal
=============================================================================
