------------------------ MODULE FunctionalUnitProofs ------------------------
(***************************************************************************)
(* The reorder buffer keeps its shape for every size, every set of         *)
(* instructions and values, and every order of calls.  A functional unit   *)
(* of any depth, pipelined or not, that is one of its callers neither      *)
(* loses nor duplicates an operation, and never answers for an entry that  *)
(* is not waiting for it.                                                  *)
(***************************************************************************)
EXTENDS FunctionalUnit, SequenceTheorems, TLAPS

-----------------------------------------------------------------------------
(* The reorder buffer, whoever calls it.                                   *)

(* What "(t + 1) % size_" is for a slot: one further, or back to 0. *)
LEMMA SuccWraps ==
  ASSUME NEW t \in Slot
  PROVE  Succ(t) = IF t = Size - 1 THEN 0 ELSE t + 1
<1> USE SizeAssumption DEF Slot, Succ
<1>1. CASE t = Size - 1
  BY <1>1
<1>2. CASE t # Size - 1
  <2>1. t + 1 \in 0 .. Size - 1
    BY <1>2
  <2>2. QED
    BY <1>2, <2>1
<1>3. QED
  BY <1>1, <1>2

(* The inductive invariant: types, positions and window together.  None of *)
(* the three is inductive alone: allocate needs the window to know that    *)
(* the tail slot is idle, and the positions to know that it is the next.   *)
IInv == TypeOK /\ PositionsAgree /\ WindowIsLive

(* The constructor leaves an empty window at slot 0. *)
LEMMA InitIInv == Init => IInv
  BY SizeAssumption
  DEF Init, IInv, TypeOK, PositionsAgree, WindowIsLive, Slot, State, IdleEntry, Age

(* allocate puts the new entry at the end of the window. *)
LEMMA AllocateIInv ==
  ASSUME IInv, NEW info \in Info, allocate(info)
  PROVE  IInv'
<1> USE SizeAssumption DEF IInv, allocate, full
<1>1. tail' = IF tail = Size - 1 THEN 0 ELSE tail + 1
  BY SuccWraps DEF TypeOK
<1>2. TypeOK'
  BY <1>1 DEF TypeOK, Slot, State
<1>3. PositionsAgree'
  BY <1>1 DEF TypeOK, PositionsAgree, Slot
<1>4. WindowIsLive'
  <2> SUFFICES ASSUME NEW t \in Slot
               PROVE  entries'[t].state # "IDLE" <=> Age(t)' < count'
    BY DEF WindowIsLive
  <2>1. CASE t = tail
    BY <2>1 DEF TypeOK, PositionsAgree, Slot, Age
  <2>2. CASE t # tail
    <3>1. entries'[t] = entries[t]
      BY <2>2 DEF TypeOK
    <3>2. Age(t) # count
      BY <2>2 DEF TypeOK, PositionsAgree, Slot, Age
    <3>3. QED
      BY <3>1, <3>2 DEF TypeOK, WindowIsLive, Slot, Age
  <2>3. QED
    BY <2>1, <2>2
<1>5. QED
  BY <1>2, <1>3, <1>4

(* write_result moves no entry. *)
LEMMA WriteResultIInv ==
  ASSUME IInv, NEW t \in Slot, NEW value \in Value, write_result(t, value)
  PROVE  IInv'
<1> USE DEF IInv, write_result
<1>1. TypeOK'
  BY DEF TypeOK, State
<1>2. PositionsAgree'
  BY DEF PositionsAgree
<1>3. WindowIsLive'
  BY DEF TypeOK, WindowIsLive, Age
<1>4. QED
  BY <1>1, <1>2, <1>3

(* commit takes the entry at the front of the window. *)
LEMMA CommitIInv ==
  ASSUME IInv, commit
  PROVE  IInv'
<1> USE SizeAssumption DEF IInv, commit, head_ready, empty
<1>1. head' = IF head = Size - 1 THEN 0 ELSE head + 1
  BY SuccWraps DEF TypeOK
<1>2. TypeOK'
  BY <1>1 DEF TypeOK, Slot, State, IdleEntry
<1>3. PositionsAgree'
  BY <1>1 DEF TypeOK, PositionsAgree, Slot
<1>4. WindowIsLive'
  <2> SUFFICES ASSUME NEW t \in Slot
               PROVE  entries'[t].state # "IDLE" <=> Age(t)' < count'
    BY DEF WindowIsLive
  <2>1. CASE t = head
    BY <1>1, <2>1 DEF TypeOK, Slot, Age, IdleEntry
  <2>2. CASE t # head
    <3>1. entries'[t] = entries[t]
      BY <2>2 DEF TypeOK
    <3>2. Age(t)' = Age(t) - 1
      BY <1>1, <2>2 DEF TypeOK, Slot, Age
    <3>3. QED
      BY <3>1, <3>2 DEF TypeOK, WindowIsLive, Slot, Age
  <2>3. QED
    BY <2>1, <2>2
<1>5. QED
  BY <1>2, <1>3, <1>4

(* flush leaves what the constructor does. *)
LEMMA FlushIInv ==
  ASSUME flush
  PROVE  IInv'
  BY SizeAssumption
  DEF flush, IInv, TypeOK, PositionsAgree, WindowIsLive, Slot, State, IdleEntry, Age

(* No call of the interface breaks the inductive invariant. *)
LEMMA NextIInv == IInv /\ [Next]_vars => IInv'
<1> SUFFICES ASSUME IInv, [Next]_vars
             PROVE  IInv'
  OBVIOUS
<1>1. CASE \E info \in Info : allocate(info)
  BY <1>1, AllocateIInv
<1>2. CASE \E t \in Slot, value \in Value : write_result(t, value)
  BY <1>2, WriteResultIInv
<1>3. CASE commit
  BY <1>3, CommitIInv
<1>4. CASE flush
  BY <1>4, FlushIInv
<1>5. CASE UNCHANGED vars
  BY <1>5 DEF vars, IInv, TypeOK, PositionsAgree, WindowIsLive, Age
<1>6. QED
  BY <1>1, <1>2, <1>3, <1>4, <1>5 DEF Next

(* The buffer's fields stay within their types (reorder_buffer.cpp). *)
THEOREM TypeCorrect == Spec => []TypeOK
<1>1. IInv => TypeOK
  BY DEF IInv
<1>2. QED
  BY InitIInv, NextIInv, <1>1, PTL DEF Spec

(* tail_ is always count_ slots past head_, across every wrap-around.      *)
THEOREM PositionsAlwaysAgree == Spec => []PositionsAgree
<1>1. IInv => PositionsAgree
  BY DEF IInv
<1>2. QED
  BY InitIInv, NextIInv, <1>1, PTL DEF Spec

(* The live slots are exactly the window from head_ on: allocate never     *)
(* overwrites an instruction in flight, commit never meets an idle slot.   *)
THEOREM WindowAlwaysLive == Spec => []WindowIsLive
<1>1. IInv => WindowIsLive
  BY DEF IInv
<1>2. QED
  BY InitIInv, NextIInv, <1>1, PTL DEF Spec

-----------------------------------------------------------------------------
(* The k-th oldest entry's slot, without the remainder. *)
Place(h, k) == IF h + k - 1 < Size THEN h + k - 1 ELSE h + k - 1 - Size

(* Place is what phys and the two increments compute with "% size_". *)
LEMMA PlaceWraps ==
  ASSUME NEW h \in Slot, NEW k \in 1 .. Size
  PROVE  (h + k - 1) % Size = Place(h, k) /\ Place(h, k) \in Slot
<1> USE SizeAssumption DEF Slot, Place
<1> DEFINE n == h + k - 1
<1>1. CASE n < Size
  <2>1. n \in 0 .. Size - 1
    BY <1>1
  <2>2. QED
    BY <2>1, <1>1
<1>2. CASE n >= Size
  <2>1. n - Size \in 0 .. Size - 1 /\ n = 1 * Size + (n - Size)
    BY <1>2
  <2>2. QED
    BY <2>1, <1>2
<1>3. QED
  BY <1>1, <1>2

(* Two positions of the queue are two slots. *)
LEMMA PlaceInjective ==
  ASSUME NEW h \in Slot, NEW j \in 1 .. Size, NEW k \in 1 .. Size, j # k
  PROVE  Place(h, j) # Place(h, k)
  BY SizeAssumption DEF Place, Slot

(* The abstract queue: the live entries, oldest first. *)
EntrySet == [state : State, info : Info \cup {NoInfo}, result : Value \cup {NoValue}]

LineOf(e, h, n) == [k \in 1 .. n |-> e[(h + k - 1) % Size]]

Line == LineOf(entries, head, count)

(* The queue read off the buffer is a sequence of entries, the k-th of them
   in the k-th place after head_. *)
LEMMA LineByPlace ==
  ASSUME NEW e \in [Slot -> EntrySet], NEW h \in Slot, NEW n \in 0 .. Size
  PROVE  /\ LineOf(e, h, n) \in Seq(EntrySet)
         /\ Len(LineOf(e, h, n)) = n
         /\ DOMAIN LineOf(e, h, n) = 1 .. n
         /\ \A k \in 1 .. n : LineOf(e, h, n)[k] = e[Place(h, k)]
<1>1. \A k \in 1 .. n : (h + k - 1) % Size = Place(h, k) /\ Place(h, k) \in Slot
  BY PlaceWraps, SizeAssumption
<1>2. n \in Nat
  BY SizeAssumption
<1>3. LineOf(e, h, n) \in [1 .. n -> EntrySet]
  BY <1>1 DEF LineOf
<1>4. LineOf(e, h, n) \in Seq(EntrySet) /\ Len(LineOf(e, h, n)) = n
  BY <1>2, <1>3
<1>5. QED
  BY <1>1, <1>4 DEF LineOf

(* The same for the queue of this state and of the next. *)
LEMMA ThisLine ==
  ASSUME IInv
  PROVE  /\ Line \in Seq(EntrySet) /\ Len(Line) = count /\ DOMAIN Line = 1 .. count
         /\ \A k \in 1 .. count : Line[k] = entries[Place(head, k)]
  BY LineByPlace DEF IInv, TypeOK, Line, EntrySet

(* The queue after a step, by the places of the next state. *)
LEMMA NextLine ==
  ASSUME IInv'
  PROVE  /\ Line' \in Seq(EntrySet) /\ Len(Line') = count'
         /\ \A k \in 1 .. count' : Line'[k] = entries'[Place(head', k)]
<1>1. entries' \in [Slot -> EntrySet] /\ head' \in Slot /\ count' \in 0 .. Size
  BY DEF IInv, TypeOK, EntrySet
<1>2. Line' = LineOf(entries', head', count')
  BY DEF Line, LineOf
<1>3. QED
  BY <1>1, <1>2, LineByPlace

(* allocate appends to the queue. *)
LEMMA AllocateEnters ==
  ASSUME IInv, NEW info \in Info, allocate(info)
  PROVE  Queue!Enter(info)
<1> DEFINE new == [state |-> "IN_FLIGHT", info |-> info, result |-> NoValue]
<1>0. IInv'
  BY AllocateIInv
<1>1. /\ head \in Slot /\ count \in 0 .. Size - 1 /\ head' = head
      /\ count' = count + 1 /\ tail = Place(head, count + 1)
      /\ entries \in [Slot -> EntrySet]
  BY SizeAssumption
  DEF IInv, TypeOK, PositionsAgree, allocate, full, Place, Slot, EntrySet
<1>2. entries' = [entries EXCEPT ![tail] = new]
  BY DEF allocate
<1>3. \A k \in 1 .. count : Place(head, k) \in Slot /\ Place(head, k) # tail
  BY <1>1, PlaceWraps, PlaceInjective, SizeAssumption
<1>4. /\ Line' \in Seq(EntrySet) /\ Len(Line') = count + 1
      /\ \A k \in 1 .. count + 1 : Line'[k] = entries'[Place(head, k)]
  BY <1>0, <1>1, NextLine
<1>5. \A k \in 1 .. count : Line'[k] = Line[k]
  BY <1>1, <1>2, <1>3, <1>4, ThisLine, SizeAssumption
<1>6. Line'[count + 1] = new
  <2>1. tail \in Slot
    BY DEF IInv, TypeOK
  <2>2. QED
    BY <1>1, <1>2, <1>4, <2>1, SizeAssumption
<1>7. /\ Line \in Seq(EntrySet) /\ Len(Line) = count
  BY ThisLine
<1>8. new \in EntrySet
  BY DEF EntrySet, State
<1>9. /\ Append(Line, new) \in Seq(EntrySet)
      /\ Len(Append(Line, new)) = count + 1
      /\ \A k \in 1 .. count : Append(Line, new)[k] = Line[k]
      /\ Append(Line, new)[count + 1] = new
  BY <1>1, <1>7, <1>8, AppendProperties, SizeAssumption
<1>10. \A k \in 1 .. count + 1 : Line'[k] = Append(Line, new)[k]
  BY <1>1, <1>5, <1>6, <1>9, SizeAssumption
<1>11. Line' = Append(Line, new)
  <2> HIDE DEF new
  <2>1. QED
    BY <1>4, <1>9, <1>10, SeqEqual
<1>12. Len(Line) < Size
  BY <1>1, <1>7, SizeAssumption
<1>13. QED
  BY <1>11, <1>12 DEF Queue!Enter, Line, LineOf

(* write_result completes the entry in its place. *)
LEMMA WriteResultCompletes ==
  ASSUME IInv, NEW t \in Slot, NEW value \in Value, write_result(t, value)
  PROVE  \E k \in DOMAIN Line : Queue!Complete(k, value)
<1> DEFINE j == Age(t) + 1
<1> DEFINE new == [state |-> "DONE", info |-> Line[j].info, result |-> value]
<1>0. IInv'
  BY WriteResultIInv
<1>1. /\ head \in Slot /\ count \in 0 .. Size /\ head' = head
      /\ count' = count /\ entries \in [Slot -> EntrySet]
      /\ entries[t].state = "IN_FLIGHT"
  BY DEF IInv, TypeOK, write_result, EntrySet
<1>2. j \in 1 .. count /\ Place(head, j) = t
  <2>1. Age(t) < count
    BY <1>1 DEF IInv, WindowIsLive
  <2>2. QED
    BY <1>1, <2>1, SizeAssumption DEF Age, Slot, Place
<1>3. entries' = [entries EXCEPT ![t] = [state |-> "DONE", info |-> entries[t].info,
                                         result |-> value]]
  BY DEF write_result
<1>4. Line[j] = entries[t]
  BY <1>2, ThisLine
<1>5. \A k \in 1 .. count : k # j => Place(head, k) \in Slot /\ Place(head, k) # t
  BY <1>1, <1>2, PlaceWraps, PlaceInjective, SizeAssumption
<1>6. \A k \in 1 .. count : Line'[k] = entries'[Place(head, k)]
  BY <1>0, <1>1, NextLine
<1>7. Line' = [Line EXCEPT ![j] = new]
  <2>1. Line = [k \in 1 .. count |-> Line[k]] /\ Line' = [k \in 1 .. count |-> Line'[k]]
    BY <1>1 DEF Line, LineOf
  <2>2. \A k \in 1 .. count : k # j => Line'[k] = Line[k]
    BY <1>1, <1>3, <1>5, <1>6, ThisLine
  <2>3. Line'[j] = new
    BY <1>1, <1>2, <1>3, <1>4, <1>6
  <2> HIDE DEF j, new
  <2>4. [Line EXCEPT ![j] = new] = [k \in 1 .. count |-> IF k = j THEN new ELSE Line[k]]
    BY <2>1
  <2>5. QED
    BY <2>1, <2>2, <2>3, <2>4
<1>8. j \in DOMAIN Line
  BY <1>2, ThisLine
<1>9. Line[j].state = "IN_FLIGHT"
  BY <1>1, <1>4
<1>10. Queue!Complete(j, value)
  BY <1>7, <1>9 DEF Queue!Complete, Line, LineOf
<1>11. QED
  BY <1>8, <1>10

(* commit takes the front of the queue. *)
LEMMA CommitRetires ==
  ASSUME IInv, commit
  PROVE  Queue!Retire
<1>0. IInv'
  BY CommitIInv
<1>1. /\ head \in Slot /\ count \in 1 .. Size /\ count' = count - 1
      /\ entries \in [Slot -> EntrySet] /\ entries[head].state = "DONE"
      /\ entries' = [entries EXCEPT ![head] = IdleEntry]
  BY SizeAssumption DEF IInv, TypeOK, commit, head_ready, empty, EntrySet
<1>2. head' \in Slot /\ head' = IF head = Size - 1 THEN 0 ELSE head + 1
  BY <1>1, SuccWraps, SizeAssumption DEF commit, Slot
<1>3. Place(head, 1) = head
  BY <1>1, SizeAssumption DEF Place, Slot
<1>4. ASSUME NEW k \in 1 .. count - 1
      PROVE  /\ Place(head', k) = Place(head, k + 1)
             /\ Place(head, k + 1) \in Slot
             /\ Place(head, k + 1) # head
  BY <1>1, <1>2, SizeAssumption DEF Place, Slot
<1>5. /\ Line' \in Seq(EntrySet) /\ Len(Line') = count - 1
      /\ \A k \in 1 .. count - 1 : Line'[k] = entries'[Place(head', k)]
  BY <1>0, <1>1, NextLine
<1>6. \A k \in 1 .. count - 1 : Line'[k] = Line[k + 1]
  <2>1. ASSUME NEW k \in 1 .. count - 1
        PROVE  Line'[k] = Line[k + 1]
    <3>1. Line'[k] = entries'[Place(head, k + 1)]
      BY <1>4, <1>5
    <3>2. entries'[Place(head, k + 1)] = entries[Place(head, k + 1)]
      BY <1>1, <1>4
    <3>3. k + 1 \in 1 .. count
      BY <1>1, SizeAssumption
    <3>4. QED
      BY <3>1, <3>2, <3>3, ThisLine
  <2>2. QED
    BY <2>1
<1>7. Line \in Seq(EntrySet) /\ Len(Line) = count /\ Line # << >>
  BY <1>1, ThisLine, SizeAssumption
<1>8. /\ Tail(Line) \in Seq(EntrySet) /\ Len(Tail(Line)) = count - 1
      /\ \A k \in 1 .. count - 1 : Tail(Line)[k] = Line[k + 1]
  BY <1>7, HeadTailProperties
<1>9. Line' = Tail(Line)
  BY <1>5, <1>6, <1>8, SeqEqual
<1>10. Head(Line) = Line[1]
  BY <1>7
<1>11. Head(Line).state = "DONE"
  BY <1>1, <1>3, <1>10, ThisLine, SizeAssumption
<1>12. QED
  BY <1>7, <1>9, <1>11 DEF Queue!Retire, Line, LineOf

(* Every call is a step of the abstract queue or leaves it alone. *)
LEMMA NextQueue == IInv /\ [Next]_vars => [Queue!Next]_Line
<1> SUFFICES ASSUME IInv, [Next]_vars
             PROVE  [Queue!Next]_Line
  OBVIOUS
<1>1. CASE \E info \in Info : allocate(info)
  BY <1>1, AllocateEnters DEF Queue!Next
<1>2. CASE \E t \in Slot, value \in Value : write_result(t, value)
  BY <1>2, WriteResultCompletes DEF Queue!Next, Line, LineOf
<1>3. CASE commit
  BY <1>3, CommitRetires DEF Queue!Next
<1>4. CASE flush
  <2>1. Line' = << >>
    BY <1>4 DEF flush, Line, LineOf
  <2>2. QED
    BY <2>1 DEF Queue!Next, Queue!Discard, Line, LineOf
<1>5. CASE UNCHANGED vars
  BY <1>5 DEF vars, Line, LineOf
<1>6. QED
  BY <1>1, <1>2, <1>3, <1>4, <1>5 DEF Next

(* The circular buffer implements the abstract retirement queue, for every *)
(* size: in-order retirement with completion in any order.                 *)
THEOREM BufferIsQueue == Spec => ImplementsQueue
<1>1. Init => Queue!Init
  BY DEF Init, Queue!Init
<1>2. QED
  BY <1>1, InitIInv, NextIInv, NextQueue, PTL
  DEF Spec, ImplementsQueue, Queue!Spec, Line, LineOf

-----------------------------------------------------------------------------
(* The functional unit, beside other callers.                              *)

BufSlot == [valid : BOOLEAN, tag : Int, value : Value \cup {NoValue}]

UnitType ==
  /\ depth \in Nat /\ depth >= 1
  /\ pipelined \in BOOLEAN
  /\ stages \in [0 .. depth -> BufSlot]
  /\ step \in {"pop", "accept", "tick"}
  /\ issued \subseteq [tag : Slot, value : Value]

(* Where in the cycle which end of the unit is free: the output from pop   *)
(* to tick, the input from tick to accept.  This is what the caller        *)
(* sequence of the header is for: without it tick drops an output.         *)
EndsFree ==
  /\ step = "pop" => ~stages[0].valid
  /\ step \in {"accept", "tick"} => ~stages[depth].valid

(* The inductive invariant. *)
UInv == IInv /\ UnitType /\ EndsFree /\ UnitHoldsWhatItAccepted

(* An empty unit beside an empty reorder buffer. *)
LEMMA UnitInitUInv == UnitInit => UInv
<1> SUFFICES ASSUME UnitInit
             PROVE  UInv
  OBVIOUS
<1>1. IInv
  BY InitIInv DEF UnitInit
<1>2. UnitType
  BY DepthAssumption DEF UnitInit, BS!Init, BS!EmptySlot, UnitType, BufSlot
<1>3. \A i \in 0 .. depth : ~stages[i].valid
  BY DEF UnitInit, BS!Init, BS!EmptySlot
<1>4. EndsFree
  BY <1>2, <1>3 DEF EndsFree, UnitType
<1>5. UnitHoldsWhatItAccepted
  BY <1>3 DEF UnitHoldsWhatItAccepted, UnitInit
<1>6. QED
  BY <1>1, <1>2, <1>4, <1>5 DEF UInv

(* The result goes to the one entry that waits for it, and no other stage  *)
(* holds an operation for that entry.                                      *)
LEMMA PopUInv ==
  ASSUME UInv, Pop
  PROVE  UInv' /\ \E t \in Slot, value \in Value : write_result(t, value)
<1> DEFINE out == stages[depth]
<1> USE DEF UInv
<1>1. /\ step = "pop" /\ step' = "accept"
      /\ out.valid
      /\ stages' = [stages EXCEPT ![depth] = BS!EmptySlot]
      /\ depth' = depth /\ pipelined' = pipelined
      /\ write_result(out.tag, out.value)
      /\ issued' = {o \in issued : o.tag # out.tag}
  BY DEF Pop, BS!pop_output, BS!has_output
<1>2. depth \in 0 .. depth
  BY DEF UnitType
<1>3. PICK p \in issued : Holds(depth, p)
  BY <1>1, <1>2 DEF UnitHoldsWhatItAccepted
<1>4. out.tag \in Slot /\ out.value \in Value
  BY <1>3 DEF Holds, UnitType
<1>5. IInv'
  BY <1>1, <1>4, WriteResultIInv
<1>6. UnitType'
  BY <1>1 DEF UnitType, BufSlot, BS!EmptySlot
<1>7. \A i \in 0 .. depth : stages'[i] = IF i = depth THEN BS!EmptySlot ELSE stages[i]
  BY <1>1 DEF UnitType
<1>8. EndsFree'
  BY <1>1, <1>2, <1>7 DEF EndsFree, BS!EmptySlot
<1>9. UnitHoldsWhatItAccepted'
  <2>1. ASSUME NEW o \in issued' PROVE \E i \in 0 .. depth' : Holds(i, o)'
    <3>1. PICK i \in 0 .. depth : Holds(i, o)
      BY <1>1, <2>1 DEF UnitHoldsWhatItAccepted
    <3>2. i # depth
      BY <1>1, <2>1, <3>1 DEF Holds
    <3>3. QED
      BY <1>1, <1>7, <3>1, <3>2 DEF Holds
  <2>2. ASSUME NEW i \in 0 .. depth', stages'[i].valid
        PROVE  \E o \in issued' : Holds(i, o)'
    <3>1. i \in 0 .. depth /\ i # depth /\ stages'[i] = stages[i]
      BY <1>1, <1>7, <2>2 DEF BS!EmptySlot
    <3>2. PICK o \in issued : Holds(i, o)
      BY <2>2, <3>1 DEF UnitHoldsWhatItAccepted
    <3>3. o.tag # out.tag
      BY <1>1, <1>2, <3>1, <3>2 DEF UnitHoldsWhatItAccepted, Holds
    <3>4. QED
      BY <1>1, <3>1, <3>2, <3>3 DEF Holds
  <2>3. ASSUME NEW i \in 0 .. depth', NEW j \in 0 .. depth',
               stages'[i].valid, stages'[j].valid,
               ~pipelined' \/ stages'[i].tag = stages'[j].tag
        PROVE  i = j
    BY <1>1, <1>7, <2>3 DEF UnitHoldsWhatItAccepted, BS!EmptySlot
  <2>4. ASSUME NEW o \in issued'
        PROVE  o.tag \in Slot /\ entries'[o.tag].state = "IN_FLIGHT"
    BY <1>1, <2>4 DEF UnitHoldsWhatItAccepted, write_result, IInv, TypeOK
  <2>5. QED
    BY <2>1, <2>2, <2>3, <2>4 DEF UnitHoldsWhatItAccepted
<1>10. QED
  BY <1>1, <1>4, <1>5, <1>6, <1>8, <1>9

(* The input stage is free, and no stage holds an operation for the entry. *)
LEMMA AcceptUInv ==
  ASSUME UInv, NEW t \in Slot, NEW value \in Value, Accept(t, value)
  PROVE  UInv'
<1> DEFINE new == [tag |-> t, value |-> value]
<1> USE DEF UInv
<1>1. /\ step = "accept" /\ UNCHANGED <<vars, step>>
      /\ entries[t].state = "IN_FLIGHT" /\ ~Issued(t)
      /\ pipelined \/ ~BS!busy
      /\ ~stages[0].valid
      /\ stages' = [stages EXCEPT ![0] = [valid |-> TRUE, tag |-> t, value |-> value]]
      /\ depth' = depth /\ pipelined' = pipelined
      /\ issued' = issued \cup {new}
  BY DEF Accept, BS!accept, BS!CanAccept
<1>2. IInv'
  BY <1>1 DEF vars, IInv, TypeOK, PositionsAgree, WindowIsLive, Age
<1>3. UnitType'
  BY <1>1 DEF UnitType, BufSlot, Slot
<1>4. \A i \in 0 .. depth :
        stages'[i] = IF i = 0 THEN [valid |-> TRUE, tag |-> t, value |-> value]
                              ELSE stages[i]
  BY <1>1 DEF UnitType
<1>5. EndsFree'
  BY <1>1, <1>4 DEF EndsFree, UnitType
<1>6. UnitHoldsWhatItAccepted'
  <2>1. 0 \in 0 .. depth /\ Holds(0, new)'
    BY <1>1, <1>4 DEF Holds, UnitType
  <2>2. ASSUME NEW o \in issued' PROVE \E i \in 0 .. depth' : Holds(i, o)'
    <3>1. CASE o = new
      BY <1>1, <2>1, <3>1
    <3>2. CASE o \in issued
      <4>1. PICK i \in 0 .. depth : Holds(i, o)
        BY <3>2 DEF UnitHoldsWhatItAccepted
      <4>2. QED
        BY <1>1, <1>4, <4>1 DEF Holds
    <3>3. QED
      BY <1>1, <2>2, <3>1, <3>2
  <2>3. ASSUME NEW i \in 0 .. depth', stages'[i].valid
        PROVE  \E o \in issued' : Holds(i, o)'
    <3>1. CASE i = 0
      BY <1>1, <2>1, <3>1
    <3>2. CASE i # 0
      <4>1. PICK o \in issued : Holds(i, o)
        BY <1>1, <1>4, <2>3, <3>2 DEF UnitHoldsWhatItAccepted
      <4>2. QED
        BY <1>1, <1>4, <2>3, <3>2, <4>1 DEF Holds
    <3>3. QED
      BY <3>1, <3>2
  <2>4. ASSUME NEW i \in 0 .. depth, stages[i].valid
        PROVE  pipelined /\ stages[i].tag # t
    <3>1. PICK o \in issued : Holds(i, o)
      BY <2>4 DEF UnitHoldsWhatItAccepted
    <3>2. BS!busy
      BY <2>4 DEF BS!busy, UnitType
    <3>3. QED
      BY <1>1, <3>1, <3>2 DEF Holds, Issued
  <2>5. ASSUME NEW i \in 0 .. depth', NEW j \in 0 .. depth',
               stages'[i].valid, stages'[j].valid,
               ~pipelined' \/ stages'[i].tag = stages'[j].tag
        PROVE  i = j
    BY <1>1, <1>4, <2>4, <2>5 DEF UnitHoldsWhatItAccepted
  <2>6. ASSUME NEW o \in issued'
        PROVE  o.tag \in Slot /\ entries'[o.tag].state = "IN_FLIGHT"
    BY <1>1, <2>6 DEF UnitHoldsWhatItAccepted, vars
  <2>7. QED
    BY <2>2, <2>3, <2>5, <2>6 DEF UnitHoldsWhatItAccepted
<1>7. QED
  BY <1>2, <1>3, <1>5, <1>6

(* Every stage moves up by one; the last one is empty and drops nothing.   *)
LEMMA TickUInv ==
  ASSUME UInv, Tick
  PROVE  UInv'
<1> USE DEF UInv
<1>1. /\ step = "tick" /\ step' = "pop" /\ UNCHANGED <<vars, issued>>
      /\ stages' = [i \in 0 .. depth |-> IF i = 0 THEN BS!EmptySlot ELSE stages[i - 1]]
      /\ depth' = depth /\ pipelined' = pipelined
  BY DEF Tick, BS!tick
<1>2. IInv'
  BY <1>1 DEF vars, IInv, TypeOK, PositionsAgree, WindowIsLive, Age
<1>3. UnitType'
  BY <1>1 DEF UnitType, BufSlot, BS!EmptySlot
<1>4. \A i \in 0 .. depth :
        stages'[i] = IF i = 0 THEN BS!EmptySlot ELSE stages[i - 1]
  BY <1>1
<1>5. EndsFree'
  BY <1>1, <1>4 DEF EndsFree, UnitType, BS!EmptySlot
<1>6. UnitHoldsWhatItAccepted'
  <2>1. ASSUME NEW o \in issued' PROVE \E i \in 0 .. depth' : Holds(i, o)'
    <3>1. PICK i \in 0 .. depth : Holds(i, o)
      BY <1>1, <2>1 DEF UnitHoldsWhatItAccepted
    <3>2. i # depth
      BY <1>1, <3>1 DEF EndsFree, Holds
    <3>3. i + 1 \in 0 .. depth' /\ stages'[i + 1] = stages[i]
      BY <1>1, <1>4, <3>1, <3>2 DEF UnitType
    <3>4. Holds(i + 1, o)'
      BY <3>1, <3>3 DEF Holds
    <3>5. QED
      BY <3>3, <3>4
  <2>2. ASSUME NEW i \in 0 .. depth', stages'[i].valid
        PROVE  i - 1 \in 0 .. depth /\ stages'[i] = stages[i - 1]
    BY <1>1, <1>4, <2>2 DEF BS!EmptySlot, UnitType
  <2>3. ASSUME NEW i \in 0 .. depth', stages'[i].valid
        PROVE  \E o \in issued' : Holds(i, o)'
    <3>1. PICK o \in issued : Holds(i - 1, o)
      BY <2>2, <2>3 DEF UnitHoldsWhatItAccepted
    <3>2. QED
      BY <1>1, <2>2, <2>3, <3>1 DEF Holds
  <2>4. ASSUME NEW i \in 0 .. depth', NEW j \in 0 .. depth',
               stages'[i].valid, stages'[j].valid,
               ~pipelined' \/ stages'[i].tag = stages'[j].tag
        PROVE  i = j
    <3>1. i - 1 = j - 1
      BY <1>1, <2>2, <2>4 DEF UnitHoldsWhatItAccepted
    <3>2. QED
      BY <1>1, <3>1 DEF UnitType
  <2>5. ASSUME NEW o \in issued'
        PROVE  o.tag \in Slot /\ entries'[o.tag].state = "IN_FLIGHT"
    BY <1>1, <2>5 DEF UnitHoldsWhatItAccepted, vars
  <2>6. QED
    BY <2>1, <2>3, <2>4, <2>5 DEF UnitHoldsWhatItAccepted
<1>7. QED
  BY <1>2, <1>3, <1>5, <1>6

(* Nobody else retires or completes an entry the unit works for. *)
LEMMA OthersUInv ==
  ASSUME UInv, Others
  PROVE  UInv' /\ Next
<1> USE DEF UInv
<1>1. UNCHANGED <<unitVars, step, issued>>
  BY DEF Others
<1>2. Next
  BY DEF Others, Next
<1>3. IInv'
  BY <1>2, NextIInv
<1>4. ASSUME NEW o \in issued
      PROVE  entries'[o.tag].state = "IN_FLIGHT"
  <2>1. o.tag \in Slot /\ entries[o.tag].state = "IN_FLIGHT" /\ Issued(o.tag)
    BY <1>4 DEF UnitHoldsWhatItAccepted, Issued
  <2>2. CASE \E info \in Info : allocate(info)
    BY <2>1, <2>2 DEF allocate, IInv, TypeOK
  <2>3. CASE \E t \in Slot, value \in Value : ~Issued(t) /\ write_result(t, value)
    BY <2>1, <2>3 DEF write_result, IInv, TypeOK
  <2>4. CASE commit
    BY <2>1, <2>4 DEF commit, head_ready, IInv, TypeOK
  <2>5. CASE issued = {} /\ flush
    BY <1>4, <2>5
  <2>6. QED
    BY <2>2, <2>3, <2>4, <2>5 DEF Others
<1>5. UnitType' /\ EndsFree'
  BY <1>1 DEF unitVars, UnitType, EndsFree
<1>6. UnitHoldsWhatItAccepted'
  BY <1>1, <1>4 DEF unitVars, UnitHoldsWhatItAccepted, Holds
<1>7. QED
  BY <1>2, <1>3, <1>5, <1>6

(* No step of the unit or of the rest breaks the invariant, and each is a  *)
(* step of the reorder buffer or leaves it alone.                          *)
LEMMA UnitNextUInv ==
  ASSUME UInv, [UnitNext]_allVars
  PROVE  UInv' /\ [Next]_vars
<1>1. CASE Pop
  BY <1>1, PopUInv DEF Next
<1>2. CASE NothingToPop \/ NothingToAccept
  <2>1. /\ UNCHANGED <<vars, unitVars, issued>>
        /\ step' \in {"accept", "tick"} /\ ~stages[depth].valid
    BY <1>2 DEF NothingToPop, NothingToAccept, BS!has_output, UInv, EndsFree
  <2>2. QED
    BY <2>1 DEF vars, unitVars, UInv, IInv, TypeOK, PositionsAgree, WindowIsLive, Age,
                UnitType, EndsFree, UnitHoldsWhatItAccepted, Holds
<1>3. CASE \E t \in Slot, value \in Value : Accept(t, value)
  BY <1>3, AcceptUInv DEF Accept
<1>4. CASE Tick
  BY <1>4, TickUInv DEF Tick
<1>5. CASE Others
  BY <1>5, OthersUInv
<1>6. CASE UNCHANGED allVars
  BY <1>6 DEF allVars, vars, unitVars, UInv, IInv, TypeOK, PositionsAgree,
              WindowIsLive, Age, UnitType, EndsFree, UnitHoldsWhatItAccepted, Holds
<1>7. QED
  BY <1>1, <1>2, <1>3, <1>4, <1>5, <1>6 DEF UnitNext

(* BufferStation under the caller sequence of its header, for every depth, *)
(* both modes and every reorder buffer: an accepted operation is in        *)
(* exactly one stage until its result is popped, and its entry of the ROB  *)
(* waits for it.                                                           *)
THEOREM UnitCorrect == UnitSpec => []UnitHoldsWhatItAccepted
<1>1. UnitInit => UInv
  BY UnitInitUInv
<1>2. UInv /\ [UnitNext]_allVars => UInv'
  BY UnitNextUInv
<1>3. UInv => UnitHoldsWhatItAccepted
  BY DEF UInv
<1>4. QED
  BY <1>1, <1>2, <1>3, PTL DEF UnitSpec

(* A functional unit that answers through write_result is one of the       *)
(* callers the reorder buffer's own theorems are about, so that they hold  *)
(* beside any such unit.                                                   *)
THEOREM UnitIsACaller == UnitSpec => Spec
<1>1. UnitInit => UInv /\ Init
  BY UnitInitUInv DEF UnitInit
<1>2. UInv /\ [UnitNext]_allVars => UInv' /\ [Next]_vars
  BY UnitNextUInv
<1>3. QED
  BY <1>1, <1>2, PTL DEF UnitSpec, Spec
=============================================================================
