---------------------------- MODULE SoftSimProofs ----------------------------
(***************************************************************************)
(* What the software simulator keeps in every cycle, for every program,    *)
(* every size of its buffers and every table of latencies: the window of   *)
(* the reorder buffer, the stall behind a branch, the rename table, the    *)
(* places of every instruction and the wake-up of every operand.           *)
(***************************************************************************)
EXTENDS SoftSimProps, FiniteSetTheorems, SequenceTheorems,
        WellFoundedInduction, TLAPS

(* The sizes, one by one. *)
LEMMA Sizes ==
  /\ RobSize \in Nat \ {0} /\ LsbSize \in Nat \ {0} /\ IqCapacity \in Nat \ {0}
  /\ IqFetchWidth \in Nat \ {0} /\ MaxCycles \in Nat \ {0}
  /\ StationSize \in [Station -> Nat \ {0}]
  BY SizesAssumption

-----------------------------------------------------------------------------
(* The reorder buffer inside the simulator.                                *)

RobShape ==
  /\ DOMAIN robEntries = Tag
  /\ \A t \in Tag : robEntries[t].state \in {"IDLE", "IN_FLIGHT", "DONE"}
  /\ robHead \in Tag /\ robTail \in Tag /\ robCount \in 0 .. RobSize

RobOK == RobShape /\ ROB!PositionsAgree /\ ROB!WindowIsLive

(* Going round: one further, or back to slot 0. *)
LEMMA SuccWraps ==
  ASSUME NEW t \in Tag
  PROVE  ROB!Succ(t) = IF t = RobSize - 1 THEN 0 ELSE t + 1
<1> USE Sizes DEF Tag, ROB!Slot, ROB!Succ
<1>1. CASE t = RobSize - 1
  BY <1>1
<1>2. CASE t # RobSize - 1
  <2>1. t + 1 \in 0 .. RobSize - 1
    BY <1>2
  <2>2. QED
    BY <1>2, <2>1
<1>3. QED
  BY <1>1, <1>2

(* Two slots have different ages. *)
LEMMA AgeInjective ==
  ASSUME RobShape, NEW t \in Tag, NEW u \in Tag
  PROVE  /\ ROB!Age(t) \in 0 .. RobSize - 1
         /\ ROB!Age(t) = ROB!Age(u) => t = u
  BY Sizes DEF RobShape, Tag, ROB!Slot, ROB!Age

(* What allocate does: a new youngest entry in a slot that was idle. *)
LEMMA AllocateEffect ==
  ASSUME RobOK, NEW info, ROB!allocate(info)
  PROVE  /\ RobOK'
         /\ ~Live(robTail) /\ robCount < RobSize /\ ROB!Age(robTail) = robCount
         /\ robEntries'[robTail].state = "IN_FLIGHT"
         /\ robEntries'[robTail].info = info
         /\ \A t \in Tag \ {robTail} : robEntries'[t] = robEntries[t]
         /\ \A t \in Tag : ROB!Age(t)' = ROB!Age(t)
         /\ robHead' = robHead
<1> USE Sizes DEF RobOK, RobShape, ROB!allocate, ROB!full
<1>1. robTail' = IF robTail = RobSize - 1 THEN 0 ELSE robTail + 1
  BY SuccWraps
<1>2. \A t \in Tag : ROB!Age(t)' = ROB!Age(t)
  BY DEF ROB!Age
<1>3. robCount < RobSize /\ ROB!Age(robTail) = robCount
  BY DEF ROB!PositionsAgree, Tag, ROB!Slot, ROB!Age
<1>4. ~Live(robTail)
  BY <1>3 DEF ROB!WindowIsLive, Tag, Live
<1>5. /\ robEntries'[robTail].state = "IN_FLIGHT"
      /\ robEntries'[robTail].info = info
      /\ \A t \in Tag \ {robTail} : robEntries'[t] = robEntries[t]
  OBVIOUS
<1>6. RobShape'
  BY <1>1, <1>5 DEF Tag, ROB!Slot
<1>7. ROB!PositionsAgree'
  BY <1>1 DEF ROB!PositionsAgree, Tag, ROB!Slot
<1>8. ROB!WindowIsLive'
  <2> SUFFICES ASSUME NEW t \in Tag
               PROVE  robEntries'[t].state # "IDLE" <=> ROB!Age(t) < robCount + 1
    BY <1>2 DEF ROB!WindowIsLive, Tag
  <2>1. CASE t = robTail
    BY <2>1, <1>3, <1>5
  <2>2. CASE t # robTail
    <3>1. ROB!Age(t) # robCount /\ ROB!Age(t) \in Nat
      BY <2>2, <1>3, AgeInjective
    <3>2. robEntries[t].state # "IDLE" <=> ROB!Age(t) < robCount
      BY DEF ROB!WindowIsLive, Tag
    <3>3. QED
      BY <2>2, <1>5, <3>1, <3>2
  <2>3. QED
    BY <2>1, <2>2
<1>9. QED
  BY <1>2, <1>3, <1>4, <1>5, <1>6, <1>7, <1>8

(* What write_result does: an entry in flight is done, nothing moves. *)
LEMMA WriteEffect ==
  ASSUME RobOK, NEW t, NEW value, ROB!write_result(t, value)
  PROVE  /\ RobOK'
         /\ t \in Tag /\ InFlight(t) /\ robEntries'[t].state = "DONE"
         /\ \A u \in Tag : robEntries'[u].info = robEntries[u].info
         /\ \A u \in Tag \ {t} : robEntries'[u] = robEntries[u]
         /\ \A u \in Tag : ROB!Age(u)' = ROB!Age(u)
         /\ robHead' = robHead /\ robTail' = robTail /\ robCount' = robCount
<1> USE DEF RobOK, RobShape, ROB!write_result, Tag
<1>1. t \in Tag /\ InFlight(t)
  BY DEF InFlight
<1>2. /\ robEntries'[t].state = "DONE"
      /\ \A u \in Tag : robEntries'[u].info = robEntries[u].info
      /\ \A u \in Tag \ {t} : robEntries'[u] = robEntries[u]
  OBVIOUS
<1>3. \A u \in Tag : ROB!Age(u)' = ROB!Age(u)
  BY DEF ROB!Age
<1>4. RobShape'
  OBVIOUS
<1>5. ROB!PositionsAgree'
  BY DEF ROB!PositionsAgree
<1>6. ROB!WindowIsLive'
  BY <1>1, <1>2, <1>3 DEF ROB!WindowIsLive, InFlight
<1>7. QED
  BY <1>1, <1>2, <1>3, <1>4, <1>5, <1>6

(* What commit does: the oldest entry goes, all others are one place older. *)
LEMMA CommitEffect ==
  ASSUME RobOK, ROB!commit
  PROVE  /\ RobOK'
         /\ ROB!Age(robHead) = 0 /\ robEntries[robHead].state = "DONE"
         /\ robEntries'[robHead].state = "IDLE" /\ robCount > 0
         /\ \A t \in Tag \ {robHead} : robEntries'[t] = robEntries[t]
         /\ \A t \in Tag :
              ROB!Age(t)' = IF t = robHead THEN RobSize - 1 ELSE ROB!Age(t) - 1
         /\ robTail' = robTail /\ robCount' = robCount - 1
<1> USE Sizes DEF RobOK, RobShape, ROB!commit, ROB!head_ready, ROB!empty
<1>1. robHead' = IF robHead = RobSize - 1 THEN 0 ELSE robHead + 1
  BY SuccWraps
<1>2. /\ ROB!Age(robHead) = 0 /\ robEntries[robHead].state = "DONE"
      /\ robCount > 0
  BY DEF ROB!Age, Tag, ROB!Slot
<1>3. /\ robEntries'[robHead].state = "IDLE"
      /\ \A t \in Tag \ {robHead} : robEntries'[t] = robEntries[t]
  BY DEF ROB!IdleEntry
<1>4. \A t \in Tag :
        ROB!Age(t)' = IF t = robHead THEN RobSize - 1 ELSE ROB!Age(t) - 1
  BY <1>1 DEF ROB!Age, Tag, ROB!Slot
<1>5. RobShape'
  BY <1>1, <1>2, <1>3 DEF Tag, ROB!Slot
<1>6. ROB!PositionsAgree'
  BY <1>1, <1>2 DEF ROB!PositionsAgree, Tag, ROB!Slot
<1>7. ROB!WindowIsLive'
  <2> SUFFICES ASSUME NEW t \in Tag
               PROVE  robEntries'[t].state # "IDLE" <=> ROB!Age(t)' < robCount - 1
    BY DEF ROB!WindowIsLive, Tag
  <2>1. CASE t = robHead
    BY <2>1, <1>3, <1>4
  <2>2. CASE t # robHead
    <3>1. robEntries[t].state # "IDLE" <=> ROB!Age(t) < robCount
      BY DEF ROB!WindowIsLive, Tag
    <3>2. ROB!Age(t) \in Nat
      BY AgeInjective
    <3>3. QED
      BY <2>2, <1>3, <1>4, <3>1, <3>2
  <2>3. QED
    BY <2>1, <2>2
<1>8. QED
  BY <1>2, <1>3, <1>4, <1>5, <1>6, <1>7

LEMMA RobUnchanged ==
  ASSUME RobOK, UNCHANGED robVars
  PROVE  RobOK' /\ \A t \in Tag : ROB!Age(t)' = ROB!Age(t)
  BY DEF robVars, RobOK, RobShape, ROB!PositionsAgree, ROB!WindowIsLive, ROB!Age, Tag

-----------------------------------------------------------------------------
(* What kinds of steps there are, by what they do to the reorder buffer.   *)
AnyCommit == CommitHalt \/ CommitBranch \/ CommitJump \/ CommitStore \/ CommitResult
AnyWrite  == NotifyStore \/ BroadcastStation \/ BroadcastLoad
AnyDispatch == Dispatch \/ DispatchBranch
AnyParse  == Parse \/ LoadProgram \/ NoInstructions
AnyOther  == \/ Execute \/ StoresNotified \/ BroadcastEnds \/ Snoop
             \/ CommitNothing \/ Fetch \/ FetchStalled \/ DispatchEnds
             \/ NextCycle \/ Report

LEMMA StepKinds ==
  ASSUME [Next]_vars
  PROVE  AnyCommit \/ AnyWrite \/ AnyDispatch \/ AnyParse \/ AnyOther \/ UNCHANGED vars
  BY DEF Next, AnyCommit, AnyWrite, AnyDispatch, AnyParse, AnyOther, Exited

LEMMA CommitIs ==
  ASSUME AnyCommit
  PROVE  Committing
  BY DEF AnyCommit, CommitHalt, CommitBranch, CommitJump, CommitStore, CommitResult

LEMMA WriteIs ==
  ASSUME AnyWrite
  PROVE  \E t, value : ROB!write_result(t, value)
  BY DEF AnyWrite, NotifyStore, BroadcastStation, BroadcastLoad

LEMMA DispatchIs ==
  ASSUME AnyDispatch
  PROVE  /\ try_dispatch(IQ!peek)
         /\ ROB!allocate([op |-> IQ!peek.op, rd |-> IQ!peek.rd, pc |-> IQ!peek.pc])
  BY DEF AnyDispatch, Dispatch, DispatchBranch, try_dispatch

LEMMA OtherRob ==
  ASSUME AnyParse \/ AnyOther \/ UNCHANGED vars
  PROVE  UNCHANGED <<robVars>>
  BY DEF AnyOther, AnyParse, vars, Parse, LoadProgram, NoInstructions, Returned, pipeVars,
         Execute, StoresNotified, BroadcastEnds, Snoop, CommitNothing, Fetch,
         FetchStalled, DispatchEnds, NextCycle, Report

LEMMA RobStep == RobOK /\ [Next]_vars => RobOK'
<1> SUFFICES ASSUME RobOK, [Next]_vars PROVE RobOK'
  OBVIOUS
<1>1. CASE AnyCommit
  BY <1>1, CommitIs, CommitEffect DEF Committing
<1>2. CASE AnyWrite
  BY <1>2, WriteIs, WriteEffect
<1>3. CASE AnyDispatch
  BY <1>3, DispatchIs, AllocateEffect
<1>4. CASE AnyParse \/ AnyOther \/ UNCHANGED vars
  BY <1>4, OtherRob, RobUnchanged
<1>5. QED
  BY <1>1, <1>2, <1>3, <1>4, StepKinds

LEMMA RobInit == Init => RobOK
  BY Sizes DEF Init, ROB!Init, ROB!IdleEntry, RobOK, RobShape, ROB!PositionsAgree,
        ROB!WindowIsLive, ROB!Age, Tag, ROB!Slot

(* The reorder buffer keeps its window in the whole simulator: the calls   *)
(* main makes respect its protocol (sim.cpp main, reorder_buffer.cpp).     *)
THEOREM RobWindowKept == Spec => [](ROB!PositionsAgree /\ ROB!WindowIsLive)
<1>1. RobOK => ROB!PositionsAgree /\ ROB!WindowIsLive
  BY DEF RobOK
<1>2. QED
  BY <1>1, RobInit, RobStep, PTL DEF Spec

-----------------------------------------------------------------------------
(* The stall behind a branch or a jump.                                    *)

Control(t) == Live(t) /\ robEntries[t].info.op \in ControlOps

(* StallsBehindBranch, member by member, with what makes it inductive: the *)
(* dispatch loop only runs when nothing stalls it.                         *)
StallInv ==
  /\ branch_in_flight \in BOOLEAN
  /\ \A t \in Tag : Control(t) => branch_in_flight
  /\ branch_in_flight => (\E t \in Tag : Control(t)) /\ iqBuffer = << >>
  /\ \A t, u \in Tag : Control(t) /\ Live(u) => ROB!Age(u) <= ROB!Age(t)
  /\ phase = "dispatch" => ~branch_in_flight

LEMMA StallMeans == RobOK /\ StallInv => StallsBehindBranch
<1> SUFFICES ASSUME RobOK, StallInv PROVE StallsBehindBranch
  OBVIOUS
<1>1. \A t, u \in Tag : Control(t) /\ Live(u) => ~Older(t, u)
  BY AgeInjective DEF RobOK, StallInv, Older
<1> DEFINE control == {t \in Tag : Live(t) /\ robEntries[t].info.op \in ControlOps}
<1>2. \A t : t \in control <=> t \in Tag /\ Control(t)
  BY DEF Control
<1> HIDE DEF control
<1>3. branch_in_flight <=> control # {}
  BY <1>2 DEF StallInv
<1>4. branch_in_flight => iqBuffer = << >>
  BY DEF StallInv
<1>5. \A t \in control : \A u \in Tag : Live(u) => ~Older(t, u)
  BY <1>1, <1>2
<1>6. QED
  BY <1>3, <1>4, <1>5 DEF StallsBehindBranch, control

LEMMA StallInit == Init => StallInv
<1> SUFFICES ASSUME Init PROVE StallInv
  OBVIOUS
<1>1. \A t \in Tag : ~Live(t)
  BY DEF Init, ROB!Init, ROB!IdleEntry, Live, Tag
<1>2. branch_in_flight = FALSE /\ phase = "parse"
  BY DEF Init
<1>3. QED
  BY <1>1, <1>2 DEF StallInv, Control

(* What is live and what it is, after a step that is no commit and no      *)
(* dispatch.                                                               *)
LEMMA SameEntries ==
  ASSUME RobOK, AnyWrite \/ AnyParse \/ AnyOther \/ UNCHANGED vars
  PROVE  /\ \A t \in Tag : /\ Live(t)' <=> Live(t)
                           /\ robEntries'[t].info = robEntries[t].info
                           /\ ROB!Age(t)' = ROB!Age(t)
         /\ robHead' = robHead /\ robTail' = robTail /\ robCount' = robCount
<1>1. CASE AnyWrite
  <2>1. PICK t, value : ROB!write_result(t, value)
    BY <1>1, WriteIs
  <2>2. QED
    BY <2>1, WriteEffect DEF Live, InFlight
<1>2. CASE AnyParse \/ AnyOther \/ UNCHANGED vars
  BY <1>2, OtherRob, RobUnchanged DEF Live, robVars
<1>3. QED
  BY <1>1, <1>2

(* Where the fetch buffer and the stall flag change. *)
LEMMA OtherStall ==
  ASSUME AnyWrite \/ AnyParse \/ AnyOther \/ UNCHANGED vars
  PROVE  /\ branch_in_flight' = branch_in_flight
         /\ iqBuffer' = << >> \/ iqBuffer' = iqBuffer \/ (~branch_in_flight /\ phase # "dispatch")
         /\ phase' = "dispatch" => ~branch_in_flight \/ phase = "dispatch"
  BY DEF AnyWrite, AnyOther, AnyParse, vars, Parse, LoadProgram, NoInstructions,
         Returned, pipeVars, iqVars, IQ!load_program, Execute, StoresNotified,
         BroadcastEnds, Snoop, CommitNothing, Fetch, FetchStalled, DispatchEnds,
         NextCycle, Report, NotifyStore, BroadcastStation, BroadcastLoad

LEMMA StallStep == RobOK /\ StallInv /\ [Next]_vars => StallInv'
<1> SUFFICES ASSUME RobOK, StallInv, [Next]_vars PROVE StallInv'
  OBVIOUS
<1>1. CASE CommitHalt \/ CommitStore \/ CommitResult
  <2>1. Committing /\ UNCHANGED <<iqBuffer, branch_in_flight>> /\ ~Control(robHead)
    BY <1>1 DEF CommitHalt, CommitStore, CommitResult, iqVars, Control, ControlOps,
                Entry, is_store, Stores, Branches, Jumps
  <2>2. ROB!commit /\ phase' = "fetch"
    BY <2>1 DEF Committing
  <2>3. \A t \in Tag : /\ Live(t)' => t # robHead
                       /\ t # robHead => /\ Live(t)' <=> Live(t)
                                         /\ Control(t)' <=> Control(t)
                                         /\ ROB!Age(t)' = ROB!Age(t) - 1
    BY <2>2, CommitEffect DEF Live, Control
  <2>4. \A t \in Tag : ROB!Age(t) \in Int
    BY AgeInjective DEF RobOK
  <2>5. \A t \in Tag : Control(t)' => t # robHead
    BY <2>3 DEF Control
  <2>6. QED
    BY <2>1, <2>2, <2>3, <2>4, <2>5 DEF StallInv
<1>2. CASE CommitBranch \/ CommitJump
  <2>1. Committing /\ Control(robHead) /\ branch_in_flight' = FALSE
    BY <1>2 DEF CommitBranch, CommitJump, Redirect, Committing, ROB!commit, ROB!head_ready,
                Control, Live, ControlOps, Entry, is_branch, is_jump
  <2>2. ROB!commit /\ phase' = "fetch"
    BY <2>1 DEF Committing
  <2>3. \A u \in Tag : Live(u) => u = robHead
    <3>1. robHead \in Tag /\ ROB!Age(robHead) = 0
      BY <2>2, CommitEffect DEF RobOK, RobShape
    <3>2. QED
      BY <2>1, <3>1, AgeInjective DEF StallInv, RobOK
  <2>4. \A u \in Tag : ~Live(u)'
    BY <2>2, <2>3, CommitEffect DEF Live
  <2>5. QED
    BY <2>1, <2>2, <2>4 DEF StallInv, Control
<1>3. CASE AnyDispatch
  <2>1. /\ ~branch_in_flight /\ \A t \in Tag : ~Control(t)
        /\ ROB!allocate([op |-> IQ!peek.op, rd |-> IQ!peek.rd, pc |-> IQ!peek.pc])
    BY <1>3, DispatchIs DEF StallInv, try_dispatch
  <2> PICK h \in Tag : h = robTail
    BY DEF RobOK, RobShape
  <2>2. /\ robEntries'[h].info.op = IQ!peek.op /\ Live(h)'
        /\ \A t \in Tag \ {h} : robEntries'[t] = robEntries[t]
        /\ \A t \in Tag : ROB!Age(t)' = ROB!Age(t)
        /\ ROB!Age(h) = robCount
        /\ RobOK' /\ robCount' = robCount + 1
    BY <2>1, AllocateEffect DEF Live, ROB!allocate
  <2>3. CASE Dispatch
    <3>1. \A t \in Tag : ~Control(t)'
      BY <2>1, <2>2, <2>3 DEF Dispatch, Control, Live, ControlOps, is_branch, is_jump
    <3>2. QED
      BY <2>1, <2>3, <3>1 DEF Dispatch, StallInv
  <2>4. CASE DispatchBranch
    <3>1. Control(h)' /\ \A t \in Tag \ {h} : ~Control(t)'
      BY <2>1, <2>2, <2>4 DEF DispatchBranch, Control, Live, ControlOps, is_branch, is_jump
    <3>2. branch_in_flight' = TRUE /\ iqBuffer' = << >> /\ phase' = "next_cycle"
      BY <2>4 DEF DispatchBranch, IQ!seek
    <3>3. \A u \in Tag : Live(u)' => ROB!Age(u)' < robCount + 1
      BY <2>2 DEF RobOK, ROB!WindowIsLive, Live, Tag
    <3>4. \A u \in Tag : Live(u)' => ROB!Age(u)' <= ROB!Age(h)'
      BY <2>2, <3>3, AgeInjective DEF RobOK, RobShape
    <3>5. QED
      BY <3>1, <3>2, <3>4 DEF StallInv
  <2>5. QED
    BY <1>3, <2>3, <2>4 DEF AnyDispatch
<1>4. CASE AnyWrite \/ AnyParse \/ AnyOther \/ UNCHANGED vars
  <2>1. \A t \in Tag : Control(t)' <=> Control(t)
    BY <1>4, SameEntries DEF Control
  <2>2. QED
    BY <1>4, <2>1, SameEntries, OtherStall DEF StallInv
<1>5. QED
  BY <1>1, <1>2, <1>3, <1>4, StepKinds DEF AnyCommit

(* Nothing is fetched past a branch or jump in flight, for every program:  *)
(* main sets branch_in_flight when it dispatches one and clears it when it *)
(* commits (sim.cpp phases 5 and 6).                                       *)
THEOREM StallKept == Spec => []StallsBehindBranch
  BY RobInit, RobStep, StallInit, StallStep, StallMeans, PTL DEF Spec

-----------------------------------------------------------------------------
(* Words: every operation on words gives a word.                           *)

LEMMA WordFacts ==
  /\ WordSize \in Nat \ {0} /\ 0 \in Word
  /\ \A n \in Int : Wrap(n) \in Word
  /\ \A v \in Word : v \in Nat /\ Signed(v) \in Int
<1>1. WordSize \in Nat \ {0}
  BY WordArithmetic, WordAssumption, LuiAssumption DEF WordSize
<1>2. QED
  BY <1>1 DEF Word, Wrap, Signed

(* Division does not make a number larger. *)
LEMMA DivSmaller ==
  ASSUME NEW a \in Nat, NEW b \in Nat \ {0}
  PROVE  a \div b \in 0 .. a
<1>1. a \div b \in Int /\ a = b * (a \div b) + (a % b) /\ a % b \in 0 .. b - 1
  OBVIOUS
<1> DEFINE q == a \div b
<1>2. q \in Int /\ a = b * q + (a % b) /\ a % b \in Nat /\ a % b < b
  BY <1>1
<1> HIDE DEF q
<1>3. q >= 0
  <2>1. q <= -1 => b * q <= -b
    BY <1>2
  <2>2. QED
    BY <1>2, <2>1
<1>4. b * q >= q
  BY <1>2, <1>3
<1>5. QED
  BY <1>2, <1>3, <1>4 DEF q

LEMMA PowerFacts ==
  ASSUME NEW n \in Int
  PROVE  2^ShiftAmount(n) \in Nat \ {0} /\ 2^LuiShift \in Nat \ {0}
<1>1. ShiftAmount(n) \in 0 .. WordBits + LuiShift /\ LuiShift \in 0 .. WordBits + LuiShift
  BY WordAssumption, LuiAssumption DEF ShiftAmount
<1>2. QED
  BY <1>1, WordArithmetic

LEMMA ExecuteIsWord ==
  ASSUME NEW op \in Opcode, NEW vj \in Word, NEW vk \in Word, NEW imm \in Int, NEW pc \in Nat
  PROVE  execute_op(op, vj, vk, imm, pc) \in Word
<1> USE DEF Loads, Stores, Branches, FpArith, FpCvt
<1>1. vj \in Nat /\ vk \in Nat /\ Signed(vj) \in Int /\ Wrap(imm) \in Word /\ Wrap(imm) \in Nat
  BY WordFacts
<1>2. CASE op \in {"ADD", "SUB", "ADDI", "JAL"} \cup Loads \cup Stores \cup Branches
  BY <1>1, <1>2, WordFacts DEF execute_op
<1>3. CASE op \in {"AND", "OR", "XOR", "ANDI", "ORI", "XORI"}
  BY <1>1, <1>3, WordArithmetic DEF execute_op
<1>4. CASE op \in {"SLL", "SLLI", "LUI"}
  <2>1. /\ vj * 2^ShiftAmount(vk) \in Int /\ vj * 2^ShiftAmount(imm) \in Int
        /\ Wrap(imm) * 2^LuiShift \in Int
    BY <1>1, PowerFacts
  <2>2. QED
    BY <1>4, <2>1, WordFacts DEF execute_op
<1>5. CASE op \in {"SRL", "SRLI"}
  <2>1. vj \div 2^ShiftAmount(vk) \in 0 .. vj /\ vj \div 2^ShiftAmount(imm) \in 0 .. vj
    BY <1>1, PowerFacts, DivSmaller
  <2>2. \A k \in 0 .. vj : k \in Word
    BY <1>1, WordFacts DEF Word
  <2>3. QED
    BY <1>5, <2>1, <2>2 DEF execute_op
<1>6. CASE op = "SRA"
  <2>1. Signed(vj) \div 2^ShiftAmount(vk) \in Int
    BY <1>1, PowerFacts
  <2>2. QED
    BY <1>6, <2>1, WordFacts DEF execute_op
<1>7. CASE op = "JALR"
  <2>1. vj + imm \in Int
    BY <1>1
  <2>2. Wrap(vj + imm) \in Word
    BY <2>1, WordFacts
  <2>3. Wrap(vj + imm) - (Wrap(vj + imm) % 2) \in Word
    BY <2>2, WordFacts DEF Word
  <2>4. QED
    BY <1>7, <2>3 DEF execute_op
<1>8. CASE op \in FpArith \cup FpCvt
  BY <1>8, FpuAssumption DEF execute_op
<1>9. CASE op \in {"NOP", "HALT"}
  BY <1>9, WordFacts DEF execute_op
<1>10. QED
  BY <1>2, <1>3, <1>4, <1>5, <1>6, <1>7, <1>8, <1>9
     DEF Opcode, IntRType, IntIType, Jumps

-----------------------------------------------------------------------------
(* What parse_program makes of a well-formed line: registers where the     *)
(* opcode has them and nowhere else.                                       *)

LEMMA OperandTyped ==
  ASSUME NEW x \in Lexeme
  PROVE  /\ Form(x) = "x" => x.kind = "reg" /\ X(x) \in Reg
         /\ Form(x) = "f" => x.kind = "reg" /\ F(x) \in Reg
         /\ Form(x) = "mem" => x.kind = "mem" /\ X(x) \in Reg /\ x.num \in Int
         /\ Form(x) = "num" => x.kind = "num" /\ x.num \in Int
         /\ Form(x) = "word" => x.kind = "word"
  BY RegisterNames DEF Lexeme, Form, X, F, Reg

LEMMA OffsetTyped ==
  ASSUME NEW x, x.kind = "num" => x.num \in Int,
         NEW lab, \A l \in DOMAIN lab : lab[l] \in Int, NEW pc \in Int
  PROVE  branch_offset(x, lab, pc) \in Int
  BY RegisterNames DEF branch_offset

LEMMA MnemonicTyped == \A word : Mnemonic(word) \in Opcode
<1> SUFFICES ASSUME NEW word PROVE Mnemonic(word) \in Opcode
  OBVIOUS
<1> USE DEF Opcode, FpArith, FpCvt
<1>1. CASE word \in Opcode \ (FpArith \cup FpCvt)
  BY <1>1 DEF Mnemonic
<1>2. CASE word \notin Opcode \ (FpArith \cup FpCvt)
  BY <1>2 DEF Mnemonic
<1>3. QED
  BY <1>1, <1>2

(* The operands of t have the forms f. *)
HasForms(t, f) ==
  Len(t) = Len(f) + 1 /\ \A k \in 1 .. Len(f) : Form(t[k + 1]) = f[k]

LEMMA TwoForms ==
  ASSUME NEW t \in Seq(Lexeme), NEW a, NEW b, HasForms(t, <<a, b>>)
  PROVE  t[2] \in Lexeme /\ Form(t[2]) = a /\ t[3] \in Lexeme /\ Form(t[3]) = b
<1>1. Len(t) = 3 /\ \A k \in 1 .. 2 : Form(t[k + 1]) = <<a, b>>[k]
  BY DEF HasForms
<1>2. QED
  BY <1>1

LEMMA ThreeForms ==
  ASSUME NEW t \in Seq(Lexeme), NEW a, NEW b, NEW c, HasForms(t, <<a, b, c>>)
  PROVE  /\ t[2] \in Lexeme /\ Form(t[2]) = a /\ t[3] \in Lexeme /\ Form(t[3]) = b
         /\ t[4] \in Lexeme /\ Form(t[4]) = c
<1>1. Len(t) = 4 /\ \A k \in 1 .. 3 : Form(t[k + 1]) = <<a, b, c>>[k]
  BY DEF HasForms
<1>2. \A k \in 1 .. 4 : t[k] \in Lexeme
  BY <1>1, ElementOfSeq
<1>3. Form(t[1 + 1]) = a /\ Form(t[2 + 1]) = b /\ Form(t[3 + 1]) = c
  BY <1>1
<1>4. QED
  BY <1>2, <1>3

(* Which fields an opcode leaves empty. *)
Shape(i) ==
  /\ i.op \in Branches \cup Stores \cup {"NOP", "HALT"} => i.rd = NoReg
  /\ i.op \in Loads => i.rs2 = NoReg

LEMMA DecodeTyped ==
  ASSUME NEW t, WellFormed(t), IsInstruction(t),
         NEW lab, \A l \in DOMAIN lab : lab[l] \in Int, NEW pc \in Int
  PROVE  Decode(t, lab, pc) \in Decoded /\ Shape(Decode(t, lab, pc))
<1> DEFINE op == Mnemonic(t[1].word)
<1>1. op \in Opcode /\ t \in Seq(Lexeme)
  BY MnemonicTyped DEF WellFormed
<1>2. op \notin {"NOP", "HALT"} => \E f \in Formats(op) : HasForms(t, f)
  BY DEF WellFormed, HasForms
<1> HIDE DEF op
<1> USE DEF Opcode, IntRType, IntIType, Branches, Jumps, Loads, Stores, FpArith, FpCvt
<1>3. CASE op \in IntRType \cup FpArith
  <2> DEFINE a == IF op \in IntRType THEN "x" ELSE "f"
  <2>1. HasForms(t, <<a, a, a>>)
    BY <1>2, <1>3 DEF Formats
  <2>2. /\ t[2] \in Lexeme /\ Form(t[2]) = a /\ t[3] \in Lexeme /\ Form(t[3]) = a
        /\ t[4] \in Lexeme /\ Form(t[4]) = a
    BY <1>1, <2>1, ThreeForms
  <2>3. IF op \in IntRType THEN X(t[2]) \in Reg /\ X(t[3]) \in Reg /\ X(t[4]) \in Reg
                           ELSE F(t[2]) \in Reg /\ F(t[3]) \in Reg /\ F(t[4]) \in Reg
    BY <2>1, <2>2, OperandTyped
  <2>4. QED
    BY <1>3, <2>3 DEF Decode, Decoded, Shape, op
<1>4. CASE op \in IntIType \ {"LUI"}
  <2>1. HasForms(t, <<"x", "x", "num">>)
    BY <1>2, <1>4 DEF Formats
  <2>2. /\ t[2] \in Lexeme /\ Form(t[2]) = "x" /\ t[3] \in Lexeme /\ Form(t[3]) = "x"
        /\ t[4] \in Lexeme /\ Form(t[4]) = "num"
    BY <1>1, <2>1, ThreeForms
  <2>3. X(t[2]) \in Reg /\ X(t[3]) \in Reg /\ t[4].num \in Int
    BY <2>2, OperandTyped
  <2>4. QED
    BY <1>4, <2>3 DEF Decode, Decoded, Shape, op
<1>5. CASE op = "LUI"
  <2>1. HasForms(t, <<"x", "num">>)
    BY <1>2, <1>5 DEF Formats
  <2>2. /\ t[2] \in Lexeme /\ Form(t[2]) = "x" /\ t[3] \in Lexeme /\ Form(t[3]) = "num"
    BY <1>1, <2>1, TwoForms
  <2>3. X(t[2]) \in Reg /\ t[3].num \in Int
    BY <2>2, OperandTyped
  <2>4. QED
    BY <1>5, <2>3 DEF Decode, Decoded, Shape, op
<1>6. CASE op \in Loads \cup Stores
  <2> DEFINE a == IF op \in {"LW", "SW"} THEN "x" ELSE "f"
  <2>1. HasForms(t, <<a, "mem">>)
    BY <1>2, <1>6 DEF Formats
  <2>2. /\ t[2] \in Lexeme /\ Form(t[2]) = a /\ t[3] \in Lexeme /\ Form(t[3]) = "mem"
    BY <1>1, <2>1, TwoForms
  <2>3. /\ IF op \in {"LW", "SW"} THEN X(t[2]) \in Reg ELSE F(t[2]) \in Reg
        /\ X(t[3]) \in Reg /\ t[3].num \in Int
    BY <2>1, <2>2, OperandTyped
  <2>4. QED
    BY <1>6, <2>3 DEF Decode, Decoded, Shape, op
<1>7. CASE op \in Branches
  <2>1. HasForms(t, <<"x", "x", "num">>) \/ HasForms(t, <<"x", "x", "word">>)
    BY <1>2, <1>7 DEF Formats
  <2>2. /\ t[2] \in Lexeme /\ Form(t[2]) = "x" /\ t[3] \in Lexeme /\ Form(t[3]) = "x"
        /\ t[4] \in Lexeme /\ Form(t[4]) \in {"num", "word"}
    <3>1. CASE HasForms(t, <<"x", "x", "num">>)
      BY <1>1, <3>1, ThreeForms
    <3>2. CASE HasForms(t, <<"x", "x", "word">>)
      BY <1>1, <3>2, ThreeForms
    <3>3. QED
      BY <2>1, <3>1, <3>2
  <2>3. X(t[2]) \in Reg /\ X(t[3]) \in Reg /\ (t[4].kind = "num" => t[4].num \in Int)
    BY <2>2, OperandTyped
  <2>4. branch_offset(t[4], lab, pc) \in Int
    BY <2>3, OffsetTyped
  <2>5. QED
    BY <1>7, <2>3, <2>4 DEF Decode, Decoded, Shape, op
<1>8. CASE op = "JAL"
  <2>1. HasForms(t, <<"x", "num">>) \/ HasForms(t, <<"x", "word">>)
    BY <1>2, <1>8 DEF Formats
  <2>2. /\ t[2] \in Lexeme /\ Form(t[2]) = "x"
        /\ t[3] \in Lexeme /\ Form(t[3]) \in {"num", "word"}
    <3>1. CASE HasForms(t, <<"x", "num">>)
      BY <1>1, <3>1, TwoForms
    <3>2. CASE HasForms(t, <<"x", "word">>)
      BY <1>1, <3>2, TwoForms
    <3>3. QED
      BY <2>1, <3>1, <3>2
  <2>3. X(t[2]) \in Reg /\ (t[3].kind = "num" => t[3].num \in Int)
    BY <2>2, OperandTyped
  <2>4. branch_offset(t[3], lab, pc) \in Int
    BY <2>3, OffsetTyped
  <2>5. QED
    BY <1>8, <2>3, <2>4 DEF Decode, Decoded, Shape, op
<1>9. CASE op = "JALR"
  <2>1. HasForms(t, <<"x", "mem">>) \/ HasForms(t, <<"x", "x", "num">>)
    BY <1>2, <1>9 DEF Formats
  <2>2. CASE HasForms(t, <<"x", "mem">>)
    <3>1. t[2] \in Lexeme /\ Form(t[2]) = "x" /\ t[3] \in Lexeme /\ Form(t[3]) = "mem"
      BY <1>1, <2>2, TwoForms
    <3>2. X(t[2]) \in Reg /\ t[3].kind = "mem" /\ X(t[3]) \in Reg /\ t[3].num \in Int
      BY <3>1, OperandTyped
    <3>3. QED
      BY <1>9, <3>2 DEF Decode, Decoded, Shape, op
  <2>3. CASE HasForms(t, <<"x", "x", "num">>)
    <3>1. /\ t[2] \in Lexeme /\ Form(t[2]) = "x" /\ t[3] \in Lexeme /\ Form(t[3]) = "x"
          /\ t[4] \in Lexeme /\ Form(t[4]) = "num"
      BY <1>1, <2>3, ThreeForms
    <3>2. X(t[2]) \in Reg /\ t[3].kind = "reg" /\ X(t[3]) \in Reg /\ t[4].num \in Int
      BY <3>1, OperandTyped
    <3>3. QED
      BY <1>9, <3>2 DEF Decode, Decoded, Shape, op
  <2>4. QED
    BY <2>1, <2>2, <2>3
<1>10. CASE op \in FpCvt
  <2> DEFINE a == IF op = "FCVT_W_S" THEN "x" ELSE "f"
             b == IF op = "FCVT_W_S" THEN "f" ELSE "x"
  <2>1. HasForms(t, <<a, b>>)
    BY <1>2, <1>10 DEF Formats
  <2>2. t[2] \in Lexeme /\ Form(t[2]) = a /\ t[3] \in Lexeme /\ Form(t[3]) = b
    BY <1>1, <2>1, TwoForms
  <2>3. IF op = "FCVT_W_S" THEN X(t[2]) \in Reg /\ F(t[3]) \in Reg
                           ELSE F(t[2]) \in Reg /\ X(t[3]) \in Reg
    BY <2>1, <2>2, OperandTyped
  <2>4. QED
    BY <1>10, <2>3 DEF Decode, Decoded, Shape, op
<1>11. CASE op \in {"NOP", "HALT"}
  BY <1>11 DEF Decode, Decoded, Shape, op
<1>12. QED
  BY <1>1, <1>3, <1>4, <1>5, <1>6, <1>7, <1>8, <1>9, <1>10, <1>11

-----------------------------------------------------------------------------
(* Types, component by component.                                          *)

QTag  == Tag \cup {NoTag}
Good  == {i \in Decoded : Shape(i)}
Instr == {i \in [op : Opcode, rd : Reg \cup {NoReg}, rs1 : Reg \cup {NoReg},
                 rs2 : Reg \cup {NoReg}, imm : Int, pc : Nat] : Shape(i)}

(* While parse_program runs. *)
AsmOK ==
  /\ raw \in Sources /\ line \in Nat \ {0} /\ wpc \in Nat
  /\ \A l \in DOMAIN labels : labels[l] \in Int
  /\ prog \in Seq(Good)

ProgT == program \in Seq(Good) /\ (phase = "parse" => AsmOK)

LEMMA AsmTyped == AsmOK /\ AsmNext => AsmOK'
<1> SUFFICES ASSUME AsmOK, AsmNext PROVE AsmOK'
  OBVIOUS
<1> USE DEF AsmOK, AtLine
<1>1. CASE DefineLabel
  BY <1>1 DEF DefineLabel
<1>2. CASE CountInstruction \/ EndOfLabels \/ EndOfFile \/ SkipLine
  BY <1>2 DEF CountInstruction, EndOfLabels, EndOfFile, SkipLine
<1>3. CASE DecodeInstruction
  <2>1. raw \in Seq(Seq(Lexeme)) /\ line \in DOMAIN raw
    BY <1>3, SourcesAssumption DEF DecodeInstruction
  <2>2. WellFormed(Tokens) /\ IsInstruction(Tokens)
    BY <1>3, <2>1, SourcesAssumption DEF DecodeInstruction, Tokens
  <2>3. Decode(Tokens, labels, wpc * 4) \in Good
    BY <2>2, DecodeTyped DEF Good
  <2>4. prog' \in Seq(Good)
    BY <1>3, <2>3, AppendProperties DEF DecodeInstruction
  <2>5. QED
    BY <1>3, <2>4 DEF DecodeInstruction
<1>4. QED
  BY <1>1, <1>2, <1>3 DEF AsmNext

LEMMA ProgInit == Init => ProgT
  BY DEF Init, AsmInit, ProgT, AsmOK, Good

LEMMA ProgStep == ProgT /\ [Next]_vars => ProgT'
<1> SUFFICES ASSUME ProgT, [Next]_vars PROVE ProgT'
  OBVIOUS
<1> USE DEF ProgT
<1>1. CASE Parse
  BY <1>1, AsmTyped DEF Parse
<1>2. CASE LoadProgram
  BY <1>2 DEF LoadProgram, Returned, IQ!load_program, AsmOK
<1>3. CASE NoInstructions
  BY <1>3 DEF NoInstructions
<1>4. CASE AnyOther \/ AnyWrite
  BY <1>4 DEF AnyWrite, AnyOther, Execute, StoresNotified, BroadcastEnds, Snoop,
              CommitNothing, Fetch, FetchStalled, DispatchEnds, NextCycle, Report,
              NotifyStore, BroadcastStation, BroadcastLoad
<1>5. CASE AnyCommit
  BY <1>5, CommitIs DEF Committing
<1>6. CASE AnyDispatch
  BY <1>6 DEF AnyDispatch, Dispatch, DispatchBranch, try_dispatch
<1>7. CASE UNCHANGED vars
  BY <1>7 DEF vars, asmVars, AsmOK
<1>8. QED
  BY <1>1, <1>2, <1>3, <1>4, <1>5, <1>6, <1>7, StepKinds DEF AnyParse

(* The fetch buffer. *)
IqT == iqPc \in Nat /\ iqBuffer \in Seq(Instr) /\ Len(iqBuffer) <= IqCapacity

LEMMA FunctionIsSeq ==
  ASSUME NEW S, NEW n \in Nat, NEW f \in [1 .. n -> S]
  PROVE  f \in Seq(S) /\ Len(f) = n
<1>1. f \in Seq(S)
  BY SeqDef
<1>2. DOMAIN f = 1 .. n /\ DOMAIN f = 1 .. Len(f) /\ Len(f) \in Nat
  BY <1>1, LenProperties
<1>3. Len(f) \in 1 .. n \/ Len(f) = 0
  BY <1>2
<1>4. n \in 1 .. Len(f) \/ n = 0
  BY <1>2
<1>5. QED
  BY <1>1, <1>2, <1>3, <1>4

LEMMA FetchTyped ==
  ASSUME ProgT, IqT, IQ!tick
  PROVE  IqT'
<1> DEFINE n == IQ!Fetched
           new == [k \in 1 .. n |-> IQ!Stamped(program, iqPc + k - 1)]
<1> USE Sizes DEF ProgT, IqT
<1>1. /\ n \in Nat /\ Len(iqBuffer) + n <= IqCapacity
      /\ \A k \in 1 .. n : iqPc + k - 1 \in 0 .. Len(program) - 1
  BY DEF IQ!Fetched, IQ!Min2
<1> HIDE DEF n
<1>2. \A p \in 0 .. Len(program) - 1 : IQ!Stamped(program, p) \in Instr
  <2> SUFFICES ASSUME NEW p \in 0 .. Len(program) - 1
               PROVE  IQ!Stamped(program, p) \in Instr
    OBVIOUS
  <2>1. program[p + 1] \in Decoded /\ Shape(program[p + 1])
    BY ElementOfSeq DEF Good
  <2>2. QED
    BY <2>1 DEF IQ!Stamped, Instr, Decoded, Shape
<1>3. new \in Seq(Instr) /\ Len(new) = n
  <2>1. new \in [1 .. n -> Instr]
    BY <1>1, <1>2
  <2>2. QED
    BY <1>1, <2>1, FunctionIsSeq
<1> HIDE DEF new
<1>4. iqBuffer' = iqBuffer \o new /\ iqPc' = iqPc + n
  BY DEF IQ!tick, new, n
<1>5. QED
  BY <1>1, <1>3, <1>4, ConcatProperties

LEMMA DispatchedTyped ==
  ASSUME IqT, IQ!can_dispatch
  PROVE  IQ!peek \in Instr /\ (IQ!dispatch => IqT')
<1>1. iqBuffer \in Seq(Instr) /\ iqBuffer # << >>
  BY DEF IqT, IQ!can_dispatch
<1>2. Head(iqBuffer) \in Instr /\ Tail(iqBuffer) \in Seq(Instr)
  BY <1>1, HeadTailProperties
<1>3. Len(Tail(iqBuffer)) = Len(iqBuffer) - 1 /\ Len(iqBuffer) \in Nat
  BY <1>1, HeadTailProperties, LenProperties
<1>4. QED
  BY <1>2, <1>3, Sizes DEF IqT, IQ!peek, IQ!dispatch

LEMMA SeekTyped ==
  ASSUME NEW n \in Nat, IQ!seek(n)
  PROVE  IqT'
<1>1. n \div 4 \in Nat
  BY DivSmaller
<1>2. QED
  BY <1>1, Sizes DEF IQ!seek, IqT

(* A nonempty set of numbers has a least one; a bounded one a greatest.    *)
LEMMA MinIn ==
  ASSUME NEW S \in SUBSET Nat, S # {}
  PROVE  Min(S) \in S /\ \A y \in S : Min(S) <= y
<1>1. \E x \in S : \A y \in S : ~ <<y, x>> \in OpToRel(<, Nat)
  BY NatLessThanWellFounded, WFMin, Zenon
<1>2. PICK x \in S : \A y \in S : ~ <<y, x>> \in OpToRel(<, Nat)
  BY <1>1
<1>3. \A y \in S : x <= y
  <2> SUFFICES ASSUME NEW y \in S, ~(x <= y) PROVE FALSE
    OBVIOUS
  <2>1. x \in Nat /\ y \in Nat /\ y < x
    OBVIOUS
  <2>2. <<y, x>> \in OpToRel(<, Nat)
    BY <2>1 DEF OpToRel
  <2>3. QED
    BY <1>2, <2>2
<1>4. QED
  BY <1>3 DEF Min

LEMMA MaxIn ==
  ASSUME NEW n \in Nat, NEW S \in SUBSET (0 .. n), S # {}
  PROVE  Max(S) \in S /\ \A y \in S : y <= Max(S)
<1> DEFINE T == {n - x : x \in S}
<1>1. T \in SUBSET Nat /\ T # {}
  <2>1. \A x \in S : n - x \in Nat
    OBVIOUS
  <2>2. QED
    BY <2>1
<1> HIDE DEF T
<1>2. Min(T) \in T /\ \A y \in T : Min(T) <= y
  BY <1>1, MinIn
<1>3. PICK x \in S : Min(T) = n - x
  BY <1>2 DEF T
<1>4. \A y \in S : n - y \in T
  BY DEF T
<1>5. \A y \in S : n - x <= n - y
  BY <1>2, <1>3, <1>4
<1>6. \A y \in S : y <= x
  BY <1>5
<1>7. QED
  BY <1>6 DEF Max

-----------------------------------------------------------------------------
(* The stations.                                                           *)
RsEntry ==
  [busy : BOOLEAN, done : BOOLEAN, op : Opcode, tag : QTag, imm : Int, pc : Nat,
   vj : Word, vk : Word, qj : QTag, qk : QTag, rem : Nat, result : Word]

RsT == DOMAIN rs = Station /\ \A s \in Station : rs[s] \in [RS!RSlot(s) -> RsEntry]

CdbT == cdb \in Seq([tag : Tag, value : Word])

Operand == [v : Word, q : QTag]

LEMMA NoTagIsNoTag == NoTag \in QTag /\ NoTag \notin Tag /\ 0 \in Word
  BY WordFacts, Sizes DEF QTag, Tag, ROB!Slot, NoTag

LEMMA FreeSlotIs ==
  ASSUME RsT, NEW s \in Station, ~RS!full(s)
  PROVE  RS!FreeSlot(s) \in RS!RSlot(s) /\ ~rs[s][RS!FreeSlot(s)].busy
<1> DEFINE S == {i \in RS!RSlot(s) : ~rs[s][i].busy}
<1>1. S \in SUBSET Nat /\ S # {}
  BY Sizes DEF RS!full, RS!RSlot
<1>2. Min(S) \in S
  BY <1>1, MinIn
<1>3. QED
  BY <1>2 DEF RS!FreeSlot, RS!Min, Min

LEMMA DoneSlotIs ==
  ASSUME RsT, NEW s \in Station, RS!has_result(s)
  PROVE  /\ RS!DoneSlot(s) \in RS!RSlot(s)
         /\ rs[s][RS!DoneSlot(s)].busy /\ rs[s][RS!DoneSlot(s)].done
<1> DEFINE S == {i \in RS!RSlot(s) : rs[s][i].busy /\ rs[s][i].done}
<1>1. S \in SUBSET Nat /\ S # {}
  BY Sizes DEF RS!has_result, RS!RSlot
<1>2. Min(S) \in S
  BY <1>1, MinIn
<1>3. QED
  BY <1>2 DEF RS!DoneSlot, RS!Min, Min

LEMMA FreeTyped == RS!FreeEntry \in RsEntry
  BY NoTagIsNoTag DEF RS!FreeEntry, RsEntry, Opcode

LEMMA RsIssueTyped ==
  ASSUME RsT, NEW s \in Station, NEW i \in Instr, NEW t \in Tag,
         NEW a \in Operand, NEW b \in Operand, RS!issue(s, i, t, a, b)
  PROVE  RsT'
<1>1. [RS!FreeEntry EXCEPT !.busy = TRUE, !.op = i.op, !.tag = t, !.imm = i.imm, !.pc = i.pc,
         !.vj = a.v, !.qj = a.q, !.vk = b.v, !.qk = b.q] \in RsEntry
  BY FreeTyped DEF RsEntry, Instr, Operand, QTag
<1>2. QED
  BY <1>1, FreeSlotIs DEF RsT, RS!issue

LEMMA PopTyped ==
  ASSUME RsT, NEW s \in Station, RS!pop_result(s)
  PROVE  RsT' /\ RS!Popped(s) \in RsEntry
  BY FreeTyped, DoneSlotIs DEF RsT, RS!pop_result, RS!Popped

(* The result a waiting entry takes from the bus. *)
LEMMA BusValueTyped ==
  ASSUME CdbT, NEW q, CDB!OnBus(q)
  PROVE  q \in Tag /\ CDB!BusValue(q) \in Word
<1> DEFINE S == {k \in DOMAIN cdb : cdb[k].tag = q}
<1>1. DOMAIN cdb = 1 .. Len(cdb) /\ Len(cdb) \in Nat
  BY DEF CdbT
<1>2. S \in SUBSET Nat /\ S # {}
  BY <1>1 DEF CDB!OnBus
<1>3. Min(S) \in S /\ \A y \in S : Min(S) <= y
  BY <1>2, MinIn
<1>4. PICK m \in DOMAIN cdb : cdb[m].tag = q /\ \A y \in S : m <= y
  BY <1>3
<1>5. \A j \in 1 .. m - 1 : cdb[j].tag # q
  BY <1>1, <1>4
<1>6. PICK f \in DOMAIN cdb : CDB!BusValue(q) = cdb[f].value /\ cdb[f].tag = q
  BY <1>4, <1>5 DEF CDB!BusValue
<1>7. cdb[f] \in [tag : Tag, value : Word]
  BY <1>1, <1>6, ElementOfSeq DEF CdbT
<1>8. QED
  BY <1>6, <1>7

(* Both snoop loops capture alike. *)
LEMMA SameBus ==
  \A e : RS!Bus!Captured(e) = CDB!Captured(e) /\ LSB!Bus!Captured(e) = CDB!Captured(e)
<1>1. \A q : (RS!Bus!OnBus(q) <=> CDB!OnBus(q)) /\ (LSB!Bus!OnBus(q) <=> CDB!OnBus(q))
  BY DEF RS!Bus!OnBus, LSB!Bus!OnBus, CDB!OnBus
<1>2. \A q : RS!Bus!BusValue(q) = CDB!BusValue(q) /\ LSB!Bus!BusValue(q) = CDB!BusValue(q)
  BY DEF RS!Bus!BusValue, LSB!Bus!BusValue, CDB!BusValue
<1>3. QED
  BY <1>1, <1>2, Zenon DEF RS!Bus!Captured, LSB!Bus!Captured, CDB!Captured

(* What a queue tag is after snooping. *)
Woken(q) == IF CDB!OnBus(q) THEN NoTag ELSE q

LEMMA CapturedRs ==
  ASSUME CdbT, NEW e \in RsEntry
  PROVE  /\ CDB!Captured(e) \in RsEntry
         /\ CDB!Captured(e).qj = Woken(e.qj) /\ CDB!Captured(e).qk = Woken(e.qk)
         /\ \A x \in {"busy", "done", "op", "tag", "imm", "pc", "rem", "result"} :
              CDB!Captured(e)[x] = e[x]
<1> DEFINE vj == IF CDB!OnBus(e.qj) THEN CDB!BusValue(e.qj) ELSE e.vj
           vk == IF CDB!OnBus(e.qk) THEN CDB!BusValue(e.qk) ELSE e.vk
<1>1. vj \in Word /\ vk \in Word
  BY BusValueTyped DEF RsEntry
<1>2. Woken(e.qj) \in QTag /\ Woken(e.qk) \in QTag
  BY NoTagIsNoTag DEF Woken, RsEntry
<1>3. CDB!Captured(e) = [e EXCEPT !.vj = vj, !.qj = Woken(e.qj), !.vk = vk, !.qk = Woken(e.qk)]
  BY DEF CDB!Captured, Woken, NoTag
<1> HIDE DEF vj, vk
<1>4. QED
  BY <1>1, <1>2, <1>3 DEF RsEntry

LEMMA LatencyTyped ==
  ASSUME NEW op \in Opcode
  PROVE  latency_of(op) \in Nat
<1>1. UnitOf(op) \in FuClass
  BY DEF UnitOf, FuClass, Opcode, IntRType, IntIType, Branches, Jumps, Loads, Stores,
         FpArith, FpCvt
<1>2. QED
  BY <1>1, ConfigAssumption DEF latency_of

(* What snoop does to each entry. *)
LEMMA RsSnoopEffect ==
  ASSUME RsT, CdbT, RS!snoop
  PROVE  /\ RsT'
         /\ \A s \in Station : \A i \in RS!RSlot(s) :
              LET e == rs[s][i]
                  f == rs'[s][i]
                  w == e.busy /\ ~e.done
              IN  /\ f.busy = e.busy /\ f.done = e.done /\ f.op = e.op /\ f.tag = e.tag
                  /\ f.rem = e.rem
                  /\ f.qj = IF w THEN Woken(e.qj) ELSE e.qj
                  /\ f.qk = IF w THEN Woken(e.qk) ELSE e.qk
<1>1. \A s \in Station : \A i \in RS!RSlot(s) :
        rs[s][i] \in RsEntry /\
        rs'[s][i] = IF rs[s][i].busy /\ ~rs[s][i].done THEN CDB!Captured(rs[s][i]) ELSE rs[s][i]
  BY SameBus DEF RsT, RS!snoop
<1>2. DOMAIN rs' = Station /\ \A s \in Station : DOMAIN rs'[s] = RS!RSlot(s)
                                  /\ rs'[s] = [i \in RS!RSlot(s) |-> rs'[s][i]]
  BY DEF RS!snoop
<1>3. \A s \in Station : \A i \in RS!RSlot(s) : rs'[s][i] \in RsEntry
  BY <1>1, CapturedRs
<1>4. RsT'
  BY <1>2, <1>3 DEF RsT
<1>5. QED
  <2> SUFFICES ASSUME NEW s \in Station, NEW i \in RS!RSlot(s)
               PROVE  LET e == rs[s][i]
                          f == rs'[s][i]
                          w == e.busy /\ ~e.done
                      IN  /\ f.busy = e.busy /\ f.done = e.done /\ f.op = e.op /\ f.tag = e.tag
                          /\ f.rem = e.rem
                          /\ f.qj = IF w THEN Woken(e.qj) ELSE e.qj
                          /\ f.qk = IF w THEN Woken(e.qk) ELSE e.qk
    BY <1>4
  <2>1. CASE rs[s][i].busy /\ ~rs[s][i].done
    <3>1. rs[s][i] \in RsEntry /\ rs'[s][i] = CDB!Captured(rs[s][i])
      BY <1>1, <2>1
    <3>2. /\ rs'[s][i].qj = Woken(rs[s][i].qj) /\ rs'[s][i].qk = Woken(rs[s][i].qk)
          /\ \A x \in {"busy", "done", "op", "tag", "imm", "pc", "rem", "result"} :
               rs'[s][i][x] = rs[s][i][x]
      BY <3>1, CapturedRs
    <3>3. QED
      BY <2>1, <3>2
  <2>2. CASE ~(rs[s][i].busy /\ ~rs[s][i].done)
    BY <1>1, <2>2
  <2>3. QED
    BY <2>1, <2>2

(* What one cycle may do to an entry: only an entry that is executing, or  *)
(* whose operands are there, moves on.                                     *)
Advanced(e, f) ==
  /\ f \in RsEntry
  /\ f.busy = e.busy /\ f.op = e.op /\ f.tag = e.tag /\ f.qj = e.qj /\ f.qk = e.qk
  /\ ~e.busy \/ e.done => f = e
  /\ f.done /\ ~e.done => e.rem # 0 \/ (e.qj = NoTag /\ e.qk = NoTag)
  /\ f.rem # 0 => e.rem # 0 \/ (e.qj = NoTag /\ e.qk = NoTag)

LEMMA FinishTyped ==
  ASSUME NEW e \in RsEntry
  PROVE  /\ RS!Finish(e) \in RsEntry
         /\ RS!Finish(e).done = TRUE /\ RS!Finish(e).rem = 0
         /\ \A x \in {"busy", "op", "tag", "qj", "qk"} : RS!Finish(e)[x] = e[x]
<1>1. execute_op(e.op, e.vj, e.vk, e.imm, e.pc) \in Word
  BY ExecuteIsWord DEF RsEntry
<1>2. QED
  BY <1>1 DEF RS!Finish, RS!Result, RsEntry

LEMMA CountDownEffect ==
  ASSUME NEW e \in RsEntry
  PROVE  /\ Advanced(e, RS!CountDown(e))
         /\ RS!Executing(e) <=> RS!Executing(RS!CountDown(e)) \/ (RS!Executing(e) /\ e.rem = 1)
         /\ RS!Executing(RS!CountDown(e)) => RS!Executing(e)
         /\ RS!Ready(RS!CountDown(e)) <=> RS!Ready(e)
<1>1. CASE ~RS!Executing(e)
  BY <1>1 DEF RS!CountDown, Advanced
<1>2. CASE RS!Executing(e) /\ e.rem = 1
  <2>1. RS!CountDown(e) = RS!Finish(e)
    BY <1>2 DEF RS!CountDown
  <2>2. RS!Finish(e).busy = e.busy /\ RS!Finish(e).op = e.op /\ RS!Finish(e).tag = e.tag
        /\ RS!Finish(e).qj = e.qj /\ RS!Finish(e).qk = e.qk
    BY FinishTyped
  <2>3. QED
    BY <1>2, <2>1, <2>2, FinishTyped DEF Advanced, RS!Executing, RS!Ready
<1>3. CASE RS!Executing(e) /\ e.rem # 1
  <2>1. RS!CountDown(e) = [e EXCEPT !.rem = e.rem - 1] /\ e.rem - 1 \in Nat \ {0}
    BY <1>3 DEF RS!CountDown, RS!Executing, RsEntry
  <2>2. QED
    BY <1>3, <2>1 DEF Advanced, RS!Executing, RS!Ready, RsEntry
<1>4. QED
  BY <1>1, <1>2, <1>3

LEMMA StartEffect ==
  ASSUME NEW e \in RsEntry, RS!Ready(e)
  PROVE  /\ Advanced(e, RS!Start(e))
         /\ RS!Executing(RS!Start(e)) <=> latency_of(e.op) > 1
<1>1. latency_of(e.op) \in Nat
  BY LatencyTyped DEF RsEntry
<1>2. CASE latency_of(e.op) <= 1
  <2>1. RS!Finish(e).busy = e.busy /\ RS!Finish(e).op = e.op /\ RS!Finish(e).tag = e.tag
        /\ RS!Finish(e).qj = e.qj /\ RS!Finish(e).qk = e.qk
    BY FinishTyped
  <2>2. RS!Start(e) = RS!Finish(e) /\ ~(latency_of(e.op) > 1)
    BY <1>1, <1>2 DEF RS!Start
  <2>3. Advanced(e, RS!Finish(e)) /\ ~RS!Executing(RS!Finish(e))
    BY <2>1, FinishTyped DEF Advanced, RS!Ready, RS!Executing
  <2>4. QED
    BY <2>2, <2>3
<1>3. CASE latency_of(e.op) > 1
  <2>1. RS!Start(e) = [e EXCEPT !.rem = latency_of(e.op) - 1] /\ latency_of(e.op) - 1 \in Nat \ {0}
    BY <1>1, <1>3 DEF RS!Start
  <2> DEFINE f == RS!Start(e)
  <2>2. /\ f \in RsEntry /\ f.rem = latency_of(e.op) - 1
        /\ f.busy = e.busy /\ f.done = e.done /\ f.op = e.op /\ f.tag = e.tag
        /\ f.qj = e.qj /\ f.qk = e.qk
    BY <2>1 DEF RsEntry
  <2>3. QED
    BY <1>1, <1>3, <2>1, <2>2 DEF Advanced, RS!Ready, RS!Executing
<1>4. QED
  BY <1>1, <1>2, <1>3

(* tick, entry by entry: counted down, and perhaps started. *)
LEMMA RsTickEffect ==
  ASSUME RsT, RS!tick
  PROVE  /\ RsT'
         /\ \A s \in Station : \A i \in RS!RSlot(s) : Advanced(rs[s][i], rs'[s][i])
<1> DEFINE counted(s) == [j \in DOMAIN rs[s] |-> RS!CountDown(rs[s][j])]
<1>1. \A s \in Station : DOMAIN rs[s] = RS!RSlot(s) /\ \A i \in RS!RSlot(s) : rs[s][i] \in RsEntry
  BY DEF RsT
<1>2. /\ DOMAIN rs' = Station
      /\ \A s \in Station :
           rs'[s] = [i \in RS!RSlot(s) |->
                       IF RS!Starts(counted(s), i) THEN RS!Start(counted(s)[i]) ELSE counted(s)[i]]
  BY <1>1 DEF RS!tick, RS!Ticked
<1>3. ASSUME NEW s \in Station, NEW i \in RS!RSlot(s)
      PROVE  Advanced(rs[s][i], rs'[s][i])
  <2> DEFINE e == rs[s][i]
             c == RS!CountDown(e)
  <2>1. e \in RsEntry /\ Advanced(e, c) /\ c \in RsEntry /\ counted(s)[i] = c
    BY <1>1, CountDownEffect DEF Advanced
  <2>2. rs'[s][i] = c \/ (RS!Ready(c) /\ rs'[s][i] = RS!Start(c))
    BY <1>2, <2>1 DEF RS!Starts
  <2> HIDE DEF c
  <2>3. CASE RS!Ready(c) /\ rs'[s][i] = RS!Start(c)
    <3>1. Advanced(c, RS!Start(c))
      BY <2>1, <2>3, StartEffect
    <3>2. RS!Ready(e)
      BY <2>1, <2>3, CountDownEffect DEF c
    <3>3. QED
      BY <2>1, <2>3, <3>1, <3>2 DEF Advanced, RS!Ready
  <2>4. QED
    BY <2>1, <2>2, <2>3
<1>4. \A s \in Station : \A i \in RS!RSlot(s) : rs'[s][i] \in RsEntry
  BY <1>3 DEF Advanced
<1>5. \A s \in Station : rs'[s] = [i \in RS!RSlot(s) |-> rs'[s][i]]
  BY <1>2
<1>6. RsT'
  BY <1>2, <1>4, <1>5 DEF RsT
<1>7. QED
  BY <1>3, <1>6

-----------------------------------------------------------------------------
(* The load/store buffer.                                                  *)
LsbEntry ==
  [state : {"IDLE", "WAITING", "ADDR_READY", "EXECUTING", "DONE"}, op : Opcode,
   tag : QTag, vj : Word, vk : Word, qj : QTag, qk : QTag, imm : Int, addr : Word,
   rem : Nat, result : Word]

LsbShape ==
  /\ lsbEntries \in [LSB!LSlot -> LsbEntry]
  /\ lsbHead \in LSB!LSlot /\ lsbTail \in LSB!LSlot /\ lsbCount \in 0 .. LsbSize
  /\ lsbTail = IF lsbHead + lsbCount < LsbSize THEN lsbHead + lsbCount
                                               ELSE lsbHead + lsbCount - LsbSize

MemT == mem \in [0 .. MemWords - 1 -> Word]

(* Where a slot is in the queue. *)
Pos(i) == IF i >= lsbHead THEN i - lsbHead ELSE i - lsbHead + LsbSize

LEMMA LsbWraps ==
  ASSUME NEW h \in LSB!LSlot, NEW k \in 0 .. LsbSize
  PROVE  (h + k) % LsbSize = IF h + k < LsbSize THEN h + k ELSE h + k - LsbSize
<1> USE Sizes DEF LSB!LSlot
<1>1. CASE h + k < LsbSize
  BY <1>1
<1>2. CASE ~(h + k < LsbSize)
  <2>1. h + k - LsbSize \in 0 .. LsbSize - 1
    BY <1>2
  <2>2. (h + k) % LsbSize = h + k - LsbSize
    BY <2>1
  <2>3. QED
    BY <1>2, <2>1, <2>2
<1>3. QED
  BY <1>1, <1>2

(* Positions and slots correspond. *)
LEMMA PhysPos ==
  ASSUME LsbShape
  PROVE  /\ \A k \in 0 .. LsbSize - 1 : LSB!phys(k) \in LSB!LSlot /\ Pos(LSB!phys(k)) = k
         /\ \A i \in LSB!LSlot : Pos(i) \in 0 .. LsbSize - 1 /\ LSB!phys(Pos(i)) = i
         /\ LSB!phys(0) = lsbHead
         /\ lsbCount < LsbSize => LSB!phys(lsbCount) = lsbTail
<1> USE Sizes DEF LsbShape
<1>1. \A k \in 0 .. LsbSize - 1 :
        LSB!phys(k) = IF lsbHead + k < LsbSize THEN lsbHead + k ELSE lsbHead + k - LsbSize
  BY LsbWraps DEF LSB!phys, LSB!LSlot
<1>2. \A k \in 0 .. LsbSize - 1 : LSB!phys(k) \in LSB!LSlot /\ Pos(LSB!phys(k)) = k
  BY <1>1 DEF Pos, LSB!LSlot
<1>3. ASSUME NEW i \in LSB!LSlot
      PROVE  Pos(i) \in 0 .. LsbSize - 1 /\ LSB!phys(Pos(i)) = i
  <2>1. Pos(i) \in 0 .. LsbSize - 1
    BY DEF Pos, LSB!LSlot
  <2>2. QED
    BY <1>1, <2>1 DEF Pos, LSB!LSlot
<1>4. LSB!phys(0) = lsbHead
  BY <1>1 DEF LSB!LSlot
<1>5. lsbCount < LsbSize => LSB!phys(lsbCount) = lsbTail
  BY <1>1
<1>6. QED
  BY <1>2, <1>3, <1>4, <1>5

LEMMA AtTyped ==
  ASSUME LsbShape, NEW k \in LSB!Position
  PROVE  LSB!At(k) \in LsbEntry /\ k \in 0 .. LsbSize - 1
<1>1. k \in 0 .. LsbSize - 1
  BY Sizes DEF LsbShape, LSB!Position
<1>2. LSB!phys(k) \in LSB!LSlot
  BY <1>1, PhysPos
<1>3. QED
  BY <1>1, <1>2 DEF LsbShape, LSB!At

(* snoop and tick rewrite the entries in use, in place. *)
LEMMA RewrittenAt ==
  ASSUME LsbShape, NEW f, lsbEntries' = LSB!Rewritten(f), UNCHANGED <<lsbHead, lsbTail, lsbCount>>,
         \A k \in LSB!Position : f[k] \in LsbEntry
  PROVE  LsbShape' /\ \A k \in LSB!Position : LSB!At(k)' = f[k]
<1> USE Sizes DEF LsbShape
<1>1. /\ DOMAIN lsbEntries' = LSB!LSlot
      /\ lsbEntries' = [i \in LSB!LSlot |-> IF Pos(i) < lsbCount THEN f[Pos(i)] ELSE lsbEntries[i]]
  BY DEF LSB!Rewritten, Pos
<1>2. \A i \in LSB!LSlot : Pos(i) \in 0 .. LsbSize - 1
  BY PhysPos
<1>3. \A i \in LSB!LSlot : lsbEntries'[i] \in LsbEntry
  BY <1>1, <1>2 DEF LSB!Position
<1>4. LsbShape'
  BY <1>1, <1>3 DEF LSB!LSlot
<1>5. \A k \in LSB!Position : LSB!phys(k)' = LSB!phys(k) /\ LSB!phys(k) \in LSB!LSlot
                                /\ Pos(LSB!phys(k)) = k
  BY PhysPos DEF LSB!phys, LSB!Position
<1>6. \A k \in LSB!Position : LSB!At(k)' = f[k]
  BY <1>1, <1>5 DEF LSB!At, LSB!Position
<1>7. QED
  BY <1>4, <1>6

LEMMA LsbIdleTyped == LSB!IdleEntry \in LsbEntry
  BY NoTagIsNoTag DEF LSB!IdleEntry, LsbEntry, Opcode

(* What issue does: the new entry comes last. *)
LEMMA LsbIssueEffect ==
  ASSUME LsbShape, NEW i \in Instr, NEW t \in Tag, NEW a \in Operand, NEW b \in Operand,
         LSB!issue(i, t, a, b)
  PROVE  /\ LsbShape' /\ lsbCount' = lsbCount + 1 /\ lsbCount \in 0 .. LsbSize - 1
         /\ \A k \in LSB!Position : LSB!At(k)' = LSB!At(k)
         /\ \A k \in {lsbCount} :
              /\ LSB!At(k)'.state = "WAITING" /\ LSB!At(k)'.op = i.op /\ LSB!At(k)'.tag = t
              /\ LSB!At(k)'.qj = a.q /\ LSB!At(k)'.qk = b.q
<1> DEFINE e == [LSB!IdleEntry EXCEPT !.state = "WAITING", !.op = i.op, !.tag = t,
                   !.imm = i.imm, !.vj = a.v, !.qj = a.q, !.vk = b.v, !.qk = b.q]
<1>1. /\ e \in LsbEntry /\ e.state = "WAITING" /\ e.op = i.op /\ e.tag = t
      /\ e.qj = a.q /\ e.qk = b.q
  BY LsbIdleTyped DEF LsbEntry, Instr, Operand, QTag
<1>2. lsbEntries' = [lsbEntries EXCEPT ![lsbTail] = e] /\ lsbTail' = (lsbTail + 1) % LsbSize
      /\ lsbCount' = lsbCount + 1 /\ lsbHead' = lsbHead /\ lsbCount \in 0 .. LsbSize - 1
  BY Sizes DEF LSB!issue, LSB!full, LsbShape
<1> HIDE DEF e
<1>3. lsbTail' = IF lsbTail + 1 < LsbSize THEN lsbTail + 1 ELSE lsbTail + 1 - LsbSize
  <2>1. lsbTail \in LSB!LSlot /\ 1 \in 0 .. LsbSize
    BY Sizes DEF LsbShape
  <2>2. QED
    BY <1>2, <2>1, LsbWraps
<1>4. LsbShape'
  <2>1. lsbEntries' \in [LSB!LSlot -> LsbEntry]
    BY <1>1, <1>2 DEF LsbShape
  <2>2. QED
    BY <1>2, <1>3, <2>1, Sizes DEF LsbShape, LSB!LSlot
<1>5. \A k \in 0 .. LsbSize - 1 : LSB!phys(k)' = LSB!phys(k)
  BY <1>2 DEF LSB!phys
<1>6. LSB!phys(lsbCount) = lsbTail
  BY <1>2, PhysPos, Sizes DEF LsbShape
<1>7. ASSUME NEW k \in LSB!Position
      PROVE  LSB!At(k)' = LSB!At(k)
  <2>1. k \in 0 .. LsbSize - 1 /\ k # lsbCount
    BY <1>2, Sizes DEF LSB!Position
  <2>2. LSB!phys(k) # lsbTail /\ LSB!phys(k) \in LSB!LSlot
    BY <1>2, <1>6, <2>1, PhysPos
  <2>3. QED
    BY <1>2, <1>5, <2>1, <2>2 DEF LSB!At, LsbShape
<1>8. \A k \in {lsbCount} : LSB!At(k)' = e
  BY <1>2, <1>5, <1>6 DEF LSB!At, LsbShape
<1>9. QED
  BY <1>1, <1>2, <1>4, <1>7, <1>8

(* What pop does: everybody moves up one place. *)
LEMMA LsbPopEffect ==
  ASSUME LsbShape, ~LSB!empty, LSB!Pop
  PROVE  /\ LsbShape' /\ lsbCount' = lsbCount - 1 /\ lsbCount \in 1 .. LsbSize
         /\ LSB!At(0) = lsbEntries[lsbHead]
         /\ \A k \in 0 .. lsbCount - 2 : LSB!At(k)' = LSB!At(k + 1)
<1>1. /\ lsbEntries' = [lsbEntries EXCEPT ![lsbHead] = LSB!IdleEntry]
      /\ lsbHead' = (lsbHead + 1) % LsbSize
      /\ lsbCount' = lsbCount - 1 /\ lsbTail' = lsbTail /\ lsbCount \in 1 .. LsbSize
  BY Sizes DEF LSB!Pop, LSB!empty, LsbShape
<1>2. lsbHead' = IF lsbHead + 1 < LsbSize THEN lsbHead + 1 ELSE lsbHead + 1 - LsbSize
  <2>1. lsbHead \in LSB!LSlot /\ 1 \in 0 .. LsbSize
    BY Sizes DEF LsbShape
  <2>2. QED
    BY <1>1, <2>1, LsbWraps
<1>3. LsbShape'
  <2>1. lsbEntries' \in [LSB!LSlot -> LsbEntry]
    BY <1>1, LsbIdleTyped DEF LsbShape
  <2>2. QED
    BY <1>1, <1>2, <2>1, Sizes DEF LsbShape, LSB!LSlot
<1>4. ASSUME NEW k \in 0 .. lsbCount - 2
      PROVE  LSB!At(k)' = LSB!At(k + 1)
  <2>1. k \in 0 .. LsbSize - 1 /\ k + 1 \in 0 .. LsbSize - 1 /\ k + 1 # 0
    BY <1>1, Sizes
  <2>2. LSB!phys(k + 1) # lsbHead /\ LSB!phys(k + 1) \in LSB!LSlot
    <3>1. Pos(lsbHead) = 0
      BY DEF LsbShape, Pos, LSB!LSlot
    <3>2. QED
      BY <2>1, <3>1, PhysPos
  <2>3. LSB!phys(k)' = LSB!phys(k + 1)
    <3>1. /\ LSB!phys(k)' = (lsbHead' + k) % LsbSize
          /\ LSB!phys(k + 1) = (lsbHead + (k + 1)) % LsbSize
      BY DEF LSB!phys
    <3>0. k \in 0 .. LsbSize /\ k + 1 \in 0 .. LsbSize
      BY <2>1, Sizes
    <3>2. (lsbHead + (k + 1)) % LsbSize =
            IF lsbHead + (k + 1) < LsbSize THEN lsbHead + (k + 1) ELSE lsbHead + (k + 1) - LsbSize
      BY <3>0, LsbWraps DEF LsbShape
    <3>3. lsbHead' \in LSB!LSlot
      BY <1>3 DEF LsbShape
    <3>4. (lsbHead' + k) % LsbSize =
            IF lsbHead' + k < LsbSize THEN lsbHead' + k ELSE lsbHead' + k - LsbSize
      BY <3>0, <3>3, LsbWraps
    <3>5. QED
      BY <1>2, <2>1, <3>1, <3>2, <3>4, Sizes DEF LsbShape, LSB!LSlot
  <2>4. QED
    BY <1>1, <2>2, <2>3 DEF LSB!At, LsbShape
<1>5. LSB!At(0) = lsbEntries[lsbHead]
  BY PhysPos DEF LSB!At
<1>6. QED
  BY <1>1, <1>3, <1>4, <1>5

LEMMA CapturedLsb ==
  ASSUME CdbT, NEW e \in LsbEntry
  PROVE  /\ CDB!Captured(e) \in LsbEntry
         /\ CDB!Captured(e).qj = Woken(e.qj) /\ CDB!Captured(e).qk = Woken(e.qk)
         /\ CDB!Captured(e).state = e.state /\ CDB!Captured(e).op = e.op
         /\ CDB!Captured(e).tag = e.tag /\ CDB!Captured(e).rem = e.rem
<1> DEFINE vj == IF CDB!OnBus(e.qj) THEN CDB!BusValue(e.qj) ELSE e.vj
           vk == IF CDB!OnBus(e.qk) THEN CDB!BusValue(e.qk) ELSE e.vk
<1>1. vj \in Word /\ vk \in Word
  BY BusValueTyped DEF LsbEntry
<1>2. Woken(e.qj) \in QTag /\ Woken(e.qk) \in QTag
  BY NoTagIsNoTag DEF Woken, LsbEntry
<1>3. CDB!Captured(e) = [e EXCEPT !.vj = vj, !.qj = Woken(e.qj), !.vk = vk, !.qk = Woken(e.qk)]
  BY DEF CDB!Captured, Woken, NoTag
<1> HIDE DEF vj, vk
<1>4. QED
  BY <1>1, <1>2, <1>3 DEF LsbEntry

(* What snoop does to the entry at each position. *)
LEMMA LsbSnoopEffect ==
  ASSUME LsbShape, CdbT, LSB!snoop
  PROVE  /\ LsbShape' /\ lsbCount' = lsbCount
         /\ \A k \in LSB!Position :
              LSB!At(k)' = IF LSB!At(k).state \in {"IDLE", "DONE"} THEN LSB!At(k)
                                                                  ELSE CDB!Captured(LSB!At(k))
<1> DEFINE f == [k \in LSB!Position |->
                   IF LSB!At(k).state \in {"IDLE", "DONE"} THEN LSB!At(k)
                                                          ELSE CDB!Captured(LSB!At(k))]
<1>1. lsbEntries' = LSB!Rewritten(f) /\ UNCHANGED <<lsbHead, lsbTail, lsbCount>>
  BY SameBus DEF LSB!snoop
<1>2. \A k \in LSB!Position : f[k] \in LsbEntry
  BY AtTyped, CapturedLsb
<1> HIDE DEF f
<1>3. LsbShape' /\ \A k \in LSB!Position : LSB!At(k)' = f[k]
  BY <1>1, <1>2, RewrittenAt
<1>4. QED
  BY <1>1, <1>3 DEF f

(* What one cycle may do to a memory operation: it keeps its identity, and *)
(* moves on only when the operand it needs is there.                       *)
LsbAdvanced(e, f) ==
  /\ f \in LsbEntry
  /\ f.op = e.op /\ f.tag = e.tag /\ f.qj = e.qj /\ f.qk = e.qk
  /\ f.state = "IDLE" <=> e.state = "IDLE"
  /\ e.state = "DONE" => f = e
  /\ f.state # "WAITING" => e.state # "WAITING" \/ e.qj = NoTag
  /\ f.state = "DONE" /\ is_store(e.op) => e.state = "DONE" \/ e.qk = NoTag

(* An executing load still has a cycle to go. *)
Counting(e) == e.state = "EXECUTING" => e.rem # 0

LEMMA AddressedEffect ==
  ASSUME NEW e \in LsbEntry, Counting(e)
  PROVE  LsbAdvanced(e, LSB!Addressed(e)) /\ Counting(LSB!Addressed(e))
<1> DEFINE a == IF e.state = "WAITING" /\ e.qj = NoTag
                  THEN [e EXCEPT !.addr = Wrap(e.vj + e.imm), !.state = "ADDR_READY"] ELSE e
<1>1. Wrap(e.vj + e.imm) \in Word
  <2>1. e.vj + e.imm \in Int
    BY WordFacts DEF LsbEntry
  <2>2. QED
    BY <2>1, WordFacts
<1>2. LsbAdvanced(e, a) /\ Counting(a) /\ (a.state = "DONE" => e.state = "DONE")
  <2>1. CASE e.state = "WAITING" /\ e.qj = NoTag
    BY <1>1, <2>1 DEF LsbAdvanced, Counting, LsbEntry
  <2>2. CASE ~(e.state = "WAITING" /\ e.qj = NoTag)
    BY <2>2 DEF LsbAdvanced, Counting
  <2>3. QED
    BY <2>1, <2>2
<1>3. LSB!Addressed(e) = IF a.state = "ADDR_READY" /\ is_store(a.op) /\ a.qk = NoTag
                           THEN [a EXCEPT !.state = "DONE"] ELSE a
  BY DEF LSB!Addressed
<1> HIDE DEF a
<1>4. CASE a.state = "ADDR_READY" /\ is_store(a.op) /\ a.qk = NoTag
  <2> DEFINE d == [a EXCEPT !.state = "DONE"]
  <2>1. /\ d \in LsbEntry /\ d.op = a.op /\ d.tag = a.tag /\ d.qj = a.qj /\ d.qk = a.qk
        /\ d.state = "DONE"
    BY <1>2 DEF LsbAdvanced, LsbEntry
  <2> HIDE DEF d
  <2>2. LSB!Addressed(e) = d
    BY <1>3, <1>4 DEF d
  <2>3. QED
    BY <1>2, <1>4, <2>1, <2>2 DEF LsbAdvanced, Counting
<1>5. CASE ~(a.state = "ADDR_READY" /\ is_store(a.op) /\ a.qk = NoTag)
  BY <1>2, <1>3, <1>5
<1>6. QED
  BY <1>4, <1>5

LEMMA ReadTyped ==
  ASSUME MemT, NEW addr \in Word
  PROVE  LSB!ReadMem(addr) \in Word
<1>1. addr \div 4 \in Nat
  BY WordFacts, DivSmaller
<1>2. MemWords \in Nat
  BY SizesAssumption
<1>3. QED
  BY <1>1, <1>2, WordFacts DEF MemT, LSB!ReadMem, LSB!WordIndex

LEMMA LoadedTyped ==
  ASSUME MemT, NEW e \in LsbEntry
  PROVE  /\ LSB!Loaded(e) \in LsbEntry /\ LSB!Loaded(e).state = "DONE"
         /\ LSB!Loaded(e).op = e.op /\ LSB!Loaded(e).tag = e.tag
         /\ LSB!Loaded(e).qj = e.qj /\ LSB!Loaded(e).qk = e.qk
<1>1. LSB!ReadMem(e.addr) \in Word
  BY ReadTyped DEF LsbEntry
<1>2. QED
  BY <1>1 DEF LSB!Loaded, LsbEntry

(* The store a load forwards from is an older one. *)
LEMMA ForwardsFrom ==
  ASSUME NEW n \in Nat, NEW k \in 0 .. n - 1, NEW old \in [0 .. n - 1 -> LsbEntry],
         LSB!Aliasing(k, old) # {}
  PROVE  LSB!Max(LSB!Aliasing(k, old)) \in LSB!Aliasing(k, old)
<1> DEFINE S == LSB!Aliasing(k, old)
<1>1. S \in SUBSET (0 .. k) /\ k \in Nat
  BY DEF LSB!Aliasing, LSB!OlderStores
<1> HIDE DEF S
<1>2. S # {}
  BY DEF S
<1>3. Max(S) \in S
  BY <1>1, <1>2, MaxIn
<1>4. QED
  BY <1>3 DEF S, Max, LSB!Max

LEMMA ExecuteLoadEffect ==
  ASSUME MemT, NEW n \in Nat, NEW k \in 0 .. n - 1, NEW old \in [0 .. n - 1 -> LsbEntry],
         Counting(old[k])
  PROVE  /\ LsbAdvanced(old[k], LSB!ExecuteLoad(k, old)) /\ Counting(LSB!ExecuteLoad(k, old))
         /\ is_store(old[k].op) => LSB!ExecuteLoad(k, old) = old[k]
<1> DEFINE e == old[k]
           x == LSB!ExecuteLoad(k, old)
<1>1. e \in LsbEntry /\ e.op \in Opcode
  BY DEF LsbEntry
<1>2. latency_of(e.op) \in Nat
  BY <1>1, LatencyTyped
<1>3. CASE e.state # "ADDR_READY" \/ ~is_load(e.op) \/ LSB!Blocked(k, old)
  <2>1. x = e
    BY <1>3 DEF LSB!ExecuteLoad
  <2>2. QED
    BY <1>1, <2>1 DEF LsbAdvanced
<1>4. CASE ~(e.state # "ADDR_READY" \/ ~is_load(e.op) \/ LSB!Blocked(k, old))
  <2>1. e.state = "ADDR_READY" /\ ~is_store(e.op)
    BY <1>4 DEF is_load, is_store, Loads, Stores
  <2>2. CASE LSB!Aliasing(k, old) # {}
    <3> DEFINE v == old[LSB!Max(LSB!Aliasing(k, old))].vk
    <3>1. LSB!Max(LSB!Aliasing(k, old)) \in 0 .. n - 1
      BY <2>2, ForwardsFrom DEF LSB!Aliasing, LSB!OlderStores
    <3>2. v \in Word
      BY <3>1 DEF LsbEntry
    <3>3. x = [e EXCEPT !.result = v, !.state = "DONE"]
      BY <1>4, <2>2 DEF LSB!ExecuteLoad
    <3> HIDE DEF v
    <3>4. /\ x \in LsbEntry /\ x.op = e.op /\ x.tag = e.tag /\ x.qj = e.qj /\ x.qk = e.qk
          /\ x.state = "DONE"
      BY <1>1, <3>2, <3>3 DEF LsbEntry
    <3>5. QED
      BY <2>1, <3>4 DEF LsbAdvanced, Counting
  <2>3. CASE LSB!Aliasing(k, old) = {} /\ latency_of(e.op) <= 1
    <3>1. x = LSB!Loaded(e)
      BY <1>4, <2>3 DEF LSB!ExecuteLoad
    <3>2. QED
      BY <1>1, <2>1, <3>1, LoadedTyped DEF LsbAdvanced, Counting
  <2>4. CASE LSB!Aliasing(k, old) = {} /\ ~(latency_of(e.op) <= 1)
    <3> DEFINE r == latency_of(e.op) - 1
    <3>1. x = [e EXCEPT !.rem = r, !.state = "EXECUTING"] /\ r \in Nat \ {0}
      BY <1>2, <1>4, <2>4 DEF LSB!ExecuteLoad
    <3> HIDE DEF r
    <3>2. /\ x \in LsbEntry /\ x.op = e.op /\ x.tag = e.tag /\ x.qj = e.qj /\ x.qk = e.qk
          /\ x.state = "EXECUTING" /\ x.rem # 0
      BY <1>1, <3>1 DEF LsbEntry
    <3>3. QED
      BY <2>1, <3>2 DEF LsbAdvanced, Counting
  <2>5. QED
    BY <2>2, <2>3, <2>4
<1>5. QED
  BY <1>3, <1>4

LEMMA LsbCountDownEffect ==
  ASSUME MemT, NEW e \in LsbEntry, Counting(e)
  PROVE  /\ LSB!CountDown(e) \in LsbEntry /\ Counting(LSB!CountDown(e))
         /\ LSB!CountDown(e).op = e.op /\ LSB!CountDown(e).tag = e.tag
         /\ LSB!CountDown(e).qj = e.qj /\ LSB!CountDown(e).qk = e.qk
         /\ e.state # "EXECUTING" => LSB!CountDown(e) = e
         /\ e.state = "EXECUTING" => LSB!CountDown(e).state \in {"EXECUTING", "DONE"}
<1>1. CASE e.state # "EXECUTING"
  BY <1>1 DEF LSB!CountDown
<1>2. CASE e.state = "EXECUTING" /\ e.rem = 1
  <2>1. LSB!CountDown(e) = LSB!Loaded(e)
    BY <1>2 DEF LSB!CountDown
  <2>2. QED
    BY <1>2, <2>1, LoadedTyped DEF Counting
<1>3. CASE e.state = "EXECUTING" /\ e.rem # 1
  <2>1. LSB!CountDown(e) = [e EXCEPT !.rem = e.rem - 1] /\ e.rem - 1 \in Nat \ {0}
    BY <1>3 DEF LSB!CountDown, Counting, LsbEntry
  <2>2. QED
    BY <1>3, <2>1 DEF LsbEntry, Counting
<1>4. QED
  BY <1>1, <1>2, <1>3

(* Only loads execute. *)
OnlyLoads(e) == e.state = "EXECUTING" => ~is_store(e.op)

(* tick, position by position. *)
LEMMA LsbTickEffect ==
  ASSUME MemT, LsbShape, LSB!tick,
         \A k \in LSB!Position : Counting(LSB!At(k)) /\ OnlyLoads(LSB!At(k))
  PROVE  /\ LsbShape' /\ lsbCount' = lsbCount
         /\ \A k \in LSB!Position : /\ LsbAdvanced(LSB!At(k), LSB!At(k)')
                                    /\ Counting(LSB!At(k)') /\ OnlyLoads(LSB!At(k)')
<1> DEFINE old == [j \in LSB!Position |-> LSB!Addressed(LSB!At(j))]
           f   == [k \in LSB!Position |-> LSB!CountDown(LSB!ExecuteLoad(k, old))]
<1>1. lsbEntries' = LSB!Rewritten(f) /\ UNCHANGED <<lsbHead, lsbTail, lsbCount>>
  BY DEF LSB!tick
<1>2. lsbCount \in Nat /\ LSB!Position = 0 .. lsbCount - 1
  BY Sizes DEF LsbShape, LSB!Position
<1>3. ASSUME NEW k \in LSB!Position
      PROVE  /\ LsbAdvanced(LSB!At(k), old[k]) /\ Counting(old[k])
             /\ old[k].state = "EXECUTING" => LSB!At(k).state = "EXECUTING"
  <2>1. LSB!At(k) \in LsbEntry /\ Counting(LSB!At(k))
    BY AtTyped
  <2>2. LSB!Addressed(LSB!At(k)).state = "EXECUTING" => LSB!At(k).state = "EXECUTING"
    BY <2>1 DEF LSB!Addressed, LsbEntry
  <2>3. QED
    BY <2>1, <2>2, AddressedEffect
<1>4. old \in [LSB!Position -> LsbEntry]
  BY <1>3 DEF LsbAdvanced
<1>5. ASSUME NEW k \in LSB!Position
      PROVE  LsbAdvanced(LSB!At(k), f[k]) /\ Counting(f[k]) /\ OnlyLoads(f[k])
  <2> HIDE DEF old
  <2> DEFINE x == LSB!ExecuteLoad(k, old)
  <2>1. /\ LsbAdvanced(old[k], x) /\ Counting(x)
        /\ is_store(old[k].op) => x = old[k]
    BY <1>2, <1>3, <1>4, ExecuteLoadEffect
  <2>2. LsbAdvanced(LSB!At(k), old[k])
    BY <1>3
  <2>3. x.state = "EXECUTING" => ~is_store(x.op)
    BY <1>3, <2>1, <2>2 DEF LsbAdvanced, OnlyLoads
  <2>4. f[k] = LSB!CountDown(x)
    OBVIOUS
  <2> HIDE DEF x, f
  <2>5. x \in LsbEntry
    BY <2>1 DEF LsbAdvanced
  <2>6. /\ f[k] \in LsbEntry /\ Counting(f[k]) /\ f[k].op = x.op /\ f[k].tag = x.tag
        /\ f[k].qj = x.qj /\ f[k].qk = x.qk /\ (x.state # "EXECUTING" => f[k] = x)
        /\ (x.state = "EXECUTING" => f[k].state \in {"EXECUTING", "DONE"})
    BY <2>1, <2>4, <2>5, LsbCountDownEffect
  <2>7. CASE x.state # "EXECUTING"
    BY <2>1, <2>2, <2>6, <2>7 DEF LsbAdvanced, OnlyLoads
  <2>8. CASE x.state = "EXECUTING"
    BY <2>1, <2>2, <2>3, <2>6, <2>8 DEF LsbAdvanced, OnlyLoads
  <2>9. QED
    BY <2>7, <2>8
<1>6. \A k \in LSB!Position : f[k] \in LsbEntry
  BY <1>5 DEF LsbAdvanced
<1> HIDE DEF f
<1>7. LsbShape' /\ \A k \in LSB!Position : LSB!At(k)' = f[k]
  BY <1>1, <1>6, RewrittenAt
<1>8. QED
  BY <1>1, <1>5, <1>7

-----------------------------------------------------------------------------
(* The types of the whole machine.                                         *)
RobT == ROB!TypeOK
RatT == rat \in [Reg -> QTag] /\ rat[X0] = NoTag
RfT  == rf \in [Reg -> Word] /\ rf[X0] = 0
LsbT == LsbShape /\ \A k \in LSB!Position : Counting(LSB!At(k)) /\ OnlyLoads(LSB!At(k))
CtlT ==
  /\ slot \in 0 .. IqFetchWidth /\ halted \in BOOLEAN
  /\ cycle \in 1 .. MaxCycles + 1
  /\ phase \notin {"report", "exit"} => cycle <= MaxCycles
  /\ last.op \in Opcode /\ last.rd \in Reg \cup {NoReg} /\ last.result \in Word

TInv == ProgT /\ IqT /\ RobT /\ RatT /\ RfT /\ MemT /\ RsT /\ LsbT /\ CdbT /\ CtlT

LEMMA X0Reg == X0 \in Reg /\ NoReg \notin Reg
  BY RegAssumption DEF Reg

LEMMA TInvInit == Init => TInv
<1> SUFFICES ASSUME Init PROVE TInv
  OBVIOUS
<1> USE DEF Init
<1>1. ProgT
  BY ProgInit
<1>2. IqT
  BY Sizes DEF IqT, IQ!Init
<1>3. RobT
  BY Sizes DEF RobT, ROB!TypeOK, ROB!Init, ROB!IdleEntry, ROB!Slot, ROB!State
<1>4. RatT /\ RfT
  BY NoTagIsNoTag, X0Reg DEF RatT, RfT, RAT!Init, RF!Init
<1>5. MemT
  BY NoTagIsNoTag DEF MemT
<1>6. RsT
  BY FreeTyped DEF RsT, RS!Init
<1>7. LsbT
  BY LsbIdleTyped, Sizes DEF LsbT, LsbShape, LSB!Init, LSB!LSlot, LSB!Position
<1>8. CdbT
  BY DEF CdbT, CDB!Init
<1>9. CtlT
  <2>1. last.op \in Opcode /\ last.rd \in Reg \cup {NoReg} /\ last.result \in Word
    BY NoTagIsNoTag DEF NoCommit, Opcode
  <2>2. halted \in BOOLEAN
    OBVIOUS
  <2>3. slot \in 0 .. IqFetchWidth /\ cycle \in 1 .. MaxCycles + 1 /\ cycle <= MaxCycles
    BY Sizes
  <2> HIDE DEF Init
  <2>4. QED
    BY <2>1, <2>2, <2>3 DEF CtlT
<1>10. QED
  BY <1>1, <1>2, <1>3, <1>4, <1>5, <1>6, <1>7, <1>8, <1>9 DEF TInv

(* What a step leaves alone keeps its type. *)
LEMMA Same ==
  /\ IqT /\ UNCHANGED iqVars => IqT'
  /\ RobT /\ UNCHANGED robVars => RobT'
  /\ RatT /\ UNCHANGED rat => RatT'
  /\ RfT /\ UNCHANGED rf => RfT'
  /\ MemT /\ UNCHANGED mem => MemT'
  /\ RsT /\ UNCHANGED rs => RsT'
  /\ LsbT /\ UNCHANGED lsbVars => LsbT'
  /\ CdbT /\ UNCHANGED cdb => CdbT'
  BY DEF iqVars, robVars, lsbVars, IqT, RobT, ROB!TypeOK, RatT, RfT, MemT, RsT, LsbT, LsbShape,
         CdbT, LSB!Position, LSB!At, LSB!phys

(* The reorder buffer's operations, typed. *)
LEMMA AllocateTyped ==
  ASSUME RobT, NEW info \in Info, ROB!allocate(info)
  PROVE  RobT'
<1> USE Sizes DEF RobT, ROB!TypeOK, ROB!allocate, ROB!full
<1>1. robTail' \in ROB!Slot /\ robCount' \in 0 .. RobSize
  BY SuccWraps DEF Tag, ROB!Slot
<1>2. QED
  BY <1>1, NoTagIsNoTag DEF ROB!State

LEMMA WriteTyped ==
  ASSUME RobT, NEW t, NEW value \in Word, ROB!write_result(t, value)
  PROVE  RobT' /\ t \in Tag
  BY DEF RobT, ROB!TypeOK, ROB!write_result, ROB!State, Tag

LEMMA CommitTyped ==
  ASSUME RobT, ROB!commit
  PROVE  /\ RobT' /\ robHead \in Tag
         /\ Entry.info.op \in Opcode /\ Entry.info.rd \in Reg \cup {NoReg}
         /\ Entry.info.pc \in Nat /\ Entry.result \in Word
<1> USE Sizes DEF RobT, ROB!TypeOK
<1>1. robHead' \in ROB!Slot /\ robCount' \in 0 .. RobSize
  BY SuccWraps DEF Tag, ROB!Slot, ROB!commit, ROB!head_ready, ROB!empty
<1>2. robEntries' \in [ROB!Slot -> [state : ROB!State, info : Info \cup {NoInfo},
                                    result : Word \cup {0}]]
  BY NoTagIsNoTag DEF ROB!IdleEntry, ROB!State, ROB!commit
<1>3. Entry.info \in Info \cup {NoInfo} /\ Entry.result \in Word
  BY NoTagIsNoTag DEF Entry
<1>4. QED
  BY <1>1, <1>2, <1>3 DEF ROB!commit, Info, NoInfo, Opcode, Tag

(* The other operations of a commit, typed. *)
LEMMA RfTyped ==
  ASSUME RfT, NEW r \in Reg \cup {NoReg}, NEW v \in Word, RF!write(r, v)
  PROVE  RfT'
  BY X0Reg DEF RfT, RF!write

LEMMA RatCommitTyped ==
  ASSUME RatT, NEW r \in Reg \cup {NoReg}, NEW t \in Tag, RAT!commit(r, t)
  PROVE  RatT'
  BY X0Reg, NoTagIsNoTag DEF RatT, RAT!commit, RAT!lookup

LEMMA StoreTyped ==
  ASSUME MemT, LsbT, LSB!commit_store
  PROVE  MemT' /\ LsbT'
<1>1. ~LSB!empty /\ LSB!Pop /\ lsbHead \in LSB!LSlot /\ lsbEntries[lsbHead] \in LsbEntry
  BY DEF LSB!commit_store, LSB!can_commit_store, LsbT, LsbShape
<1> DEFINE a == lsbEntries[lsbHead].addr
           v == lsbEntries[lsbHead].vk
<1>2. a \div 4 \in Nat /\ v \in Word
  BY <1>1, WordFacts, DivSmaller DEF LsbEntry
<1>3. MemT'
  BY <1>2, SizesAssumption DEF MemT, LSB!commit_store, LSB!WordIndex
<1>4. LsbT'
  <2>1. /\ LsbShape' /\ lsbCount' = lsbCount - 1 /\ lsbCount \in 1 .. LsbSize
        /\ \A k \in 0 .. lsbCount - 2 : LSB!At(k)' = LSB!At(k + 1)
    BY <1>1, LsbPopEffect DEF LsbT
  <2>2. QED
    BY <2>1, Sizes DEF LsbT, LSB!Position
<1>5. QED
  BY <1>3, <1>4

(* The control variables. *)
LEMMA CtlStep == TInv /\ [Next]_vars => CtlT'
<1> SUFFICES ASSUME TInv, [Next]_vars PROVE CtlT'
  OBVIOUS
<1> USE Sizes DEF TInv, CtlT
<1>1. CASE AnyCommit
  <2>1. Committing /\ (halted' = halted \/ halted' = TRUE)
    BY <1>1 DEF AnyCommit, CommitHalt, CommitBranch, CommitJump, CommitStore, CommitResult
  <2>2. /\ Entry.info.op \in Opcode /\ Entry.info.rd \in Reg \cup {NoReg}
        /\ Entry.result \in Word
    BY <2>1, CommitTyped DEF Committing
  <2>3. /\ last'.op \in Opcode /\ last'.rd \in Reg \cup {NoReg} /\ last'.result \in Word
        /\ phase = "commit" /\ phase' = "fetch" /\ slot' = slot /\ cycle' = cycle
    BY <2>1, <2>2 DEF Committing
  <2>4. halted' \in BOOLEAN
    BY <2>1
  <2>5. QED
    BY <2>3, <2>4
<1>2. CASE AnyWrite
  BY <1>2 DEF AnyWrite, NotifyStore, BroadcastStation, BroadcastLoad, outVars
<1>3. CASE AnyDispatch
  <2>1. /\ slot' = slot + 1 /\ slot < IqFetchWidth /\ phase = "dispatch"
        /\ phase' \in {"dispatch", "next_cycle"} /\ UNCHANGED <<halted, cycle, last>>
    BY <1>3 DEF AnyDispatch, Dispatch, DispatchBranch, try_dispatch, outVars
  <2>2. QED
    BY <2>1
<1>4. CASE AnyParse
  <2>1. /\ UNCHANGED <<slot, halted, cycle, last>> /\ phase = "parse"
    BY <1>4 DEF AnyParse, Parse, LoadProgram, NoInstructions, Returned, pipeVars, outVars
  <2>2. QED
    BY <2>1
<1>5. CASE CommitNothing
  <2>1. /\ last' = NoCommit /\ UNCHANGED <<slot, halted, cycle>> /\ phase = "commit"
    BY <1>5 DEF CommitNothing
  <2>2. NoCommit.op \in Opcode /\ NoCommit.rd \in Reg \cup {NoReg} /\ NoCommit.result \in Word
    BY NoTagIsNoTag DEF NoCommit, Opcode
  <2>3. QED
    BY <2>1, <2>2
<1>6. CASE NextCycle
  <2>1. /\ cycle' = cycle + 1 /\ UNCHANGED <<slot, halted, last>> /\ phase = "next_cycle"
        /\ phase' = "report" \/ (phase' = "execute" /\ ~(cycle' > MaxCycles))
    BY <1>6 DEF NextCycle, outVars
  <2>2. QED
    BY <2>1
<1>7. CASE Execute \/ StoresNotified \/ BroadcastEnds \/ Snoop \/ Fetch \/ FetchStalled
             \/ DispatchEnds \/ Report \/ UNCHANGED vars
  <2>1. /\ slot' \in {slot, 0} /\ UNCHANGED <<halted, cycle, last>>
        /\ phase \in {"report", "exit"} \/ phase' \notin {"report", "exit"}
           \/ phase' = phase
    BY <1>7 DEF Execute, StoresNotified, BroadcastEnds, Snoop, Fetch, FetchStalled,
                DispatchEnds, Report, vars, outVars
  <2>2. phase' \notin {"report", "exit"} => phase \notin {"report", "exit"}
    BY <1>7 DEF Execute, StoresNotified, BroadcastEnds, Snoop, Fetch, FetchStalled,
                DispatchEnds, Report, vars
  <2>3. QED
    BY <2>1, <2>2
<1>8. QED
  BY <1>1, <1>2, <1>3, <1>4, <1>5, <1>6, <1>7, StepKinds DEF AnyOther

(* The operands a dispatch resolves. *)
LEMMA ResolveTyped ==
  ASSUME TInv, NEW r \in Reg \cup {NoReg}
  PROVE  resolve_operand(r) \in Operand
<1>1. CASE r = NoReg
  BY <1>1, NoTagIsNoTag DEF resolve_operand, Operand
<1>2. CASE r \in Reg /\ rat[r] = NoTag
  BY <1>2, X0Reg, NoTagIsNoTag DEF resolve_operand, RAT!lookup, RF!read, Operand, TInv, RfT
<1>3. CASE r \in Reg /\ rat[r] # NoTag
  <2>1. rat[r] \in Tag
    BY <1>3 DEF TInv, RatT, QTag
  <2>2. robEntries[rat[r]].result \in Word
    BY <2>1, NoTagIsNoTag DEF TInv, RobT, ROB!TypeOK, Tag
  <2>3. QED
    BY <1>3, <2>1, <2>2, X0Reg, NoTagIsNoTag
       DEF resolve_operand, RAT!lookup, ROB!peek, Operand, QTag
<1>4. QED
  BY <1>1, <1>2, <1>3

LEMMA TargetIsStation == \A op : TargetStation(op) \in Station
<1>1. {"alu", "branch", "fp_addsub", "fp_mul", "fp_div", "fp_cvt"} \subseteq Station
  <2>1. \A k \in 1 .. 6 : StationOrder[k] \in Station
    BY DEF Station, StationOrder
  <2>2. QED
    BY <2>1 DEF StationOrder
<1>2. \A op : TargetStation(op) \in {"alu", "branch", "fp_addsub", "fp_mul", "fp_div", "fp_cvt"}
  BY DEF TargetStation, is_branch, is_jump, Branches, Jumps, FpCvt
<1>3. QED
  BY <1>1, <1>2

LEMMA DispatchTyped ==
  ASSUME TInv, AnyDispatch
  PROVE  IqT' /\ RobT' /\ RatT' /\ RfT' /\ MemT' /\ RsT' /\ LsbT' /\ CdbT'
<1> DEFINE i == IQ!peek
           a == resolve_operand(i.rs1)
           b == resolve_operand(i.rs2)
<1>1. try_dispatch(i) /\ i \in Instr /\ robTail \in Tag
  BY DispatchedTyped DEF AnyDispatch, Dispatch, DispatchBranch, TInv, RobT, ROB!TypeOK, Tag
<1>2. a \in Operand /\ b \in Operand
  BY <1>1, ResolveTyped DEF Instr
<1>3. /\ ROB!allocate([op |-> i.op, rd |-> i.rd, pc |-> i.pc])
      /\ \/ LSB!issue(i, robTail, a, b) /\ UNCHANGED rs
         \/ RS!issue(TargetStation(i.op), i, robTail, a, b) /\ UNCHANGED lsbVars
      /\ RAT!map(i.rd, robTail) /\ UNCHANGED <<rf, mem, cdb>>
  BY <1>1 DEF try_dispatch, archVars
<1>4. IqT'
  <2>1. CASE Dispatch
    BY <2>1, DispatchedTyped DEF Dispatch, TInv
  <2>2. CASE DispatchBranch
    <3>1. i.pc + 4 \in Nat
      BY <1>1 DEF Instr
    <3>2. QED
      BY <2>2, <3>1, SeekTyped DEF DispatchBranch
  <2>3. QED
    BY <2>1, <2>2 DEF AnyDispatch
<1> HIDE DEF i, a, b
<1>5. RobT'
  <2>1. [op |-> i.op, rd |-> i.rd, pc |-> i.pc] \in Info
    BY <1>1 DEF Instr, Info
  <2>2. QED
    BY <1>3, <2>1, AllocateTyped DEF TInv
<1>6. RatT'
  BY <1>1, <1>3, X0Reg, NoTagIsNoTag DEF RatT, RAT!map, TInv, Instr, QTag
<1>7. RsT'
  BY <1>1, <1>2, <1>3, RsIssueTyped, TargetIsStation, Same DEF TInv
<1>8. LsbT'
  <2>1. CASE LSB!issue(i, robTail, a, b)
    <3> PICK n : n = lsbCount
      OBVIOUS
    <3>a. LsbShape
      BY DEF TInv, LsbT
    <3>1. /\ LsbShape' /\ lsbCount' = n + 1 /\ n \in 0 .. LsbSize - 1
          /\ \A k \in LSB!Position : LSB!At(k)' = LSB!At(k)
      BY <1>1, <1>2, <2>1, <3>a, LsbIssueEffect
    <3>2. LSB!At(n)'.state = "WAITING"
      BY <1>1, <1>2, <2>1, <3>a, LsbIssueEffect
    <3>3. Counting(LSB!At(n)') /\ OnlyLoads(LSB!At(n)')
      BY <3>2 DEF Counting, OnlyLoads
    <3>4. \A k \in LSB!Position' : k = n \/ k \in LSB!Position
      BY <3>1, Sizes DEF LSB!Position
    <3>5. QED
      BY <3>1, <3>3, <3>4 DEF LsbT, TInv
  <2>2. CASE UNCHANGED lsbVars
    BY <2>2, Same DEF TInv
  <2>3. QED
    BY <1>3, <2>1, <2>2
<1>9. QED
  BY <1>3, <1>4, <1>5, <1>6, <1>7, <1>8, Same DEF TInv

LEMMA CommitsTyped ==
  ASSUME TInv, AnyCommit
  PROVE  IqT' /\ RobT' /\ RatT' /\ RfT' /\ MemT' /\ RsT' /\ LsbT' /\ CdbT'
<1> USE DEF TInv
<1>1. Committing
  BY CommitIs
<1>2. /\ RobT' /\ robHead \in Tag /\ Entry.info.rd \in Reg \cup {NoReg}
      /\ Entry.info.pc \in Nat /\ Entry.result \in Word
  BY <1>1, CommitTyped DEF Committing
<1>3. RsT' /\ CdbT'
  BY <1>1, Same DEF Committing
<1>4. CASE CommitHalt
  BY <1>2, <1>3, <1>4, Same DEF CommitHalt, archVars
<1>5. CASE CommitBranch
  <2>1. IqT'
    BY <1>2, <1>5, SeekTyped, WordFacts DEF CommitBranch, Redirect
  <2>2. QED
    BY <1>2, <1>3, <1>5, <2>1, Same DEF CommitBranch, archVars
<1>6. CASE CommitJump
  <2>1. IqT'
    BY <1>2, <1>6, SeekTyped, WordFacts DEF CommitJump, Redirect
  <2>2. Wrap(Entry.info.pc + 4) \in Word
    BY <1>2, WordFacts
  <2>3. RfT' /\ RatT'
    BY <1>2, <1>6, <2>2, RfTyped, RatCommitTyped DEF CommitJump
  <2>4. QED
    BY <1>2, <1>3, <1>6, <2>1, <2>3, Same DEF CommitJump
<1>7. CASE CommitStore
  BY <1>2, <1>3, <1>7, StoreTyped, Same DEF CommitStore
<1>8. CASE CommitResult
  <2>1. RfT' /\ RatT'
    BY <1>2, <1>8, RfTyped, RatCommitTyped DEF CommitResult
  <2>2. QED
    BY <1>2, <1>3, <1>8, <2>1, Same DEF CommitResult
<1>9. QED
  BY <1>4, <1>5, <1>6, <1>7, <1>8 DEF AnyCommit

LEMMA BroadcastTyped ==
  ASSUME CdbT, NEW t \in Tag, NEW v \in Word, CDB!broadcast(t, v)
  PROVE  CdbT'
  BY AppendProperties DEF CdbT, CDB!broadcast

LEMMA PopLoadTyped ==
  ASSUME LsbT, LSB!pop_load_result
  PROVE  LsbT' /\ lsbEntries[lsbHead] \in LsbEntry
<1>1. ~LSB!empty /\ LSB!Pop /\ lsbEntries[lsbHead] \in LsbEntry /\ LsbShape
  BY DEF LSB!pop_load_result, LSB!has_load_result, LsbT, LsbShape
<1>2. /\ LsbShape' /\ lsbCount' = lsbCount - 1 /\ lsbCount \in 1 .. LsbSize
      /\ \A k \in 0 .. lsbCount - 2 : LSB!At(k)' = LSB!At(k + 1)
  BY <1>1, LsbPopEffect
<1>3. QED
  BY <1>1, <1>2, Sizes DEF LsbT, LSB!Position

LEMMA WritesTyped ==
  ASSUME TInv, AnyWrite
  PROVE  IqT' /\ RobT' /\ RatT' /\ RfT' /\ MemT' /\ RsT' /\ LsbT' /\ CdbT'
<1> USE DEF TInv
<1>1. IqT' /\ RatT' /\ RfT' /\ MemT'
  BY Same DEF AnyWrite, NotifyStore, BroadcastStation, BroadcastLoad, archVars
<1>2. CASE NotifyStore
  <2>1. PICK t : ROB!write_result(t, 0)
    BY <1>2 DEF NotifyStore
  <2>2. RobT'
    BY <2>1, WriteTyped, NoTagIsNoTag
  <2>3. QED
    BY <1>1, <1>2, <2>2, Same DEF NotifyStore
<1>3. CASE BroadcastStation
  <2>1. PICK s \in Station : /\ RS!pop_result(s)
                             /\ ROB!write_result(RS!Popped(s).tag, RS!Popped(s).result)
                             /\ CDB!broadcast(RS!Popped(s).tag, RS!Popped(s).result)
                             /\ UNCHANGED lsbVars
    BY <1>3 DEF BroadcastStation, Station
  <2>2. RsT' /\ RS!Popped(s).result \in Word
    BY <2>1, PopTyped DEF RsEntry
  <2>3. RobT' /\ RS!Popped(s).tag \in Tag
    BY <2>1, <2>2, WriteTyped
  <2>4. QED
    BY <1>1, <2>1, <2>2, <2>3, BroadcastTyped, Same
<1>4. CASE BroadcastLoad
  <2> DEFINE r == lsbEntries[lsbHead]
  <2>1. /\ LSB!pop_load_result /\ ROB!write_result(r.tag, r.result)
        /\ CDB!broadcast(r.tag, r.result) /\ UNCHANGED rs
    BY <1>4 DEF BroadcastLoad
  <2>2. LsbT' /\ r.result \in Word
    BY <2>1, PopLoadTyped DEF LsbEntry
  <2>3. RobT' /\ r.tag \in Tag
    BY <2>1, <2>2, WriteTyped
  <2>4. QED
    BY <1>1, <2>1, <2>2, <2>3, BroadcastTyped, Same
<1>5. QED
  BY <1>2, <1>3, <1>4 DEF AnyWrite

LEMMA OthersTyped ==
  ASSUME TInv, AnyParse \/ AnyOther \/ UNCHANGED vars
  PROVE  IqT' /\ RobT' /\ RatT' /\ RfT' /\ MemT' /\ RsT' /\ LsbT' /\ CdbT'
<1> USE DEF TInv
<1>1. RobT'
  BY OtherRob, Same
<1>2. CASE AnyParse
  <2>1. UNCHANGED <<rat, rf, mem, rs, lsbVars, cdb>>
    BY <1>2 DEF AnyParse, Parse, LoadProgram, NoInstructions, Returned, pipeVars, archVars
  <2>2. IqT'
    <3>1. CASE LoadProgram
      BY <3>1, Sizes DEF LoadProgram, IQ!load_program, IqT
    <3>2. CASE Parse \/ NoInstructions
      BY <3>2, Same DEF Parse, NoInstructions
    <3>3. QED
      BY <1>2, <3>1, <3>2 DEF AnyParse
  <2>3. QED
    BY <1>1, <2>1, <2>2, Same
<1>3. CASE Execute
  <2>1. RsT'
    BY <1>3, RsTickEffect DEF Execute
  <2>2. LsbT'
    <3>1. /\ LsbShape' /\ lsbCount' = lsbCount
          /\ \A k \in LSB!Position : Counting(LSB!At(k)') /\ OnlyLoads(LSB!At(k)')
      BY <1>3, LsbTickEffect DEF Execute, LsbT
    <3>2. QED
      BY <3>1 DEF LsbT, LSB!Position
  <2>3. QED
    BY <1>1, <1>3, <2>1, <2>2, Same DEF Execute, archVars
<1>4. CASE Snoop
  <2>1. RsT'
    BY <1>4, RsSnoopEffect DEF Snoop
  <2>2. LsbT'
    <3>1. /\ LsbShape' /\ lsbCount' = lsbCount /\ LsbShape
          /\ \A k \in LSB!Position :
               LSB!At(k)' = IF LSB!At(k).state \in {"IDLE", "DONE"} THEN LSB!At(k)
                                                                   ELSE CDB!Captured(LSB!At(k))
      BY <1>4, LsbSnoopEffect DEF Snoop, LsbT
    <3>2. \A k \in LSB!Position : /\ LSB!At(k)'.state = LSB!At(k).state
                                  /\ LSB!At(k)'.op = LSB!At(k).op
                                  /\ LSB!At(k)'.rem = LSB!At(k).rem
      BY <3>1, AtTyped, CapturedLsb
    <3>3. QED
      BY <3>1, <3>2 DEF LsbT, LSB!Position, Counting, OnlyLoads
  <2>3. QED
    BY <1>1, <1>4, <2>1, <2>2, Same DEF Snoop, archVars
<1>5. CASE Fetch
  <2>1. IqT'
    BY <1>5, FetchTyped DEF Fetch
  <2>2. QED
    BY <1>1, <1>5, <2>1, Same DEF Fetch, archVars
<1>6. CASE NextCycle
  <2>1. CdbT'
    BY <1>6 DEF NextCycle, CDB!flush, CdbT
  <2>2. QED
    BY <1>1, <1>6, <2>1, Same DEF NextCycle, archVars
<1>7. CASE StoresNotified \/ BroadcastEnds \/ CommitNothing \/ FetchStalled
             \/ DispatchEnds \/ Report \/ UNCHANGED vars
  <2>1. UNCHANGED <<iqVars, rat, rf, mem, rs, lsbVars, cdb>>
    BY <1>7 DEF StoresNotified, BroadcastEnds, CommitNothing, FetchStalled, DispatchEnds,
                Report, vars, archVars
  <2>2. QED
    BY <1>1, <2>1, Same
<1>8. QED
  BY <1>2, <1>3, <1>4, <1>5, <1>6, <1>7 DEF AnyOther

LEMMA TInvStep == TInv /\ [Next]_vars => TInv'
<1> SUFFICES ASSUME TInv, [Next]_vars PROVE TInv'
  OBVIOUS
<1>1. ProgT' /\ CtlT'
  BY ProgStep, CtlStep DEF TInv
<1>2. IqT' /\ RobT' /\ RatT' /\ RfT' /\ MemT' /\ RsT' /\ LsbT' /\ CdbT'
  BY StepKinds, CommitsTyped, WritesTyped, DispatchTyped, OthersTyped
<1>3. QED
  BY <1>1, <1>2 DEF TInv

LEMMA TInvMeans == TInv /\ StallInv => TypeOK
<1> SUFFICES ASSUME TInv, StallInv PROVE TypeOK
  OBVIOUS
<1> USE DEF TInv
<1>1. program \in Seq(Decoded)
  <2>1. Good \subseteq Decoded
    BY DEF Good
  <2>2. QED
    BY <2>1, SeqMonotonic DEF ProgT
<1>2. \A s \in Station : \A i \in RS!RSlot(s) :
        LET e == rs[s][i] IN
        /\ e.busy \in BOOLEAN /\ e.done \in BOOLEAN /\ e.op \in Opcode
        /\ {e.vj, e.vk, e.result} \subseteq Word /\ e.rem \in Nat
        /\ {e.tag, e.qj, e.qk} \subseteq Tag \cup {NoTag}
  <2>1. \A s \in Station : \A i \in RS!RSlot(s) : rs[s][i] \in RsEntry
    BY DEF RsT
  <2>2. QED
    BY <2>1 DEF RsEntry, QTag
<1>3. \A i \in LSB!LSlot :
       LET e == lsbEntries[i] IN
       /\ e.state \in {"IDLE", "WAITING", "ADDR_READY", "EXECUTING", "DONE"}
       /\ {e.vj, e.vk, e.addr, e.result} \subseteq Word /\ e.rem \in Nat
       /\ {e.tag, e.qj, e.qk} \subseteq Tag \cup {NoTag}
  BY DEF LsbT, LsbShape, LsbEntry, QTag
<1>4. branch_in_flight \in BOOLEAN /\ halted \in BOOLEAN
  BY DEF StallInv, CtlT
<1>5. /\ lsbHead \in LSB!LSlot /\ lsbTail \in LSB!LSlot /\ lsbCount \in 0 .. LsbSize
      /\ iqPc \in Nat /\ Len(iqBuffer) <= IqCapacity /\ ROB!TypeOK
      /\ rat \in [Reg -> Tag \cup {NoTag}] /\ rf \in [Reg -> Word] /\ rf[X0] = 0
      /\ mem \in [0 .. MemWords - 1 -> Word]
      /\ cdb \in Seq([tag : Tag, value : Word])
  BY DEF LsbT, LsbShape, IqT, RobT, RatT, RfT, MemT, CdbT, QTag
<1>6. /\ slot \in 0 .. IqFetchWidth /\ cycle \in 1 .. MaxCycles + 1
      /\ last.op \in Opcode /\ last.rd \in Reg \cup {NoReg} /\ last.result \in Word
  BY DEF CtlT
<1> HIDE DEF TInv
<1>7. QED
  BY <1>1, <1>2, <1>3, <1>4, <1>5, <1>6 DEF TypeOK

(* Every field of the pipeline keeps its type, whatever the program, the   *)
(* sizes and the latencies: no index leaves its array, no value its word,  *)
(* no countdown goes below zero (every operation of main's components).    *)
THEOREM TypesKept == Spec => []TypeOK
  BY RobInit, RobStep, StallInit, StallStep, TInvInit, TInvStep, TInvMeans, PTL DEF Spec
-----------------------------------------------------------------------------
(* The rename table.                                                       *)

Writes(t, r) == Live(t) /\ robEntries[t].info.rd = r

(* An instruction without a result names no register. *)
NoResult == Branches \cup Stores \cup {"NOP", "HALT"}

InfoInv ==
  \A t \in Tag : Live(t) /\ robEntries[t].info.op \in NoResult => Writes(t, NoReg)

(* RatNamesYoungestWriter, member by member. *)
RatInv ==
  \A r \in Reg \ {X0} :
    /\ rat[r] # NoTag => Writes(rat[r], r)
    /\ \A t \in Tag : Writes(t, r) => rat[r] # NoTag /\ ROB!Age(t) <= ROB!Age(rat[r])

LEMMA RatMeans == RobOK /\ RatT /\ RatInv => RatNamesYoungestWriter
<1> SUFFICES ASSUME RobOK, RatT, RatInv, NEW r \in Reg \ {X0}
             PROVE  IF Writers(r) = {} THEN rat[r] = NoTag
                    ELSE /\ rat[r] \in Writers(r)
                         /\ \A t \in Writers(r) \ {rat[r]} : Older(t, rat[r])
  BY DEF RatNamesYoungestWriter
<1>1. \A t : t \in Writers(r) <=> t \in Tag /\ Writes(t, r)
  BY DEF Writers, Writes
<1>2. rat[r] # NoTag => rat[r] \in Tag /\ Writes(rat[r], r)
  BY DEF RatT, RatInv, QTag
<1>3. CASE Writers(r) = {}
  BY <1>1, <1>2, <1>3
<1>4. CASE Writers(r) # {}
  <2>1. rat[r] \in Tag /\ Writes(rat[r], r)
    BY <1>1, <1>2, <1>4 DEF RatInv
  <2>2. ASSUME NEW t \in Writers(r) \ {rat[r]}
        PROVE  Older(t, rat[r])
    <3>1. t \in Tag /\ t # rat[r] /\ ROB!Age(t) <= ROB!Age(rat[r])
      BY <1>1 DEF RatInv
    <3>2. ROB!Age(t) # ROB!Age(rat[r]) /\ ROB!Age(t) \in Int /\ ROB!Age(rat[r]) \in Int
      BY <2>1, <3>1, AgeInjective DEF RobOK
    <3>3. QED
      BY <3>1, <3>2 DEF Older
  <2>3. QED
    BY <1>1, <1>4, <2>1, <2>2
<1>5. QED
  BY <1>3, <1>4

LEMMA RatInit == Init => InfoInv /\ RatInv
<1> SUFFICES ASSUME Init PROVE InfoInv /\ RatInv
  OBVIOUS
<1>1. \A t \in Tag : ~Live(t)
  BY DEF Init, ROB!Init, ROB!IdleEntry, Live, Tag
<1>2. \A r \in Reg : rat[r] = NoTag
  BY DEF Init, RAT!Init
<1>3. QED
  BY <1>1, <1>2 DEF InfoInv, RatInv, Writes

(* What a dispatch does to the reorder buffer and the rename table. *)
LEMMA DispatchEffect ==
  ASSUME RobOK, TInv, AnyDispatch
  PROVE  /\ IQ!peek \in Instr /\ robTail \in Tag
         /\ robEntries'[robTail].state = "IN_FLIGHT"
         /\ robEntries'[robTail].info = [op |-> IQ!peek.op, rd |-> IQ!peek.rd, pc |-> IQ!peek.pc]
         /\ \A t \in Tag \ {robTail} : robEntries'[t] = robEntries[t]
         /\ \A t \in Tag : ROB!Age(t)' = ROB!Age(t)
         /\ ~Live(robTail) /\ ROB!Age(robTail) = robCount
         /\ \A t \in Tag : Live(t) => ROB!Age(t) < robCount
         /\ RAT!map(IQ!peek.rd, robTail)
<1>1. /\ try_dispatch(IQ!peek) /\ IQ!can_dispatch
      /\ ROB!allocate([op |-> IQ!peek.op, rd |-> IQ!peek.rd, pc |-> IQ!peek.pc])
  BY DispatchIs DEF AnyDispatch, Dispatch, DispatchBranch
<1>2. IQ!peek \in Instr
  BY <1>1, DispatchedTyped DEF TInv
<1>3. RAT!map(IQ!peek.rd, robTail)
  BY <1>1 DEF try_dispatch
<1>4. robTail \in Tag
  BY DEF RobOK, RobShape
<1>5. \A t \in Tag : Live(t) => ROB!Age(t) < robCount
  BY DEF RobOK, ROB!WindowIsLive, Live, Tag
<1>6. QED
  BY <1>1, <1>2, <1>3, <1>4, <1>5, AllocateEffect

LEMMA RatStep ==
  RobOK /\ TInv /\ InfoInv /\ RatInv /\ [Next]_vars => InfoInv' /\ RatInv'
<1> SUFFICES ASSUME RobOK, TInv, InfoInv, RatInv, [Next]_vars PROVE InfoInv' /\ RatInv'
  OBVIOUS
<1>t. \A t \in Tag : ROB!Age(t) \in 0 .. RobSize - 1
  BY AgeInjective DEF RobOK
<1>r. \A r \in Reg : rat[r] # NoTag => rat[r] \in Tag
  BY DEF TInv, RatT, QTag
<1>1. CASE AnyCommit
  <2>1. Committing /\ ROB!commit /\ robHead \in Tag
    BY <1>1, CommitIs DEF Committing, RobOK, RobShape
  <2> PICK h \in Tag : h = robHead
    BY <2>1
  <2>2. /\ \A t \in Tag : Live(t)' => t # h
        /\ \A t \in Tag \ {h} : robEntries'[t] = robEntries[t] /\ ROB!Age(t)' = ROB!Age(t) - 1
    BY <2>1, CommitEffect DEF Live
  <2>3. InfoInv'
    BY <2>2 DEF InfoInv, Live, Writes
  <2>4. Live(h)
    BY <2>1, CommitEffect DEF Live
  <2>5. \A r \in Reg \ {X0} : rat'[r] = IF Writes(h, r) /\ rat[r] = h THEN NoTag ELSE rat[r]
    <3>1. CASE CommitHalt \/ CommitBranch \/ CommitStore
      <4>1. rat' = rat /\ robEntries[h].info.op \in NoResult
        BY <3>1 DEF CommitHalt, CommitBranch, CommitStore, NoResult, Entry, is_branch, is_store
      <4>2. \A r \in Reg : ~Writes(h, r)
        BY <2>4, <4>1, X0Reg DEF InfoInv, Writes
      <4>3. QED
        BY <4>1, <4>2
    <3>2. CASE CommitJump \/ CommitResult
      <4>1. RAT!commit(robEntries[h].info.rd, h)
        BY <3>2 DEF CommitJump, CommitResult, Entry
      <4>2. ASSUME NEW r \in Reg \ {X0}
            PROVE  rat'[r] = IF Writes(h, r) /\ rat[r] = h THEN NoTag ELSE rat[r]
        BY <4>1, <2>4, X0Reg DEF RAT!commit, RAT!lookup, Writes, TInv, RatT, RatInv
      <4>3. QED
        BY <4>2
    <3>3. QED
      BY <1>1, <3>1, <3>2 DEF AnyCommit
  <2>6. ASSUME NEW r \in Reg \ {X0}
        PROVE  /\ rat'[r] # NoTag => Writes(rat[r], r)'
               /\ \A t \in Tag : Writes(t, r)' =>
                    rat'[r] # NoTag /\ ROB!Age(t)' <= ROB!Age(rat[r])'
    <3> PICK q : q = rat[r]
      OBVIOUS
    <3>1. /\ q # NoTag => q \in Tag /\ Writes(q, r)
          /\ \A t \in Tag : Writes(t, r) => q # NoTag /\ ROB!Age(t) <= ROB!Age(q)
      BY <1>r DEF RatInv
    <3>2. \A t \in Tag : Writes(t, r)' <=> t # h /\ Writes(t, r)
      BY <2>2 DEF Writes, Live
    <3>3. ASSUME NEW t \in Tag, Writes(t, r), t # h
          PROVE  q # h
      <4>1. ROB!Age(h) = 0
        BY <2>1, CommitEffect
      <4>2. QED
        BY <1>t, <3>1, <3>3, <4>1, AgeInjective DEF RobOK
    <3>4. CASE q = h
      <4>1. rat'[r] = NoTag
        BY <2>5, <3>1, <3>4
      <4>2. QED
        BY <3>2, <3>3, <3>4, <4>1
    <3>5. CASE q # h
      <4>1. rat'[r] = q
        BY <2>5, <3>5
      <4>2. \A t \in Tag : Writes(t, r)' => q # NoTag /\ ROB!Age(t)' <= ROB!Age(q)'
        BY <1>t, <2>2, <3>1, <3>2, <3>5
      <4>3. QED
        BY <3>1, <3>2, <3>5, <4>1, <4>2
    <3>6. QED
      BY <3>4, <3>5
  <2>7. QED
    BY <2>3, <2>6 DEF RatInv
<1>2. CASE AnyDispatch
  <2> PICK h \in Tag : h = robTail
    BY DEF RobOK, RobShape
  <2> DEFINE i == IQ!peek
  <2>1. /\ i \in Instr /\ ~Live(h) /\ ROB!Age(h) = robCount
        /\ robEntries'[h].state = "IN_FLIGHT"
        /\ robEntries'[h].info = [op |-> i.op, rd |-> i.rd, pc |-> i.pc]
        /\ \A t \in Tag \ {h} : robEntries'[t] = robEntries[t]
        /\ \A t \in Tag : ROB!Age(t)' = ROB!Age(t)
        /\ \A t \in Tag : Live(t) => ROB!Age(t) < robCount
        /\ RAT!map(i.rd, h)
    BY <1>2, DispatchEffect
  <2> HIDE DEF i
  <2>2. /\ Live(h)' /\ \A r : Writes(h, r)' <=> i.rd = r
        /\ \A t \in Tag \ {h} : Live(t)' <=> Live(t)
        /\ \A t \in Tag \ {h} : \A r : Writes(t, r)' <=> Writes(t, r)
    BY <2>1 DEF Writes, Live
  <2>3. InfoInv'
    <3>1. i.op \in NoResult => i.rd = NoReg
      BY <2>1 DEF Instr, Shape, NoResult
    <3>2. ASSUME NEW t \in Tag, Live(t)', robEntries'[t].info.op \in NoResult
          PROVE  Writes(t, NoReg)'
      BY <2>1, <2>2, <3>1, <3>2 DEF InfoInv
    <3>3. QED
      BY <3>2 DEF InfoInv
  <2>4. \A r \in Reg \ {X0} : rat'[r] = IF i.rd = r THEN h ELSE rat[r]
    BY <2>1, X0Reg DEF RAT!map, TInv, RatT
  <2>5. ASSUME NEW r \in Reg \ {X0}
        PROVE  /\ rat'[r] # NoTag => Writes(rat[r], r)'
               /\ \A t \in Tag : Writes(t, r)' =>
                    rat'[r] # NoTag /\ ROB!Age(t)' <= ROB!Age(rat[r])'
    <3> PICK q : q = rat'[r]
      OBVIOUS
    <3>1. CASE i.rd = r
      <4>1. q = h /\ Writes(h, r)' /\ h # NoTag
        BY <2>2, <2>4, <3>1, NoTagIsNoTag
      <4>2. \A t \in Tag : Live(t)' => ROB!Age(t)' <= ROB!Age(h)'
        BY <1>t, <2>1, <2>2
      <4>3. QED
        BY <4>1, <4>2 DEF Writes
    <3>2. CASE i.rd # r
      <4>1. q = rat[r]
        BY <2>4, <3>2
      <4>2. /\ q # NoTag => q \in Tag /\ Writes(q, r)
            /\ \A t \in Tag : Writes(t, r) => q # NoTag /\ ROB!Age(t) <= ROB!Age(q)
        BY <1>r, <4>1 DEF RatInv
      <4>3. \A t \in Tag : Writes(t, r)' <=> Writes(t, r)
        BY <2>1, <2>2, <3>2 DEF Writes
      <4>4. QED
        BY <2>1, <4>2, <4>3
    <3>3. QED
      BY <3>1, <3>2
  <2>6. QED
    BY <2>3, <2>5 DEF RatInv
<1>3. CASE AnyWrite \/ AnyParse \/ AnyOther \/ UNCHANGED vars
  <2>1. UNCHANGED rat
    BY <1>3 DEF AnyWrite, AnyOther, AnyParse, vars, Parse, LoadProgram, NoInstructions,
         Returned, pipeVars, Execute, StoresNotified, BroadcastEnds, Snoop, CommitNothing,
         Fetch, FetchStalled, DispatchEnds, NextCycle, Report, NotifyStore,
         BroadcastStation, BroadcastLoad
  <2>2. \A t \in Tag : /\ Live(t)' <=> Live(t)
                       /\ robEntries'[t].info = robEntries[t].info
                       /\ ROB!Age(t)' = ROB!Age(t)
    BY <1>3, SameEntries
  <2>3. \A t \in Tag : \A r : Writes(t, r)' <=> Writes(t, r)
    BY <2>2 DEF Writes
  <2>4. InfoInv'
    BY <2>2, <2>3 DEF InfoInv
  <2>5. ASSUME NEW r \in Reg \ {X0}
        PROVE  /\ rat'[r] # NoTag => Writes(rat[r], r)'
               /\ \A t \in Tag : Writes(t, r)' =>
                    rat'[r] # NoTag /\ ROB!Age(t)' <= ROB!Age(rat[r])'
    BY <1>r, <2>1, <2>2, <2>3 DEF RatInv
  <2>6. QED
    BY <2>4, <2>5 DEF RatInv
<1>4. QED
  BY <1>1, <1>2, <1>3, StepKinds

(* Every register is renamed to its youngest unretired writer, for every   *)
(* program: map at dispatch and the conditional clear at commit suffice    *)
(* (register_remapping_table.cpp; sim.cpp phases 5 and 6).                 *)
THEOREM RenameKept == Spec => []RatNamesYoungestWriter
<1>1. Init => RobOK /\ TInv /\ InfoInv /\ RatInv
  BY RobInit, TInvInit, RatInit
<1>2. RobOK /\ TInv /\ InfoInv /\ RatInv /\ [Next]_vars => (RobOK /\ TInv /\ InfoInv /\ RatInv)'
  BY RobStep, TInvStep, RatStep
<1>3. RobOK /\ TInv /\ InfoInv /\ RatInv => RatNamesYoungestWriter
  BY RatMeans DEF TInv
<1>4. QED
  BY <1>1, <1>2, <1>3, PTL DEF Spec
-----------------------------------------------------------------------------
(* Where an instruction is: in one station slot or one LSB position.       *)

LEMMA RsIssueEffect ==
  ASSUME RsT, NEW s \in Station, NEW i \in Instr, NEW t \in Tag,
         NEW a \in Operand, NEW b \in Operand, RS!issue(s, i, t, a, b)
  PROVE  \E d \in RS!RSlot(s) :
           /\ ~rs[s][d].busy
           /\ rs'[s][d].busy /\ ~rs'[s][d].done /\ rs'[s][d].op = i.op
           /\ rs'[s][d].tag = t /\ rs'[s][d].rem = 0
           /\ rs'[s][d].qj = a.q /\ rs'[s][d].qk = b.q
           /\ \A u \in Station : \A j \in RS!RSlot(u) :
                u # s \/ j # d => rs'[u][j] = rs[u][j]
<1> DEFINE d == RS!FreeSlot(s)
           e == [RS!FreeEntry EXCEPT !.busy = TRUE, !.op = i.op,
                   !.tag = t, !.imm = i.imm, !.pc = i.pc,
                   !.vj = a.v, !.qj = a.q, !.vk = b.v, !.qk = b.q]
<1>1. d \in RS!RSlot(s) /\ ~rs[s][d].busy
  BY FreeSlotIs DEF RS!issue
<1>2. rs' = [rs EXCEPT ![s][d] = e]
  BY DEF RS!issue
<1>3. /\ e.busy = TRUE /\ e.done = FALSE /\ e.op = i.op /\ e.tag = t /\ e.rem = 0
      /\ e.qj = a.q /\ e.qk = b.q
  BY DEF RS!FreeEntry
<1> HIDE DEF d, e
<1>4. rs'[s][d] = e /\ \A u \in Station : \A j \in RS!RSlot(u) :
                          u # s \/ j # d => rs'[u][j] = rs[u][j]
  BY <1>1, <1>2 DEF RsT
<1>5. QED
  BY <1>1, <1>3, <1>4

LEMMA RsPopEffect ==
  ASSUME RsT, NEW s \in Station, RS!pop_result(s)
  PROVE  \E d \in RS!RSlot(s) :
           /\ RS!Popped(s) = rs[s][d] /\ rs[s][d].busy /\ rs[s][d].done
           /\ ~rs'[s][d].busy
           /\ \A u \in Station : \A j \in RS!RSlot(u) :
                u # s \/ j # d => rs'[u][j] = rs[u][j]
<1> DEFINE d == RS!DoneSlot(s)
<1>1. d \in RS!RSlot(s) /\ rs[s][d].busy /\ rs[s][d].done /\ RS!Popped(s) = rs[s][d]
  BY DoneSlotIs DEF RS!pop_result, RS!Popped
<1>2. rs' = [rs EXCEPT ![s][d] = RS!FreeEntry] /\ ~RS!FreeEntry.busy
  BY DEF RS!pop_result, RS!FreeEntry
<1> HIDE DEF d
<1>3. rs'[s][d] = RS!FreeEntry /\ \A u \in Station : \A j \in RS!RSlot(u) :
                          u # s \/ j # d => rs'[u][j] = rs[u][j]
  BY <1>1, <1>2 DEF RsT
<1>4. QED
  BY <1>1, <1>2, <1>3

(* A busy station entry is an unfinished instruction that is no memory     *)
(* operation; an LSB entry is a memory operation, and a store stays when   *)
(* it is finished.                                                         *)
RsFits(e) ==
  /\ e.tag \in Tag /\ InFlight(e.tag)
  /\ robEntries[e.tag].info.op = e.op /\ ~ToLsb(e.op)

LsbFits(e) ==
  /\ e.state # "IDLE" /\ e.tag \in Tag /\ Live(e.tag)
  /\ robEntries[e.tag].info.op = e.op /\ ToLsb(e.op)
  /\ is_load(e.op) => InFlight(e.tag)
  /\ ~InFlight(e.tag) => e.state = "DONE"

RsPlace  == \A s \in Station : \A i \in RS!RSlot(s) : rs[s][i].busy => RsFits(rs[s][i])
RsUnique == \A s, u \in Station : \A i \in RS!RSlot(s), j \in RS!RSlot(u) :
              rs[s][i].busy /\ rs[u][j].busy /\ rs[s][i].tag = rs[u][j].tag => s = u /\ i = j
LsbPlace == \A k \in LSB!Position : LsbFits(LSB!At(k))
LsbOrder == \A j, k \in LSB!Position :
              j < k => ROB!Age(LSB!At(j).tag) < ROB!Age(LSB!At(k).tag)

InRs(t)  == \E s \in Station : \E i \in RS!RSlot(s) : rs[s][i].busy /\ rs[s][i].tag = t
InLsb(t) == \E k \in LSB!Position : LSB!At(k).tag = t

(* Who has a place. *)
Placed(t) == InFlight(t) \/ (Live(t) /\ is_store(robEntries[t].info.op))
HasPlace  == \A t \in Tag : Placed(t) => InRs(t) \/ InLsb(t)

PlaceInv == RsPlace /\ RsUnique /\ LsbPlace /\ LsbOrder /\ HasPlace

LEMMA PlaceInit == Init => PlaceInv
<1> SUFFICES ASSUME Init PROVE PlaceInv
  OBVIOUS
<1>1. \A t \in Tag : ~Live(t) /\ ~InFlight(t)
  BY DEF Init, ROB!Init, ROB!IdleEntry, Live, InFlight, Tag
<1>2. \A s \in Station : \A i \in RS!RSlot(s) : ~rs[s][i].busy
  BY DEF Init, RS!Init, RS!FreeEntry
<1>3. LSB!Position = {}
  BY DEF Init, LSB!Init, LSB!Position
<1>4. QED
  BY <1>1, <1>2, <1>3 DEF PlaceInv, RsPlace, RsUnique, LsbPlace, LsbOrder, HasPlace, Placed

(* Two positions of the LSB hold two instructions. *)
LEMMA LsbInjective ==
  ASSUME RobOK, LsbShape, LsbPlace, LsbOrder, NEW j \in LSB!Position, NEW k \in LSB!Position,
         LSB!At(j).tag = LSB!At(k).tag
  PROVE  j = k
<1>1. j \in Int /\ k \in Int
  BY DEF LsbShape, LSB!Position
<1>2. ROB!Age(LSB!At(j).tag) \in Int
  BY AgeInjective DEF LsbPlace, LsbFits, RobOK
<1>3. ~(j < k) /\ ~(k < j)
  BY <1>2 DEF LsbOrder
<1>4. QED
  BY <1>1, <1>3

LEMMA OpKinds ==
  /\ \A op : ToLsb(op) <=> is_load(op) \/ is_store(op)
  /\ \A op : ~(is_load(op) /\ is_store(op))
  BY DEF ToLsb, is_load, is_store, Loads, Stores

(* The oldest instruction, when it is a finished store, is at the LSB head. *)
LEMMA StoreAtHead ==
  ASSUME RobOK, LsbShape, PlaceInv, ROB!head_ready, is_store(Entry.info.op)
  PROVE  LSB!can_commit_store /\ 0 \in LSB!Position /\ LSB!At(0).tag = robHead
<1>1. robHead \in Tag /\ robEntries[robHead].state = "DONE" /\ ROB!Age(robHead) = 0
  BY Sizes DEF RobOK, RobShape, ROB!head_ready, ROB!Age, Tag, ROB!Slot
<1>2. Live(robHead) /\ ~InFlight(robHead)
  BY <1>1 DEF Live, InFlight
<1>3. ~InRs(robHead)
  BY <1>2 DEF PlaceInv, RsPlace, RsFits, InRs
<1>4. PICK k \in LSB!Position : LSB!At(k).tag = robHead
  BY <1>1, <1>2, <1>3 DEF PlaceInv, HasPlace, Placed, InLsb, Entry
<1>5. 0 \in LSB!Position /\ k \in Int /\ k >= 0 /\ lsbCount # 0
  BY <1>4 DEF LSB!Position, LsbShape
<1>6. k = 0
  <2>1. LSB!At(0).tag \in Tag
    BY <1>5 DEF PlaceInv, LsbPlace, LsbFits
  <2>2. ROB!Age(LSB!At(0).tag) \in Nat
    BY <2>1, Sizes, AgeInjective DEF RobOK
  <2>3. ~(0 < k)
    BY <1>1, <1>4, <1>5, <2>2 DEF PlaceInv, LsbOrder
  <2>4. QED
    BY <1>5, <2>3
<1>7. LSB!At(0) = lsbEntries[lsbHead]
  BY PhysPos DEF LSB!At
<1>8. LsbFits(LSB!At(0))
  BY <1>5 DEF PlaceInv, LsbPlace
<1>9. QED
  BY <1>2, <1>4, <1>5, <1>6, <1>7, <1>8 DEF LSB!can_commit_store, LSB!empty, LsbFits, Entry

LEMMA PlaceMeans == RobOK /\ TInv /\ PlaceInv => OneUnitPerEntry /\ LsbInProgramOrder
<1> SUFFICES ASSUME RobOK, TInv, PlaceInv PROVE OneUnitPerEntry /\ LsbInProgramOrder
  OBVIOUS
<1> USE DEF TInv, LsbT
<1>1. OneUnitPerEntry
  <2> SUFFICES ASSUME NEW t \in Tag
               PROVE  Cardinality(Holders(t)) = IF Placed(t) THEN 1 ELSE 0
    BY DEF OneUnitPerEntry, Placed
  <2> DEFINE R == {p \in StationSlots : rs[p[1]][p[2]].busy /\ rs[p[1]][p[2]].tag = t}
             L == {k \in LSB!Position : LSB!At(k).tag = t}
  <2>1. Holders(t) = R \cup L
    BY DEF Holders
  <2>2. \A p : p \in R <=> \E s \in Station : \E i \in RS!RSlot(s) :
                             p = <<s, i>> /\ rs[s][i].busy /\ rs[s][i].tag = t
    BY DEF StationSlots
  <2>3. \A k : k \in L <=> k \in LSB!Position /\ LSB!At(k).tag = t
    OBVIOUS
  <2> HIDE DEF R, L
  <2>4. \A p \in R : InFlight(t) /\ ~ToLsb(robEntries[t].info.op)
    BY <2>2 DEF PlaceInv, RsPlace, RsFits
  <2>5. \A k \in L : ToLsb(robEntries[t].info.op) /\ Placed(t)
    BY <2>3, OpKinds DEF PlaceInv, LsbPlace, LsbFits, Placed
  <2>6. \A p, q \in R : p = q
    BY <2>2 DEF PlaceInv, RsUnique
  <2>7. \A j, k \in L : j = k
    BY <2>3, LsbInjective DEF PlaceInv
  <2>8. R = {} \/ L = {}
    BY <2>4, <2>5
  <2>9. CASE Placed(t)
    <3>1. R # {} \/ L # {}
      <4>1. CASE InRs(t)
        BY <2>2, <4>1 DEF InRs
      <4>2. CASE InLsb(t)
        BY <2>3, <4>2 DEF InLsb
      <4>3. QED
        BY <2>9, <4>1, <4>2 DEF PlaceInv, HasPlace
    <3>2. \E p : Holders(t) = {p}
      <4>1. CASE R # {}
        <5>1. PICK p \in R : TRUE
          BY <4>1
        <5>2. R = {p} /\ L = {}
          BY <2>6, <2>8, <5>1
        <5>3. QED
          BY <2>1, <5>2
      <4>2. CASE L # {}
        <5>1. PICK k \in L : TRUE
          BY <4>2
        <5>2. L = {k} /\ R = {}
          BY <2>7, <2>8, <5>1
        <5>3. QED
          BY <2>1, <5>2
      <4>3. QED
        BY <3>1, <4>1, <4>2
    <3>3. QED
      BY <2>9, <3>2, FS_Singleton
  <2>10. CASE ~Placed(t)
    <3>1. Holders(t) = {}
      BY <2>1, <2>4, <2>5, <2>10 DEF Placed
    <3>2. QED
      BY <2>10, <3>1, FS_EmptySet
  <2>11. QED
    BY <2>9, <2>10
<1>2. LsbInProgramOrder
  <2>1. \A j, k \in LSB!Position : j < k => Older(LSB!At(j).tag, LSB!At(k).tag)
    BY DEF PlaceInv, LsbOrder, Older
  <2>2. \A k \in LSB!Position : robEntries[LSB!At(k).tag].info.op = LSB!At(k).op
    BY DEF PlaceInv, LsbPlace, LsbFits
  <2>3. ROB!head_ready /\ is_store(Entry.info.op) =>
          LSB!can_commit_store /\ LSB!At(0).tag = robHead
    BY StoreAtHead
  <2>4. QED
    BY <2>1, <2>2, <2>3 DEF LsbInProgramOrder
<1>3. QED
  BY <1>1, <1>2

(* A step that finishes no instruction, retires none and moves none.       *)
LEMMA PlaceKept ==
  ASSUME PlaceInv, UNCHANGED robVars, lsbCount' = lsbCount,
         \A s \in Station : \A i \in RS!RSlot(s) :
           rs'[s][i].busy = rs[s][i].busy /\ rs'[s][i].op = rs[s][i].op
             /\ rs'[s][i].tag = rs[s][i].tag,
         \A k \in LSB!Position :
           /\ LSB!At(k)'.op = LSB!At(k).op /\ LSB!At(k)'.tag = LSB!At(k).tag
           /\ LSB!At(k).state # "IDLE" => LSB!At(k)'.state # "IDLE"
           /\ LSB!At(k).state = "DONE" => LSB!At(k)'.state = "DONE"
  PROVE  PlaceInv'
<1>1. LSB!Position' = LSB!Position
  BY DEF LSB!Position
<1>2. \A t : /\ InFlight(t)' <=> InFlight(t)
             /\ Live(t)' <=> Live(t)
             /\ ROB!Age(t)' = ROB!Age(t)
  BY DEF robVars, InFlight, Live, ROB!Age
<1>3. robEntries' = robEntries
  BY DEF robVars
<1>4. RsPlace'
  BY <1>2, <1>3 DEF PlaceInv, RsPlace, RsFits
<1>5. RsUnique'
  BY DEF PlaceInv, RsUnique
<1>6. LsbPlace'
  BY <1>1, <1>2, <1>3 DEF PlaceInv, LsbPlace, LsbFits
<1>7. LsbOrder'
  BY <1>1, <1>2 DEF PlaceInv, LsbOrder
<1>8. HasPlace'
  <2>1. \A t : (InRs(t)' <=> InRs(t)) /\ (InLsb(t)' <=> InLsb(t))
    BY <1>1 DEF InRs, InLsb
  <2>2. \A t : Placed(t)' <=> Placed(t)
    BY <1>2, <1>3 DEF Placed
  <2>3. QED
    BY <2>1, <2>2 DEF PlaceInv, HasPlace
<1>9. QED
  BY <1>4, <1>5, <1>6, <1>7, <1>8 DEF PlaceInv

LEMMA NotifyPlace ==
  ASSUME RobOK, TInv, PlaceInv, NotifyStore
  PROVE  PlaceInv'
<1>1. PICK k \in LSB!Position :
        /\ is_store(LSB!At(k).op) /\ LSB!At(k).state = "DONE"
        /\ ROB!write_result(LSB!At(k).tag, 0)
  BY DEF NotifyStore, LSB!DoneStoreTags
<1> PICK t : t = LSB!At(k).tag
  OBVIOUS
<1>2. /\ t \in Tag /\ InFlight(t) /\ robEntries'[t].state = "DONE"
      /\ \A u \in Tag : robEntries'[u].info = robEntries[u].info /\ ROB!Age(u)' = ROB!Age(u)
      /\ \A u \in Tag \ {t} : robEntries'[u] = robEntries[u]
  BY <1>1, WriteEffect
<1>3. is_store(robEntries[t].info.op)
  BY <1>1 DEF PlaceInv, LsbPlace, LsbFits
<1>4. /\ UNCHANGED <<rs, lsbEntries, lsbHead, lsbTail, lsbCount>>
  BY DEF NotifyStore, lsbVars
<1>5. LSB!Position' = LSB!Position /\ \A j : LSB!At(j)' = LSB!At(j)
  BY <1>4 DEF LSB!Position, LSB!At, LSB!phys
<1>6. RsPlace'
  <2> SUFFICES ASSUME NEW s \in Station, NEW i \in RS!RSlot(s), rs[s][i].busy
               PROVE  RsFits(rs[s][i])'
    BY <1>4 DEF RsPlace
  <2>1. RsFits(rs[s][i])
    BY DEF PlaceInv, RsPlace
  <2>2. rs[s][i].tag # t
    BY <1>3, <2>1, OpKinds DEF RsFits
  <2>3. QED
    BY <1>2, <1>4, <2>1, <2>2 DEF RsFits, InFlight
<1>7. RsUnique'
  BY <1>4 DEF PlaceInv, RsUnique
<1>8. LsbPlace'
  <2> SUFFICES ASSUME NEW j \in LSB!Position
               PROVE  LsbFits(LSB!At(j))'
    BY <1>5 DEF LsbPlace
  <2>1. LsbFits(LSB!At(j))
    BY DEF PlaceInv, LsbPlace
  <2>2. CASE LSB!At(j).tag = t
    <3>1. j = k
      BY <2>2, LsbInjective DEF PlaceInv, TInv, LsbT
    <3>2. QED
      BY <1>1, <1>2, <1>3, <1>5, <2>1, <2>2, <3>1, OpKinds DEF LsbFits, Live
  <2>3. CASE LSB!At(j).tag # t
    BY <1>2, <1>5, <2>1, <2>3 DEF LsbFits, Live, InFlight
  <2>4. QED
    BY <2>2, <2>3
<1>9. LsbOrder'
  BY <1>2, <1>5 DEF PlaceInv, LsbOrder, LsbPlace, LsbFits
<1>10. HasPlace'
  <2>1. \A u : (InRs(u)' <=> InRs(u)) /\ (InLsb(u)' <=> InLsb(u))
    BY <1>4, <1>5 DEF InRs, InLsb
  <2>2. \A u \in Tag : Placed(u)' => Placed(u)
    BY <1>2 DEF Placed, InFlight, Live
  <2>3. QED
    BY <2>1, <2>2 DEF PlaceInv, HasPlace
<1>11. QED
  BY <1>6, <1>7, <1>8, <1>9, <1>10 DEF PlaceInv

LEMMA BroadcastPlace ==
  ASSUME RobOK, TInv, PlaceInv, BroadcastStation
  PROVE  PlaceInv'
<1>1. PICK k \in DOMAIN StationOrder :
        /\ RS!pop_result(StationOrder[k])
        /\ ROB!write_result(RS!Popped(StationOrder[k]).tag, RS!Popped(StationOrder[k]).result)
        /\ UNCHANGED lsbVars
  BY DEF BroadcastStation
<1> PICK s \in Station : s = StationOrder[k]
  BY DEF Station
<1>2. PICK d \in RS!RSlot(s) :
        /\ RS!Popped(s) = rs[s][d] /\ rs[s][d].busy /\ rs[s][d].done /\ ~rs'[s][d].busy
        /\ \A u \in Station : \A j \in RS!RSlot(u) : u # s \/ j # d => rs'[u][j] = rs[u][j]
  BY <1>1, RsPopEffect DEF TInv
<1> PICK t : t = rs[s][d].tag
  OBVIOUS
<1>3. /\ t \in Tag /\ InFlight(t) /\ robEntries'[t].state = "DONE"
      /\ \A u \in Tag : robEntries'[u].info = robEntries[u].info /\ ROB!Age(u)' = ROB!Age(u)
      /\ \A u \in Tag \ {t} : robEntries'[u] = robEntries[u]
  BY <1>1, <1>2, WriteEffect
<1>4. ~ToLsb(robEntries[t].info.op)
  BY <1>2 DEF PlaceInv, RsPlace, RsFits
<1>5. LSB!Position' = LSB!Position /\ \A j : LSB!At(j)' = LSB!At(j)
  BY <1>1 DEF LSB!Position, LSB!At, LSB!phys, lsbVars
<1>6. \A u \in Station : \A j \in RS!RSlot(u) :
        rs'[u][j].busy => rs'[u][j] = rs[u][j] /\ rs[u][j].tag # t
  BY <1>2 DEF PlaceInv, RsUnique
<1>7. RsPlace'
  <2> SUFFICES ASSUME NEW u \in Station, NEW j \in RS!RSlot(u), rs'[u][j].busy
               PROVE  RsFits(rs[u][j])'
    BY DEF RsPlace
  <2>1. RsFits(rs[u][j]) /\ rs'[u][j] = rs[u][j] /\ rs[u][j].tag # t
    BY <1>6 DEF PlaceInv, RsPlace
  <2>2. QED
    BY <1>3, <2>1 DEF RsFits, InFlight
<1>8. RsUnique'
  BY <1>6 DEF PlaceInv, RsUnique
<1>9. LsbPlace'
  <2> SUFFICES ASSUME NEW j \in LSB!Position
               PROVE  LsbFits(LSB!At(j))'
    BY <1>5 DEF LsbPlace
  <2>1. LsbFits(LSB!At(j))
    BY DEF PlaceInv, LsbPlace
  <2>2. LSB!At(j).tag # t
    BY <1>4, <2>1 DEF LsbFits
  <2>3. QED
    BY <1>3, <1>5, <2>1, <2>2 DEF LsbFits, Live, InFlight
<1>10. LsbOrder'
  BY <1>3, <1>5 DEF PlaceInv, LsbOrder, LsbPlace, LsbFits
<1>11. HasPlace'
  <2> SUFFICES ASSUME NEW u \in Tag, Placed(u)'
               PROVE  InRs(u)' \/ InLsb(u)'
    BY DEF HasPlace
  <2>1. Placed(u) /\ u # t
    BY <1>3, <1>4, OpKinds DEF Placed, InFlight, Live
  <2>2. CASE InRs(u)
    BY <1>2, <2>1, <2>2 DEF InRs
  <2>3. CASE InLsb(u)
    BY <1>5, <2>3 DEF InLsb
  <2>4. QED
    BY <2>1, <2>2, <2>3 DEF PlaceInv, HasPlace
<1>12. QED
  BY <1>7, <1>8, <1>9, <1>10, <1>11 DEF PlaceInv

(* The LSB after its head has gone: position k is what k + 1 was. *)
LEMMA LsbShifted ==
  ASSUME RobOK, LsbShape, PlaceInv, ~LSB!empty, LSB!Pop
  PROVE  /\ 0 \in LSB!Position /\ LSB!At(0) = lsbEntries[lsbHead]
         /\ \A k \in LSB!Position' : k + 1 \in LSB!Position /\ LSB!At(k)' = LSB!At(k + 1)
         /\ \A k \in LSB!Position' : LSB!At(k)'.tag # LSB!At(0).tag
         /\ \A j, k \in LSB!Position' :
              j < k => ROB!Age(LSB!At(j + 1).tag) < ROB!Age(LSB!At(k + 1).tag)
         /\ \A t : InLsb(t) => InLsb(t)' \/ t = LSB!At(0).tag
<1>1. /\ lsbCount' = lsbCount - 1 /\ lsbCount \in 1 .. LsbSize
      /\ LSB!At(0) = lsbEntries[lsbHead]
      /\ \A k \in 0 .. lsbCount - 2 : LSB!At(k)' = LSB!At(k + 1)
  BY LsbPopEffect
<1>2. lsbCount \in Nat
  BY <1>1, Sizes
<1>3. LSB!Position' = 0 .. lsbCount - 2 /\ LSB!Position = 0 .. lsbCount - 1
  BY <1>1, <1>2 DEF LSB!Position
<1>4. 0 \in LSB!Position /\ \A k \in LSB!Position' : k + 1 \in LSB!Position /\ k \in Int
  BY <1>1, <1>2, <1>3
<1>5. \A k \in LSB!Position' : LSB!At(k)' = LSB!At(k + 1)
  BY <1>1, <1>3
<1>6. ASSUME NEW k \in LSB!Position'
      PROVE  LSB!At(k)'.tag # LSB!At(0).tag
  <2>1. k + 1 \in LSB!Position /\ k + 1 # 0
    BY <1>3, <1>4
  <2>2. QED
    BY <1>4, <1>5, <2>1, LsbInjective DEF PlaceInv
<1>7. ASSUME NEW j \in LSB!Position', NEW k \in LSB!Position', j < k
      PROVE  ROB!Age(LSB!At(j + 1).tag) < ROB!Age(LSB!At(k + 1).tag)
  <2>1. j + 1 < k + 1
    BY <1>4, <1>7
  <2>2. QED
    BY <1>4, <2>1 DEF PlaceInv, LsbOrder
<1>8. ASSUME NEW t, InLsb(t), t # LSB!At(0).tag
      PROVE  InLsb(t)'
  <2>1. PICK k \in LSB!Position : LSB!At(k).tag = t
    BY <1>8 DEF InLsb
  <2>2. k - 1 \in LSB!Position' /\ (k - 1) + 1 = k
    BY <1>2, <1>3, <1>8, <2>1
  <2>3. LSB!At(k - 1)'.tag = t
    BY <1>5, <2>1, <2>2
  <2>4. QED
    BY <2>2, <2>3 DEF InLsb
<1>9. QED
  BY <1>1, <1>4, <1>5, <1>6, <1>7, <1>8

LEMMA LoadPlace ==
  ASSUME RobOK, TInv, PlaceInv, BroadcastLoad
  PROVE  PlaceInv'
<1>1. /\ LSB!has_load_result /\ LSB!Pop /\ ~LSB!empty
      /\ ROB!write_result(lsbEntries[lsbHead].tag, lsbEntries[lsbHead].result)
      /\ UNCHANGED rs
  BY DEF BroadcastLoad, LSB!pop_load_result, LSB!has_load_result
<1>2. /\ 0 \in LSB!Position /\ LSB!At(0) = lsbEntries[lsbHead]
      /\ \A k \in LSB!Position' : k + 1 \in LSB!Position /\ LSB!At(k)' = LSB!At(k + 1)
      /\ \A k \in LSB!Position' : LSB!At(k)'.tag # LSB!At(0).tag
      /\ \A j, k \in LSB!Position' :
           j < k => ROB!Age(LSB!At(j + 1).tag) < ROB!Age(LSB!At(k + 1).tag)
      /\ \A t : InLsb(t) => InLsb(t)' \/ t = LSB!At(0).tag
  BY <1>1, LsbShifted DEF TInv, LsbT
<1> PICK t : t = LSB!At(0).tag
  OBVIOUS
<1>3. /\ t \in Tag /\ InFlight(t) /\ robEntries'[t].state = "DONE"
      /\ \A u \in Tag : robEntries'[u].info = robEntries[u].info /\ ROB!Age(u)' = ROB!Age(u)
      /\ \A u \in Tag \ {t} : robEntries'[u] = robEntries[u]
  BY <1>1, <1>2, WriteEffect
<1>4. is_load(robEntries[t].info.op)
  BY <1>1, <1>2 DEF PlaceInv, LsbPlace, LsbFits, LSB!has_load_result
<1>5. RsPlace'
  <2> SUFFICES ASSUME NEW s \in Station, NEW i \in RS!RSlot(s), rs[s][i].busy
               PROVE  RsFits(rs[s][i])'
    BY <1>1 DEF RsPlace
  <2>1. RsFits(rs[s][i])
    BY DEF PlaceInv, RsPlace
  <2>2. rs[s][i].tag # t
    BY <1>4, <2>1, OpKinds DEF RsFits
  <2>3. QED
    BY <1>1, <1>3, <2>1, <2>2 DEF RsFits, InFlight
<1>6. RsUnique'
  BY <1>1 DEF PlaceInv, RsUnique
<1>7. LsbPlace'
  <2> SUFFICES ASSUME NEW k \in LSB!Position'
               PROVE  LsbFits(LSB!At(k))'
    BY DEF LsbPlace
  <2> PICK e : e = LSB!At(k)'
    OBVIOUS
  <2>1. LsbFits(e) /\ e.tag # t
    BY <1>2 DEF PlaceInv, LsbPlace
  <2>2. QED
    BY <1>3, <2>1 DEF LsbFits, Live, InFlight
<1>8. LsbOrder'
  <2> SUFFICES ASSUME NEW j \in LSB!Position', NEW k \in LSB!Position', j < k
               PROVE  (ROB!Age(LSB!At(j).tag) < ROB!Age(LSB!At(k).tag))'
    BY DEF LsbOrder
  <2> PICK a, b : a = LSB!At(j + 1).tag /\ b = LSB!At(k + 1).tag
    OBVIOUS
  <2>1. a \in Tag /\ b \in Tag /\ ROB!Age(a) < ROB!Age(b)
    BY <1>2 DEF PlaceInv, LsbPlace, LsbFits
  <2>2. LSB!At(j)'.tag = a /\ LSB!At(k)'.tag = b
    BY <1>2
  <2>3. QED
    BY <1>3, <2>1, <2>2
<1>9. HasPlace'
  <2> SUFFICES ASSUME NEW u \in Tag, Placed(u)'
               PROVE  InRs(u)' \/ InLsb(u)'
    BY DEF HasPlace
  <2>1. Placed(u) /\ u # t
    BY <1>3, <1>4, OpKinds DEF Placed, InFlight, Live
  <2>2. CASE InRs(u)
    BY <1>1, <2>2 DEF InRs
  <2>3. CASE InLsb(u)
    BY <1>2, <2>1, <2>3
  <2>4. QED
    BY <2>1, <2>2, <2>3 DEF PlaceInv, HasPlace
<1>10. QED
  BY <1>5, <1>6, <1>7, <1>8, <1>9 DEF PlaceInv

LEMMA CommitPlace ==
  ASSUME RobOK, TInv, PlaceInv, AnyCommit
  PROVE  PlaceInv'
<1>1. Committing /\ ROB!commit /\ ROB!head_ready /\ UNCHANGED rs
  BY CommitIs DEF Committing, ROB!commit
<1> PICK h \in Tag : h = robHead
  BY DEF RobOK, RobShape
<1>2. /\ robEntries[h].state = "DONE" /\ robEntries'[h].state = "IDLE"
      /\ \A t \in Tag \ {h} : robEntries'[t] = robEntries[t] /\ ROB!Age(t)' = ROB!Age(t) - 1
  BY <1>1, CommitEffect
<1>3. \A t \in Tag : ROB!Age(t) \in Int
  BY AgeInjective DEF RobOK
<1>4. RsPlace'
  <2> SUFFICES ASSUME NEW s \in Station, NEW i \in RS!RSlot(s), rs[s][i].busy
               PROVE  RsFits(rs[s][i])'
    BY <1>1 DEF RsPlace
  <2>1. RsFits(rs[s][i])
    BY DEF PlaceInv, RsPlace
  <2>2. rs[s][i].tag # h
    BY <1>2, <2>1 DEF RsFits, InFlight
  <2>3. QED
    BY <1>1, <1>2, <2>1, <2>2 DEF RsFits, InFlight
<1>5. RsUnique'
  BY <1>1 DEF PlaceInv, RsUnique
<1>6. \A t \in Tag : Placed(t)' => Placed(t) /\ t # h
  BY <1>2 DEF Placed, InFlight, Live
<1>7. CASE CommitStore
  <2>1. LSB!Pop /\ ~LSB!empty /\ is_store(robEntries[h].info.op)
    BY <1>7 DEF CommitStore, LSB!commit_store, LSB!can_commit_store, Entry
  <2>2. LSB!At(0).tag = h
    BY <1>1, <2>1, StoreAtHead DEF TInv, LsbT, Entry
  <2>3. /\ 0 \in LSB!Position /\ LSB!At(0) = lsbEntries[lsbHead]
        /\ \A k \in LSB!Position' : k + 1 \in LSB!Position /\ LSB!At(k)' = LSB!At(k + 1)
        /\ \A k \in LSB!Position' : LSB!At(k)'.tag # h
        /\ \A j, k \in LSB!Position' :
             j < k => ROB!Age(LSB!At(j + 1).tag) < ROB!Age(LSB!At(k + 1).tag)
        /\ \A t : InLsb(t) => InLsb(t)' \/ t = h
    BY <2>1, <2>2, LsbShifted DEF TInv, LsbT
  <2>4. LsbPlace'
    <3> SUFFICES ASSUME NEW k \in LSB!Position'
                 PROVE  LsbFits(LSB!At(k))'
      BY DEF LsbPlace
    <3> PICK e : e = LSB!At(k)'
      OBVIOUS
    <3>1. LsbFits(e) /\ e.tag # h
      BY <2>3 DEF PlaceInv, LsbPlace
    <3>2. QED
      BY <1>2, <3>1 DEF LsbFits, Live, InFlight
  <2>5. LsbOrder'
    <3> SUFFICES ASSUME NEW j \in LSB!Position', NEW k \in LSB!Position', j < k
                 PROVE  (ROB!Age(LSB!At(j).tag) < ROB!Age(LSB!At(k).tag))'
      BY DEF LsbOrder
    <3> PICK a, b : a = LSB!At(j + 1).tag /\ b = LSB!At(k + 1).tag
      OBVIOUS
    <3>1. a \in Tag /\ b \in Tag /\ ROB!Age(a) < ROB!Age(b)
      BY <2>3 DEF PlaceInv, LsbPlace, LsbFits
    <3>2. LSB!At(j)'.tag = a /\ LSB!At(k)'.tag = b /\ a # h /\ b # h
      BY <2>3
    <3>3. ROB!Age(a)' < ROB!Age(b)'
      BY <1>2, <1>3, <3>1, <3>2
    <3>4. QED
      BY <3>2, <3>3
  <2>6. HasPlace'
    <3> SUFFICES ASSUME NEW u \in Tag, Placed(u)'
                 PROVE  InRs(u)' \/ InLsb(u)'
      BY DEF HasPlace
    <3>1. CASE InRs(u)
      BY <1>1, <3>1 DEF InRs
    <3>2. CASE InLsb(u)
      BY <1>6, <2>3, <3>2
    <3>3. QED
      BY <1>6, <3>1, <3>2 DEF PlaceInv, HasPlace
  <2>7. QED
    BY <1>4, <1>5, <2>4, <2>5, <2>6 DEF PlaceInv
<1>8. CASE ~CommitStore
  <2>1. UNCHANGED lsbVars /\ ~is_store(robEntries[h].info.op)
    BY <1>8 DEF AnyCommit, CommitHalt, CommitBranch, CommitJump, CommitResult, Entry,
                is_branch, is_jump, is_store, Branches, Jumps, Stores
  <2>2. LSB!Position' = LSB!Position /\ \A j : LSB!At(j)' = LSB!At(j)
    BY <2>1 DEF LSB!Position, LSB!At, LSB!phys, lsbVars
  <2>3. \A k \in LSB!Position : LsbFits(LSB!At(k)) /\ LSB!At(k).tag # h
    BY <1>2, <2>1, OpKinds DEF PlaceInv, LsbPlace, LsbFits, InFlight
  <2>4. LsbPlace'
    <3> SUFFICES ASSUME NEW k \in LSB!Position
                 PROVE  LsbFits(LSB!At(k))'
      BY <2>2 DEF LsbPlace
    <3>1. QED
      BY <1>2, <2>2, <2>3 DEF LsbFits, Live, InFlight
  <2>5. LsbOrder'
    <3> SUFFICES ASSUME NEW j \in LSB!Position, NEW k \in LSB!Position, j < k
                 PROVE  (ROB!Age(LSB!At(j).tag) < ROB!Age(LSB!At(k).tag))'
      BY <2>2 DEF LsbOrder
    <3> PICK a, b : a = LSB!At(j).tag /\ b = LSB!At(k).tag
      OBVIOUS
    <3>1. a \in Tag /\ b \in Tag /\ ROB!Age(a) < ROB!Age(b) /\ a # h /\ b # h
      BY <2>3 DEF PlaceInv, LsbOrder, LsbFits
    <3>2. ROB!Age(a)' < ROB!Age(b)'
      BY <1>2, <1>3, <3>1
    <3>3. QED
      BY <2>2, <3>2
  <2>6. HasPlace'
    <3>1. \A u : (InRs(u)' <=> InRs(u)) /\ (InLsb(u)' <=> InLsb(u))
      BY <1>1, <2>2 DEF InRs, InLsb
    <3>2. QED
      BY <1>6, <3>1 DEF PlaceInv, HasPlace
  <2>7. QED
    BY <1>4, <1>5, <2>4, <2>5, <2>6 DEF PlaceInv
<1>9. QED
  BY <1>7, <1>8

(* Where a dispatched instruction goes. *)
LEMMA DispatchWhere ==
  ASSUME RobOK, TInv, AnyDispatch
  PROVE  \E a, b \in Operand :
           /\ a = resolve_operand(IQ!peek.rs1) /\ b = resolve_operand(IQ!peek.rs2)
           /\ \/ /\ ToLsb(IQ!peek.op) /\ LSB!issue(IQ!peek, robTail, a, b)
                 /\ UNCHANGED rs
              \/ /\ ~ToLsb(IQ!peek.op)
                 /\ RS!issue(TargetStation(IQ!peek.op), IQ!peek, robTail, a, b)
                 /\ UNCHANGED lsbVars
<1>1. IQ!peek \in Instr /\ try_dispatch(IQ!peek)
  BY DispatchEffect, DispatchIs
<1>2. resolve_operand(IQ!peek.rs1) \in Operand /\ resolve_operand(IQ!peek.rs2) \in Operand
  BY <1>1, ResolveTyped DEF Instr
<1>3. QED
  BY <1>1, <1>2 DEF try_dispatch

LEMMA DispatchPlace ==
  ASSUME RobOK, TInv, PlaceInv, AnyDispatch
  PROVE  PlaceInv'
<1> PICK h \in Tag : h = robTail
  BY DEF RobOK, RobShape
<1> PICK i \in Instr : i = IQ!peek
  BY DispatchEffect
<1>1. /\ robEntries'[h].state = "IN_FLIGHT"
      /\ robEntries'[h].info = [op |-> i.op, rd |-> i.rd, pc |-> i.pc]
      /\ \A t \in Tag \ {h} : robEntries'[t] = robEntries[t]
      /\ \A t \in Tag : ROB!Age(t)' = ROB!Age(t)
      /\ ~Live(h) /\ ROB!Age(h) = robCount
      /\ \A t \in Tag : Live(t) => ROB!Age(t) < robCount
  BY DispatchEffect
<1>2. /\ InFlight(h)' /\ Live(h)' /\ robEntries'[h].info.op = i.op
      /\ \A t \in Tag \ {h} : /\ InFlight(t)' <=> InFlight(t)
                              /\ Live(t)' <=> Live(t)
                              /\ Placed(t)' <=> Placed(t)
      /\ ~InFlight(h)
  BY <1>1 DEF InFlight, Live, Placed
<1>3. ASSUME NEW e, RsFits(e) PROVE e.tag # h /\ RsFits(e)'
  BY <1>1, <1>2, <1>3 DEF RsFits
<1>4. ASSUME NEW e, LsbFits(e) PROVE e.tag # h /\ LsbFits(e)'
  BY <1>1, <1>2, <1>4 DEF LsbFits
<1>5. PICK a \in Operand, b \in Operand :
        \/ ToLsb(i.op) /\ LSB!issue(i, h, a, b) /\ UNCHANGED rs
        \/ ~ToLsb(i.op) /\ RS!issue(TargetStation(i.op), i, h, a, b) /\ UNCHANGED lsbVars
  BY DispatchWhere
<1>6. CASE ToLsb(i.op) /\ LSB!issue(i, h, a, b) /\ UNCHANGED rs
  <2> PICK n : n = lsbCount
    OBVIOUS
  <2>1. /\ lsbCount' = n + 1 /\ n \in 0 .. LsbSize - 1
        /\ \A k \in LSB!Position : LSB!At(k)' = LSB!At(k)
        /\ LSB!At(n)'.state = "WAITING" /\ LSB!At(n)'.op = i.op /\ LSB!At(n)'.tag = h
    BY <1>6, LsbIssueEffect DEF TInv, LsbT
  <2>2. \A k \in LSB!Position' : k \in LSB!Position \/ k = n
    BY <2>1, Sizes DEF LSB!Position
  <2>3. \A k \in LSB!Position : k \in LSB!Position' /\ k < n /\ k \in Int
    BY <2>1, Sizes DEF LSB!Position
  <2>4. n \in LSB!Position'
    BY <2>1, Sizes DEF LSB!Position
  <2>5. RsPlace'
    BY <1>3, <1>6 DEF PlaceInv, RsPlace
  <2>6. RsUnique'
    BY <1>6 DEF PlaceInv, RsUnique
  <2>7. LsbPlace'
    <3> SUFFICES ASSUME NEW k \in LSB!Position'
                 PROVE  LsbFits(LSB!At(k))'
      BY DEF LsbPlace
    <3>1. CASE k = n
      BY <1>2, <1>6, <2>1, <3>1 DEF LsbFits
    <3>2. CASE k \in LSB!Position
      <4> PICK e : e = LSB!At(k)
        OBVIOUS
      <4>1. LsbFits(e) /\ LSB!At(k)' = e
        BY <2>1, <3>2 DEF PlaceInv, LsbPlace
      <4>2. LsbFits(e)'
        BY <1>4, <4>1
      <4>3. QED
        BY <4>1, <4>2 DEF LsbFits
    <3>3. QED
      BY <2>2, <3>1, <3>2
  <2>8. LsbOrder'
    <3> SUFFICES ASSUME NEW j \in LSB!Position', NEW k \in LSB!Position', j < k
                 PROVE  (ROB!Age(LSB!At(j).tag) < ROB!Age(LSB!At(k).tag))'
      BY DEF LsbOrder
    <3>1. j \in LSB!Position
      BY <2>1, <2>2, <2>3
    <3> PICK c : c = LSB!At(j).tag
      OBVIOUS
    <3>2. c \in Tag /\ Live(c) /\ LSB!At(j)'.tag = c
      BY <2>1, <3>1 DEF PlaceInv, LsbPlace, LsbFits
    <3>3. CASE k = n
      <4>1. ROB!Age(c)' < ROB!Age(h)'
        BY <1>1, <3>2
      <4>2. QED
        BY <2>1, <3>2, <3>3, <4>1
    <3>4. CASE k \in LSB!Position
      <4> PICK d : d = LSB!At(k).tag
        OBVIOUS
      <4>1. d \in Tag /\ LSB!At(k)'.tag = d
        BY <2>1, <3>4 DEF PlaceInv, LsbPlace, LsbFits
      <4>2. ROB!Age(c) < ROB!Age(d)
        BY <3>1, <3>4 DEF PlaceInv, LsbOrder
      <4>3. QED
        BY <1>1, <3>2, <4>1, <4>2
    <3>5. QED
      BY <2>2, <3>3, <3>4
  <2>9. HasPlace'
    <3> SUFFICES ASSUME NEW u \in Tag, Placed(u)'
                 PROVE  InRs(u)' \/ InLsb(u)'
      BY DEF HasPlace
    <3>1. CASE u = h
      BY <2>1, <2>4, <3>1 DEF InLsb
    <3>2. CASE u # h
      <4>1. InRs(u) \/ InLsb(u)
        BY <1>2, <3>2 DEF PlaceInv, HasPlace
      <4>2. InRs(u) => InRs(u)'
        BY <1>6 DEF InRs
      <4>3. InLsb(u) => InLsb(u)'
        BY <2>1, <2>3 DEF InLsb
      <4>4. QED
        BY <4>1, <4>2, <4>3
    <3>3. QED
      BY <3>1, <3>2
  <2>10. QED
    BY <2>5, <2>6, <2>7, <2>8, <2>9 DEF PlaceInv
<1>7. CASE ~ToLsb(i.op) /\ RS!issue(TargetStation(i.op), i, h, a, b) /\ UNCHANGED lsbVars
  <2> PICK s \in Station : s = TargetStation(i.op)
    BY TargetIsStation
  <2>1. PICK d \in RS!RSlot(s) :
          /\ ~rs[s][d].busy /\ rs'[s][d].busy /\ rs'[s][d].op = i.op /\ rs'[s][d].tag = h
          /\ \A u \in Station : \A j \in RS!RSlot(u) :
               u # s \/ j # d => rs'[u][j] = rs[u][j]
    BY <1>7, RsIssueEffect DEF TInv
  <2>2. LSB!Position' = LSB!Position /\ \A j : LSB!At(j)' = LSB!At(j)
    BY <1>7 DEF LSB!Position, LSB!At, LSB!phys, lsbVars
  <2>3. RsPlace'
    <3> SUFFICES ASSUME NEW u \in Station, NEW j \in RS!RSlot(u), rs'[u][j].busy
                 PROVE  RsFits(rs[u][j])'
      BY DEF RsPlace
    <3>1. CASE u = s /\ j = d
      BY <1>2, <1>7, <2>1, <3>1 DEF RsFits
    <3>2. CASE u # s \/ j # d
      <4> PICK e : e = rs[u][j]
        OBVIOUS
      <4>1. rs'[u][j] = e /\ RsFits(e)
        BY <2>1, <3>2 DEF PlaceInv, RsPlace
      <4>2. RsFits(e)'
        BY <1>3, <4>1
      <4>3. QED
        BY <4>1, <4>2 DEF RsFits
    <3>3. QED
      BY <3>1, <3>2
  <2>4. \A u \in Station : \A j \in RS!RSlot(u) : rs[u][j].busy => rs[u][j].tag # h
    BY <1>3 DEF PlaceInv, RsPlace
  <2>5. RsUnique'
    BY <2>1, <2>4 DEF PlaceInv, RsUnique
  <2>6. LsbPlace'
    <3> SUFFICES ASSUME NEW k \in LSB!Position
                 PROVE  LsbFits(LSB!At(k))'
      BY <2>2 DEF LsbPlace
    <3> PICK e : e = LSB!At(k)
      OBVIOUS
    <3>1. LsbFits(e) /\ LSB!At(k)' = e
      BY <2>2 DEF PlaceInv, LsbPlace
    <3>2. LsbFits(e)'
      BY <1>4, <3>1
    <3>3. QED
      BY <3>1, <3>2 DEF LsbFits
  <2>7. LsbOrder'
    BY <1>1, <2>2 DEF PlaceInv, LsbOrder, LsbPlace, LsbFits
  <2>8. HasPlace'
    <3> SUFFICES ASSUME NEW u \in Tag, Placed(u)'
                 PROVE  InRs(u)' \/ InLsb(u)'
      BY DEF HasPlace
    <3>1. CASE u = h
      BY <2>1, <3>1 DEF InRs
    <3>2. CASE u # h
      <4>1. InRs(u) \/ InLsb(u)
        BY <1>2, <3>2 DEF PlaceInv, HasPlace
      <4>2. InRs(u) => InRs(u)'
        BY <2>1 DEF InRs
      <4>3. InLsb(u) => InLsb(u)'
        BY <2>2 DEF InLsb
      <4>4. QED
        BY <4>1, <4>2, <4>3
    <3>3. QED
      BY <3>1, <3>2
  <2>9. QED
    BY <2>3, <2>5, <2>6, <2>7, <2>8 DEF PlaceInv
<1>8. QED
  BY <1>5, <1>6, <1>7

LEMMA OtherPlace ==
  ASSUME RobOK, TInv, PlaceInv, AnyParse \/ AnyOther \/ UNCHANGED vars
  PROVE  PlaceInv'
<1>1. UNCHANGED robVars
  BY OtherRob
<1>2. CASE Execute
  <2>1. RS!tick /\ LSB!tick
    BY <1>2 DEF Execute
  <2>2. \A s \in Station : \A i \in RS!RSlot(s) : Advanced(rs[s][i], rs'[s][i])
    BY <2>1, RsTickEffect DEF TInv
  <2>3. lsbCount' = lsbCount /\ \A k \in LSB!Position : LsbAdvanced(LSB!At(k), LSB!At(k)')
    BY <2>1, LsbTickEffect DEF TInv, LsbT
  <2>4. QED
    BY <1>1, <2>2, <2>3, PlaceKept DEF Advanced, LsbAdvanced
<1>3. CASE Snoop
  <2>1. RS!snoop /\ LSB!snoop
    BY <1>3 DEF Snoop
  <2>2. \A s \in Station : \A i \in RS!RSlot(s) :
           rs'[s][i].busy = rs[s][i].busy /\ rs'[s][i].op = rs[s][i].op
             /\ rs'[s][i].tag = rs[s][i].tag
    BY <2>1, RsSnoopEffect DEF TInv
  <2>3. lsbCount' = lsbCount /\ \A k \in LSB!Position :
           /\ LSB!At(k)'.op = LSB!At(k).op /\ LSB!At(k)'.tag = LSB!At(k).tag
           /\ LSB!At(k)'.state = LSB!At(k).state
    <3>1. lsbCount' = lsbCount /\ \A k \in LSB!Position :
            LSB!At(k)' = IF LSB!At(k).state \in {"IDLE", "DONE"} THEN LSB!At(k)
                                                                 ELSE CDB!Captured(LSB!At(k))
      BY <2>1, LsbSnoopEffect DEF TInv, LsbT
    <3>2. \A k \in LSB!Position :
            /\ CDB!Captured(LSB!At(k)).state = LSB!At(k).state
            /\ CDB!Captured(LSB!At(k)).op = LSB!At(k).op
            /\ CDB!Captured(LSB!At(k)).tag = LSB!At(k).tag
      BY AtTyped, CapturedLsb DEF TInv, LsbT
    <3>3. QED
      BY <3>1, <3>2
  <2>4. QED
    BY <1>1, <2>2, <2>3, PlaceKept
<1>4. CASE ~Execute /\ ~Snoop
  <2>1. UNCHANGED <<rs, lsbEntries, lsbHead, lsbTail, lsbCount>>
    BY <1>4 DEF AnyOther, AnyParse, vars, Parse, LoadProgram, NoInstructions,
         Returned, pipeVars, lsbVars, StoresNotified, BroadcastEnds, CommitNothing,
         Fetch, FetchStalled, DispatchEnds, NextCycle, Report
  <2>2. \A j : LSB!At(j)' = LSB!At(j)
    BY <2>1 DEF LSB!At, LSB!phys
  <2>3. QED
    BY <1>1, <2>1, <2>2, PlaceKept
<1>5. QED
  BY <1>2, <1>3, <1>4

LEMMA PlaceStep == RobOK /\ TInv /\ PlaceInv /\ [Next]_vars => PlaceInv'
  BY StepKinds, CommitPlace, DispatchPlace, OtherPlace, NotifyPlace, BroadcastPlace, LoadPlace
     DEF AnyWrite

(* Every unfinished instruction is in exactly one station or LSB slot, so  *)
(* that its result comes exactly once, for every program and every size of *)
(* the buffers (sim.cpp try_dispatch; pop_result, pop_load_result,         *)
(* commit_store).                                                          *)
THEOREM PlacesKept == Spec => []OneUnitPerEntry
<1>1. Init => RobOK /\ TInv /\ PlaceInv
  BY RobInit, TInvInit, PlaceInit
<1>2. RobOK /\ TInv /\ PlaceInv /\ [Next]_vars => (RobOK /\ TInv /\ PlaceInv)'
  BY RobStep, TInvStep, PlaceStep
<1>3. RobOK /\ TInv /\ PlaceInv => OneUnitPerEntry
  BY PlaceMeans
<1>4. QED
  BY <1>1, <1>2, <1>3, PTL DEF Spec

(* The LSB is in program order and its head is the store the ROB retires,  *)
(* which commit_store takes on trust (load_store_buffer.cpp,               *)
(* commit_unit.cpp).                                                       *)
THEOREM LsbOrderKept == Spec => []LsbInProgramOrder
<1>1. Init => RobOK /\ TInv /\ PlaceInv
  BY RobInit, TInvInit, PlaceInit
<1>2. RobOK /\ TInv /\ PlaceInv /\ [Next]_vars => (RobOK /\ TInv /\ PlaceInv)'
  BY RobStep, TInvStep, PlaceStep
<1>3. RobOK /\ TInv /\ PlaceInv => LsbInProgramOrder
  BY PlaceMeans
<1>4. QED
  BY <1>1, <1>2, <1>3, PTL DEF Spec
-----------------------------------------------------------------------------
(* The wake-up of the operands.                                            *)

(* Whoever is on the bus is finished; or has just retired, and then its    *)
(* slot is the last one the next allocations come to.                      *)
BusInv ==
  /\ \A q \in Tag : CDB!OnBus(q) =>
       \/ robEntries[q].state = "DONE"
       \/ phase \in {"fetch", "dispatch", "next_cycle"} /\ ROB!Age(q) = RobSize - 1
  /\ phase \notin {"broadcast", "snoop", "commit", "fetch", "dispatch", "next_cycle"} =>
       cdb = << >>

Pending(q) ==
  \/ InFlight(q) /\ ~CDB!OnBus(q)
  \/ phase \in {"broadcast", "snoop"} /\ CDB!OnBus(q)

(* What the instruction with tag t may be waiting for. *)
Awaits(t, q) ==
  q # NoTag => /\ q \in Tag /\ Live(q) /\ robEntries[q].info.rd # NoReg
               /\ ROB!Age(q) < ROB!Age(t) /\ Pending(q)

(* An entry that executes or is finished waits for nothing.                *)
RsWake(e) ==
  /\ Awaits(e.tag, e.qj) /\ Awaits(e.tag, e.qk)
  /\ e.done \/ e.rem # 0 => e.qj = NoTag /\ e.qk = NoTag

LsbWake(e) ==
  /\ Awaits(e.tag, e.qj) /\ Awaits(e.tag, e.qk)
  /\ e.state # "WAITING" => e.qj = NoTag
  /\ is_load(e.op) \/ e.state = "DONE" => e.qk = NoTag

WakeInv ==
  /\ BusInv
  /\ \A s \in Station : \A i \in RS!RSlot(s) : rs[s][i].busy => RsWake(rs[s][i])
  /\ \A k \in LSB!Position : LsbWake(LSB!At(k))

LEMMA WakeMeans == RobOK /\ StallInv /\ PlaceInv /\ WakeInv => NoLostWakeup
<1> SUFFICES ASSUME RobOK, StallInv, PlaceInv, WakeInv,
                    NEW e \in RsBusy \cup LsbLive, NEW q \in {e.qj, e.qk} \ {NoTag}
             PROVE  /\ Older(q, e.tag)
                    /\ ~is_jump(robEntries[q].info.op)
                    /\ \/ InFlight(q) /\ ~CDB!OnBus(q)
                       \/ phase \in {"broadcast", "snoop"} /\ CDB!OnBus(q)
  BY DEF NoLostWakeup
<1>1. Awaits(e.tag, q) /\ e.tag \in Tag /\ Live(e.tag)
  <2>1. CASE e \in RsBusy
    <3>1. PICK s \in Station : \E i \in RS!RSlot(s) : rs[s][i].busy /\ e = rs[s][i]
      BY <2>1 DEF RsBusy
    <3>2. RsFits(e) /\ RsWake(e)
      BY <3>1 DEF PlaceInv, RsPlace, WakeInv
    <3>3. QED
      BY <3>2 DEF RsFits, RsWake, InFlight, Live
  <2>2. CASE e \in LsbLive
    <3>1. LsbFits(e) /\ LsbWake(e)
      BY <2>2 DEF LsbLive, PlaceInv, LsbPlace, WakeInv
    <3>2. QED
      BY <3>1 DEF LsbFits, LsbWake
  <2>3. QED
    BY <2>1, <2>2
<1>2. q \in Tag /\ Live(q) /\ ROB!Age(q) < ROB!Age(e.tag) /\ Pending(q)
  BY <1>1 DEF Awaits
<1>3. ~Control(q)
  <2>1. ROB!Age(q) \in Int /\ ROB!Age(e.tag) \in Int
    BY <1>1, <1>2, AgeInjective DEF RobOK
  <2>2. QED
    BY <1>1, <1>2, <2>1 DEF StallInv
<1>4. QED
  BY <1>2, <1>3 DEF Control, ControlOps, is_jump, Older, Pending

LEMMA WakeInit == Init => WakeInv
<1> SUFFICES ASSUME Init PROVE WakeInv
  OBVIOUS
<1>1. cdb = << >> /\ phase = "parse"
  BY DEF Init, CDB!Init
<1>2. \A q : ~CDB!OnBus(q)
  BY <1>1 DEF CDB!OnBus
<1>3. \A s \in Station : \A i \in RS!RSlot(s) : ~rs[s][i].busy
  BY DEF Init, RS!Init, RS!FreeEntry
<1>4. LSB!Position = {}
  BY DEF Init, LSB!Init, LSB!Position
<1>5. QED
  BY <1>1, <1>2, <1>3, <1>4 DEF WakeInv, BusInv

LEMMA EmptyBus ==
  ASSUME cdb = << >>
  PROVE  \A q : ~CDB!OnBus(q)
  BY DEF CDB!OnBus

(* What a broadcast puts on the bus. *)
LEMMA OnBusAfter ==
  ASSUME CdbT, NEW t, NEW v, CDB!broadcast(t, v), NEW q
  PROVE  CDB!OnBus(q)' <=> CDB!OnBus(q) \/ q = t
<1>1. /\ DOMAIN cdb = 1 .. Len(cdb) /\ Len(cdb) \in Nat
      /\ DOMAIN cdb' = 1 .. Len(cdb) + 1
      /\ \A k \in 1 .. Len(cdb) : cdb'[k] = cdb[k]
      /\ cdb'[Len(cdb) + 1].tag = t
  BY DEF CdbT, CDB!broadcast
<1>2. \A k \in 1 .. Len(cdb) + 1 : k \in 1 .. Len(cdb) \/ k = Len(cdb) + 1
  BY <1>1
<1>3. Len(cdb) + 1 \in 1 .. Len(cdb) + 1 /\ \A k \in 1 .. Len(cdb) : k \in 1 .. Len(cdb) + 1
  BY <1>1
<1>4. QED
  BY <1>1, <1>2, <1>3 DEF CDB!OnBus

(* Steps that touch neither the entries of the reorder buffer nor, before  *)
(* the snoop, the bus.                                                     *)
LEMMA QuietSteps ==
  ASSUME AnyParse \/ (AnyOther /\ ~Snoop) \/ UNCHANGED vars
  PROVE  /\ UNCHANGED robVars
         /\ cdb' = cdb \/ (cdb' = << >> /\ phase = "next_cycle")
         /\ phase \in {"broadcast", "snoop"} => phase' \in {"broadcast", "snoop"}
         /\ phase \in {"fetch", "dispatch", "next_cycle"} =>
              phase' \in {"fetch", "dispatch", "next_cycle"} \/ cdb' = << >>
         /\ phase' \notin {"broadcast", "snoop", "commit", "fetch", "dispatch", "next_cycle"} =>
              \/ phase \notin {"broadcast", "snoop", "commit", "fetch", "dispatch", "next_cycle"}
              \/ cdb' = << >>
<1>1. UNCHANGED robVars
  BY OtherRob
<1>2. CASE NextCycle
  BY <1>1, <1>2 DEF NextCycle, CDB!flush
<1>3. CASE ~NextCycle
  <2>1. UNCHANGED cdb
    BY <1>3 DEF AnyOther, AnyParse, vars, Parse, LoadProgram, NoInstructions,
         Returned, pipeVars, Execute, StoresNotified, BroadcastEnds, CommitNothing,
         Fetch, FetchStalled, DispatchEnds, Report
  <2>2. \/ phase' = phase
        \/ phase \in {"broadcast", "snoop"} /\ phase' = "snoop"
        \/ phase = "commit" /\ phase' = "fetch"
        \/ /\ phase \notin {"broadcast", "snoop", "commit", "next_cycle"}
           /\ phase' \in {"update_rob", "broadcast", "execute", "no_instructions", "exit"}
           /\ phase \notin {"fetch", "dispatch"}
        \/ phase \in {"fetch", "dispatch"} /\ phase' \in {"dispatch", "next_cycle"}
    BY <1>3 DEF AnyOther, AnyParse, vars, Parse, LoadProgram, NoInstructions,
         Returned, pipeVars, Execute, StoresNotified, BroadcastEnds, CommitNothing,
         Fetch, FetchStalled, DispatchEnds, Report
  <2>3. QED
    BY <1>1, <2>1, <2>2
<1>4. QED
  BY <1>2, <1>3

LEMMA QuietWake ==
  ASSUME BusInv, AnyParse \/ (AnyOther /\ ~Snoop) \/ UNCHANGED vars
  PROVE  BusInv' /\ \A t, q : Awaits(t, q) => Awaits(t, q)'
<1>1. robEntries' = robEntries /\ \A t : /\ InFlight(t)' <=> InFlight(t)
                                         /\ Live(t)' <=> Live(t)
                                         /\ ROB!Age(t)' = ROB!Age(t)
  BY QuietSteps DEF robVars, InFlight, Live, ROB!Age
<1>2. CASE cdb' = cdb
  <2>1. \A q : CDB!OnBus(q)' <=> CDB!OnBus(q)
    BY <1>2 DEF CDB!OnBus
  <2>2. BusInv'
    <3>1. CASE cdb = << >>
      BY <1>2, <2>1, <3>1, EmptyBus DEF BusInv
    <3>2. CASE cdb # << >>
      BY <1>1, <1>2, <2>1, <3>2, QuietSteps DEF BusInv
    <3>3. QED
      BY <3>1, <3>2
  <2>3. \A q : Pending(q) => Pending(q)'
    BY <1>1, <2>1, QuietSteps DEF Pending
  <2>4. QED
    BY <1>1, <2>2, <2>3 DEF Awaits
<1>3. CASE cdb' = << >> /\ phase = "next_cycle"
  <2>1. \A q : ~CDB!OnBus(q)'
    BY <1>3 DEF CDB!OnBus
  <2>2. BusInv'
    BY <1>3, <2>1 DEF BusInv
  <2>3. \A q : Pending(q) => Pending(q)'
    BY <1>1, <1>3, <2>1 DEF Pending
  <2>4. QED
    BY <1>1, <2>2, <2>3 DEF Awaits
<1>4. QED
  BY <1>2, <1>3, QuietSteps

LEMMA ExecuteWake ==
  ASSUME TInv, PlaceInv, WakeInv, Execute
  PROVE  WakeInv'
<1>1. BusInv' /\ \A t, q : Awaits(t, q) => Awaits(t, q)'
  <2>1. AnyOther /\ ~Snoop
    BY DEF AnyOther, Execute, Snoop
  <2>2. QED
    BY <2>1, QuietWake DEF WakeInv
<1>2. RS!tick /\ LSB!tick
  BY DEF Execute
<1>3. ASSUME NEW s \in Station, NEW i \in RS!RSlot(s), rs'[s][i].busy
      PROVE  RsWake(rs[s][i])'
  <2> PICK e, f : e = rs[s][i] /\ f = rs'[s][i]
    OBVIOUS
  <2>1. Advanced(e, f)
    BY <1>2, RsTickEffect DEF TInv
  <2>2. e.busy /\ RsWake(e)
    BY <1>3, <2>1 DEF Advanced, WakeInv
  <2>3. Awaits(f.tag, f.qj)' /\ Awaits(f.tag, f.qk)'
    BY <1>1, <2>1, <2>2 DEF Advanced, RsWake
  <2>4. f.done \/ f.rem # 0 => f.qj = NoTag /\ f.qk = NoTag
    BY <2>1, <2>2 DEF Advanced, RsWake
  <2>5. QED
    BY <2>3, <2>4 DEF RsWake
<1>4. LSB!Position' = LSB!Position /\ \A k \in LSB!Position : LsbAdvanced(LSB!At(k), LSB!At(k)')
  BY <1>2, LsbTickEffect DEF TInv, LsbT, LSB!Position
<1>5. ASSUME NEW k \in LSB!Position
      PROVE  LsbWake(LSB!At(k))'
  <2> PICK e, f : e = LSB!At(k) /\ f = LSB!At(k)'
    OBVIOUS
  <2>1. LsbAdvanced(e, f) /\ LsbWake(e)
    BY <1>4 DEF WakeInv
  <2>2. Awaits(f.tag, f.qj)' /\ Awaits(f.tag, f.qk)'
    BY <1>1, <2>1 DEF LsbAdvanced, LsbWake
  <2>3. f.state # "WAITING" => f.qj = NoTag
    BY <2>1 DEF LsbAdvanced, LsbWake
  <2>4. is_load(f.op) \/ f.state = "DONE" => f.qk = NoTag
    <3>1. CASE is_load(f.op)
      BY <2>1, <3>1 DEF LsbAdvanced, LsbWake
    <3>2. CASE f.state = "DONE" /\ is_store(e.op)
      BY <2>1, <3>2 DEF LsbAdvanced, LsbWake
    <3>3. is_load(e.op) \/ is_store(e.op)
      BY OpKinds DEF PlaceInv, LsbPlace, LsbFits
    <3>4. QED
      BY <2>1, <3>1, <3>2, <3>3 DEF LsbAdvanced
  <2>5. QED
    BY <2>2, <2>3, <2>4 DEF LsbWake
<1>6. QED
  BY <1>1, <1>3, <1>4, <1>5 DEF WakeInv

LEMMA QuietKept ==
  ASSUME WakeInv, AnyParse \/ (AnyOther /\ ~Snoop /\ ~Execute) \/ UNCHANGED vars
  PROVE  WakeInv'
<1>1. BusInv' /\ \A t, q : Awaits(t, q) => Awaits(t, q)'
  BY QuietWake DEF WakeInv
<1>2. UNCHANGED <<rs, lsbEntries, lsbHead, lsbTail, lsbCount>>
  BY DEF AnyOther, AnyParse, vars, Parse, LoadProgram, NoInstructions,
         Returned, pipeVars, lsbVars, StoresNotified, BroadcastEnds, CommitNothing,
         Fetch, FetchStalled, DispatchEnds, NextCycle, Report
<1>3. LSB!Position' = LSB!Position /\ \A k : LSB!At(k)' = LSB!At(k)
  BY <1>2 DEF LSB!Position, LSB!At, LSB!phys
<1>4. \A s \in Station : \A i \in RS!RSlot(s) : rs'[s][i].busy => RsWake(rs[s][i])'
  BY <1>1, <1>2 DEF WakeInv, RsWake
<1>5. \A k \in LSB!Position : LsbWake(LSB!At(k))'
  BY <1>1, <1>3 DEF WakeInv, LsbWake
<1>6. QED
  BY <1>1, <1>3, <1>4, <1>5 DEF WakeInv

LEMMA SnoopWake ==
  ASSUME TInv, PlaceInv, WakeInv, Snoop
  PROVE  WakeInv'
<1>1. UNCHANGED <<robEntries, robHead, cdb>> /\ phase = "snoop" /\ phase' = "commit"
  BY DEF Snoop, robVars
<1>2. \A q : /\ CDB!OnBus(q)' <=> CDB!OnBus(q)
             /\ InFlight(q)' <=> InFlight(q)
             /\ Live(q)' <=> Live(q)
             /\ ROB!Age(q)' = ROB!Age(q)
  BY <1>1 DEF CDB!OnBus, InFlight, Live, ROB!Age
<1>3. BusInv'
  BY <1>1, <1>2 DEF WakeInv, BusInv
<1>4. ~CDB!OnBus(NoTag)
  BY BusValueTyped, NoTagIsNoTag DEF TInv
<1>5. ASSUME NEW t, NEW q, Awaits(t, q) PROVE Awaits(t, Woken(q))'
  <2>1. PICK p : p = Woken(q)
    OBVIOUS
  <2>2. p = NoTag \/ (p = q /\ ~CDB!OnBus(q))
    BY <2>1 DEF Woken
  <2>3. Awaits(t, p)'
    BY <1>1, <1>2, <1>5, <2>2 DEF Awaits, Pending
  <2>4. Woken(q)' = Woken(q)
    BY <1>2 DEF Woken
  <2>5. QED
    BY <2>1, <2>3, <2>4
<1>6. Woken(NoTag) = NoTag
  BY DEF Woken
<1>7. ASSUME NEW t, Awaits(t, NoTag) PROVE Awaits(t, NoTag)'
  BY DEF Awaits
<1>8. ASSUME NEW s \in Station, NEW i \in RS!RSlot(s), rs'[s][i].busy
      PROVE  RsWake(rs[s][i])'
  <2> PICK e, f : e = rs[s][i] /\ f = rs'[s][i]
    OBVIOUS
  <2> DEFINE w == e.busy /\ ~e.done
  <2>1. /\ f.busy = e.busy /\ f.done = e.done /\ f.tag = e.tag /\ f.rem = e.rem
        /\ f.qj = IF w THEN Woken(e.qj) ELSE e.qj
        /\ f.qk = IF w THEN Woken(e.qk) ELSE e.qk
    BY RsSnoopEffect DEF TInv, Snoop
  <2>2. e.busy /\ RsWake(e)
    BY <1>8, <2>1 DEF WakeInv
  <2>3. CASE e.done
    <3>1. f.qj = NoTag /\ f.qk = NoTag
      BY <2>1, <2>2, <2>3 DEF RsWake
    <3>2. QED
      BY <3>1 DEF RsWake, Awaits
  <2>4. CASE ~e.done
    <3>1. f.qj = Woken(e.qj) /\ f.qk = Woken(e.qk)
      BY <2>1, <2>2, <2>4
    <3> PICK x, y : x = Woken(e.qj) /\ y = Woken(e.qk)
      OBVIOUS
    <3>2. Awaits(f.tag, x)' /\ Awaits(f.tag, y)'
      <4>1. Woken(e.qj)' = x /\ Woken(e.qk)' = y
        BY <1>2 DEF Woken
      <4>2. QED
        BY <1>5, <2>1, <2>2, <4>1 DEF RsWake
    <3>3. f.done \/ f.rem # 0 => f.qj = NoTag /\ f.qk = NoTag
      BY <1>6, <2>1, <2>2, <3>1 DEF RsWake
    <3>4. QED
      BY <3>1, <3>2, <3>3 DEF RsWake
  <2>5. QED
    BY <2>3, <2>4
<1>9. /\ LSB!Position' = LSB!Position
      /\ \A k \in LSB!Position :
           LSB!At(k)' = IF LSB!At(k).state \in {"IDLE", "DONE"} THEN LSB!At(k)
                                                               ELSE CDB!Captured(LSB!At(k))
  BY LsbSnoopEffect DEF TInv, LsbT, LSB!Position, Snoop
<1>10. ASSUME NEW k \in LSB!Position
       PROVE  LsbWake(LSB!At(k))'
  <2> PICK e, f : e = LSB!At(k) /\ f = LSB!At(k)'
    OBVIOUS
  <2>1. LsbWake(e) /\ e \in LsbEntry
    BY AtTyped DEF WakeInv, TInv, LsbT
  <2>2. /\ CDB!Captured(e).qj = Woken(e.qj) /\ CDB!Captured(e).qk = Woken(e.qk)
        /\ CDB!Captured(e).state = e.state /\ CDB!Captured(e).op = e.op
        /\ CDB!Captured(e).tag = e.tag
    BY <2>1, CapturedLsb DEF TInv
  <2>3. CASE e.state \in {"IDLE", "DONE"}
    <3>1. f = e
      BY <1>9, <2>3
    <3>2. e.qj = NoTag
      BY <2>1, <2>3 DEF LsbWake
    <3>3. e.qk = NoTag
      BY <2>1, <2>3 DEF LsbWake, PlaceInv, LsbPlace, LsbFits
    <3>4. QED
      BY <2>1, <3>1, <3>2, <3>3 DEF LsbWake, Awaits
  <2>4. CASE e.state \notin {"IDLE", "DONE"}
    <3>1. /\ f.qj = Woken(e.qj) /\ f.qk = Woken(e.qk)
          /\ f.state = e.state /\ f.op = e.op /\ f.tag = e.tag
      BY <1>9, <2>2, <2>4
    <3> PICK x, y : x = Woken(e.qj) /\ y = Woken(e.qk)
      OBVIOUS
    <3>2. Awaits(f.tag, x)' /\ Awaits(f.tag, y)'
      <4>1. Woken(e.qj)' = x /\ Woken(e.qk)' = y
        BY <1>2 DEF Woken
      <4>2. QED
        BY <1>5, <2>1, <3>1, <4>1 DEF LsbWake
    <3>3. f.state # "WAITING" => f.qj = NoTag
      BY <1>6, <2>1, <3>1 DEF LsbWake
    <3>4. is_load(f.op) \/ f.state = "DONE" => f.qk = NoTag
      BY <1>6, <2>1, <3>1 DEF LsbWake
    <3>5. QED
      BY <3>1, <3>2, <3>3, <3>4 DEF LsbWake
  <2>5. QED
    BY <2>3, <2>4
<1>11. QED
  BY <1>3, <1>8, <1>9, <1>10 DEF WakeInv

LEMMA NotifyWake ==
  ASSUME RobOK, TInv, InfoInv, PlaceInv, WakeInv, NotifyStore
  PROVE  WakeInv'
<1>1. PICK k \in LSB!Position :
        is_store(LSB!At(k).op) /\ ROB!write_result(LSB!At(k).tag, 0)
  BY DEF NotifyStore, LSB!DoneStoreTags
<1> PICK t : t = LSB!At(k).tag
  OBVIOUS
<1>2. /\ t \in Tag /\ InFlight(t) /\ robEntries'[t].state = "DONE"
      /\ \A u \in Tag : robEntries'[u].info = robEntries[u].info /\ ROB!Age(u)' = ROB!Age(u)
      /\ \A u \in Tag \ {t} : robEntries'[u] = robEntries[u]
      /\ robHead' = robHead
  BY <1>1, WriteEffect
<1>3. robEntries[t].info.rd = NoReg
  <2>1. robEntries[t].info.op \in NoResult /\ Live(t)
    BY <1>1 DEF PlaceInv, LsbPlace, LsbFits, is_store, NoResult
  <2>2. QED
    BY <1>2, <2>1 DEF InfoInv, Writes
<1>4. UNCHANGED <<rs, lsbEntries, lsbHead, lsbTail, lsbCount, cdb, phase>> /\ phase = "update_rob"
  BY DEF NotifyStore, lsbVars
<1>5. /\ LSB!Position' = LSB!Position /\ \A j : LSB!At(j)' = LSB!At(j)
      /\ \A q : CDB!OnBus(q)' <=> CDB!OnBus(q)
      /\ \A q : ROB!Age(q)' = ROB!Age(q)
  BY <1>2, <1>4 DEF LSB!Position, LSB!At, LSB!phys, CDB!OnBus, ROB!Age
<1>6. BusInv'
  BY <1>4, <1>5, EmptyBus DEF WakeInv, BusInv
<1>7. \A u, q : Awaits(u, q) => Awaits(u, q)'
  BY <1>2, <1>3, <1>4, <1>5 DEF Awaits, Pending, InFlight, Live
<1>8. \A s \in Station : \A i \in RS!RSlot(s) : rs'[s][i].busy => RsWake(rs[s][i])'
  BY <1>4, <1>7 DEF WakeInv, RsWake
<1>9. \A j \in LSB!Position : LsbWake(LSB!At(j))'
  BY <1>5, <1>7 DEF WakeInv, LsbWake
<1>10. QED
  BY <1>5, <1>6, <1>8, <1>9 DEF WakeInv

(* A result that is written and broadcast: its waiters see it on the bus.  *)
LEMMA BroadcastWakes ==
  ASSUME RobOK, TInv, BusInv, NEW t, NEW v, phase = "broadcast", phase' = phase,
         ROB!write_result(t, v), CDB!broadcast(t, v)
  PROVE  BusInv' /\ \A u, q : Awaits(u, q) => Awaits(u, q)'
<1>1. /\ t \in Tag /\ InFlight(t) /\ robEntries'[t].state = "DONE"
      /\ \A u \in Tag : robEntries'[u].info = robEntries[u].info /\ ROB!Age(u)' = ROB!Age(u)
      /\ \A u \in Tag \ {t} : robEntries'[u] = robEntries[u]
      /\ robHead' = robHead
  BY WriteEffect
<1>2. \A q : CDB!OnBus(q)' <=> CDB!OnBus(q) \/ q = t
  BY OnBusAfter DEF TInv
<1>3. \A u : ROB!Age(u)' = ROB!Age(u)
  BY <1>1 DEF ROB!Age
<1>4. BusInv'
  BY <1>1, <1>2 DEF BusInv
<1>5. ASSUME NEW u, NEW q, Awaits(u, q) PROVE Awaits(u, q)'
  <2>1. CASE q = t
    BY <1>1, <1>2, <1>3, <1>5, <2>1 DEF Awaits, Pending, Live
  <2>2. CASE q # t
    BY <1>1, <1>2, <1>3, <1>5, <2>2 DEF Awaits, Pending, Live, InFlight
  <2>3. QED
    BY <2>1, <2>2
<1>6. QED
  BY <1>4, <1>5

LEMMA BroadcastWake ==
  ASSUME RobOK, TInv, WakeInv, BroadcastStation
  PROVE  WakeInv'
<1>1. PICK k \in DOMAIN StationOrder :
        /\ RS!pop_result(StationOrder[k])
        /\ ROB!write_result(RS!Popped(StationOrder[k]).tag, RS!Popped(StationOrder[k]).result)
        /\ CDB!broadcast(RS!Popped(StationOrder[k]).tag, RS!Popped(StationOrder[k]).result)
        /\ phase = "broadcast" /\ phase' = phase /\ UNCHANGED lsbVars
  BY DEF BroadcastStation
<1> PICK s \in Station : s = StationOrder[k]
  BY DEF Station
<1>2. PICK d \in RS!RSlot(s) :
        /\ ~rs'[s][d].busy
        /\ \A u \in Station : \A j \in RS!RSlot(u) : u # s \/ j # d => rs'[u][j] = rs[u][j]
  BY <1>1, RsPopEffect DEF TInv
<1>3. BusInv' /\ \A u, q : Awaits(u, q) => Awaits(u, q)'
  BY <1>1, BroadcastWakes DEF WakeInv
<1>4. LSB!Position' = LSB!Position /\ \A j : LSB!At(j)' = LSB!At(j)
  BY <1>1 DEF LSB!Position, LSB!At, LSB!phys, lsbVars
<1>5. ASSUME NEW u \in Station, NEW i \in RS!RSlot(u), rs'[u][i].busy
      PROVE  RsWake(rs[u][i])'
  <2> PICK e : e = rs[u][i]
    OBVIOUS
  <2>1. rs'[u][i] = e /\ RsWake(e)
    BY <1>2, <1>5 DEF WakeInv
  <2>2. QED
    BY <1>3, <2>1 DEF RsWake
<1>6. \A j \in LSB!Position : LsbWake(LSB!At(j))'
  BY <1>3, <1>4 DEF WakeInv, LsbWake
<1>7. QED
  BY <1>3, <1>4, <1>5, <1>6 DEF WakeInv

LEMMA LoadWake ==
  ASSUME RobOK, TInv, PlaceInv, WakeInv, BroadcastLoad
  PROVE  WakeInv'
<1>1. /\ LSB!Pop /\ ~LSB!empty
      /\ ROB!write_result(lsbEntries[lsbHead].tag, lsbEntries[lsbHead].result)
      /\ CDB!broadcast(lsbEntries[lsbHead].tag, lsbEntries[lsbHead].result)
      /\ phase = "broadcast" /\ phase' = phase /\ UNCHANGED rs
  BY DEF BroadcastLoad, LSB!pop_load_result, LSB!has_load_result
<1>2. \A k \in LSB!Position' : k + 1 \in LSB!Position /\ LSB!At(k)' = LSB!At(k + 1)
  BY <1>1, LsbShifted DEF TInv, LsbT
<1>3. BusInv' /\ \A u, q : Awaits(u, q) => Awaits(u, q)'
  BY <1>1, BroadcastWakes DEF WakeInv
<1>4. \A s \in Station : \A i \in RS!RSlot(s) : rs'[s][i].busy => RsWake(rs[s][i])'
  BY <1>1, <1>3 DEF WakeInv, RsWake
<1>5. ASSUME NEW k \in LSB!Position'
      PROVE  LsbWake(LSB!At(k))'
  <2> PICK e : e = LSB!At(k)'
    OBVIOUS
  <2>1. LsbWake(e)
    BY <1>2 DEF WakeInv
  <2>2. QED
    BY <1>3, <2>1 DEF LsbWake
<1>6. QED
  BY <1>3, <1>4, <1>5 DEF WakeInv

LEMMA CommitWake ==
  ASSUME RobOK, TInv, PlaceInv, WakeInv, AnyCommit
  PROVE  WakeInv'
<1>1. /\ ROB!commit /\ ROB!head_ready /\ phase = "commit" /\ phase' = "fetch"
      /\ UNCHANGED <<rs, cdb>>
  BY CommitIs DEF Committing, ROB!commit
<1> PICK h \in Tag : h = robHead
  BY DEF RobOK, RobShape
<1>2. /\ robEntries[h].state = "DONE" /\ robEntries'[h].state = "IDLE" /\ ROB!Age(h) = 0
      /\ \A t \in Tag \ {h} : robEntries'[t] = robEntries[t] /\ ROB!Age(t)' = ROB!Age(t) - 1
      /\ ROB!Age(h)' = RobSize - 1
  BY <1>1, CommitEffect
<1>3. \A t \in Tag : ROB!Age(t) \in Nat
  BY AgeInjective DEF RobOK
<1>4. \A q : CDB!OnBus(q)' <=> CDB!OnBus(q)
  BY <1>1 DEF CDB!OnBus
<1>5. BusInv'
  BY <1>1, <1>2, <1>4 DEF WakeInv, BusInv
<1>6. ASSUME NEW t \in Tag, NEW q, Awaits(t, q) PROVE Awaits(t, q)'
  <2> SUFFICES ASSUME q # NoTag PROVE Awaits(t, q)'
    BY DEF Awaits
  <2>1. /\ q \in Tag /\ Live(q) /\ robEntries[q].info.rd # NoReg
        /\ ROB!Age(q) < ROB!Age(t) /\ InFlight(q) /\ ~CDB!OnBus(q)
    BY <1>1, <1>6 DEF Awaits, Pending
  <2>2. q # h /\ t # h
    BY <1>2, <1>3, <2>1 DEF InFlight
  <2>3. ROB!Age(q)' < ROB!Age(t)'
    BY <1>2, <1>3, <2>1, <2>2
  <2>4. QED
    BY <1>2, <1>4, <2>1, <2>2, <2>3 DEF Awaits, Pending, InFlight, Live
<1>7. ASSUME NEW s \in Station, NEW i \in RS!RSlot(s), rs'[s][i].busy
      PROVE  RsWake(rs[s][i])'
  <2> PICK e : e = rs[s][i]
    OBVIOUS
  <2>1. rs'[s][i] = e /\ RsWake(e) /\ e.tag \in Tag
    BY <1>1, <1>7 DEF WakeInv, PlaceInv, RsPlace, RsFits
  <2>2. QED
    BY <1>6, <2>1 DEF RsWake
<1>8. ASSUME NEW k \in LSB!Position'
      PROVE  LsbWake(LSB!At(k))'
  <2>1. PICK j \in LSB!Position : LSB!At(k)' = LSB!At(j)
    <3>1. CASE CommitStore
      <4>1. LSB!Pop /\ ~LSB!empty
        BY <3>1 DEF CommitStore, LSB!commit_store, LSB!can_commit_store
      <4>2. QED
        BY <4>1, LsbShifted DEF TInv, LsbT
    <3>2. CASE ~CommitStore
      <4>1. UNCHANGED lsbVars
        BY <3>2 DEF AnyCommit, CommitHalt, CommitBranch, CommitJump, CommitResult
      <4>2. QED
        BY <4>1 DEF LSB!Position, LSB!At, LSB!phys, lsbVars
    <3>3. QED
      BY <3>1, <3>2
  <2> PICK e : e = LSB!At(j)
    OBVIOUS
  <2>2. LsbWake(e) /\ e.tag \in Tag
    BY <2>1 DEF WakeInv, PlaceInv, LsbPlace, LsbFits
  <2>3. QED
    BY <1>6, <2>1, <2>2 DEF LsbWake
<1>9. QED
  BY <1>5, <1>7, <1>8 DEF WakeInv

(* What an operand is resolved to: nothing to wait for, or the unfinished  *)
(* youngest writer of the register.                                        *)
LEMMA ResolveAwaits ==
  ASSUME RobOK, TInv, RatInv, NEW r \in Reg \cup {NoReg}, resolve_operand(r).q # NoTag
  PROVE  /\ resolve_operand(r).q \in Tag /\ InFlight(resolve_operand(r).q)
         /\ Live(resolve_operand(r).q) /\ robEntries[resolve_operand(r).q].info.rd # NoReg
<1>1. r # NoReg /\ r \in Reg
  BY DEF resolve_operand
<1>2. rat[r] # NoTag /\ rat[r] \in Tag
  BY <1>1 DEF resolve_operand, RAT!lookup, TInv, RatT, QTag
<1>3. resolve_operand(r).q = rat[r] /\ robEntries[rat[r]].state # "DONE"
  BY <1>1, <1>2 DEF resolve_operand, RAT!lookup, ROB!peek
<1>4. Writes(rat[r], r)
  BY <1>1, <1>2 DEF RatInv, TInv, RatT
<1>5. robEntries[rat[r]].state \in {"IDLE", "IN_FLIGHT", "DONE"}
  BY <1>2 DEF RobOK, RobShape
<1>6. QED
  BY <1>1, <1>2, <1>3, <1>4, <1>5, X0Reg DEF Writes, Live, InFlight

LEMMA DispatchWake ==
  ASSUME RobOK, TInv, RatInv, PlaceInv, WakeInv, AnyDispatch
  PROVE  WakeInv'
<1> PICK h \in Tag : h = robTail
  BY DEF RobOK, RobShape
<1> PICK i \in Instr : i = IQ!peek
  BY DispatchEffect
<1>1. /\ robEntries'[h].state = "IN_FLIGHT"
      /\ \A t \in Tag \ {h} : robEntries'[t] = robEntries[t]
      /\ \A t \in Tag : ROB!Age(t)' = ROB!Age(t)
      /\ ~Live(h) /\ ROB!Age(h) = robCount
      /\ \A t \in Tag : Live(t) => ROB!Age(t) < robCount
  BY DispatchEffect
<1>2. /\ phase = "dispatch" /\ phase' \in {"dispatch", "next_cycle"} /\ UNCHANGED cdb
      /\ robCount \in 0 .. RobSize - 1
  <2>1. try_dispatch(IQ!peek) /\ ROB!allocate([op |-> i.op, rd |-> i.rd, pc |-> i.pc])
    BY DispatchIs
  <2>2. phase' \in {"dispatch", "next_cycle"}
    BY <2>1 DEF AnyDispatch, Dispatch, DispatchBranch, try_dispatch
  <2>3. robCount \in 0 .. RobSize - 1
    BY <2>1, Sizes DEF ROB!allocate, ROB!full, RobOK, RobShape
  <2>4. QED
    BY <2>1, <2>2, <2>3 DEF try_dispatch
<1>3. \A q : CDB!OnBus(q)' <=> CDB!OnBus(q)
  BY <1>2 DEF CDB!OnBus
<1>4. BusInv'
  BY <1>1, <1>2, <1>3 DEF WakeInv, BusInv, Live
<1>5. ASSUME NEW t \in Tag, NEW q, Awaits(t, q) PROVE Awaits(t, q)'
  <2> SUFFICES ASSUME q # NoTag PROVE Awaits(t, q)'
    BY DEF Awaits
  <2>1. /\ q \in Tag /\ Live(q) /\ robEntries[q].info.rd # NoReg
        /\ ROB!Age(q) < ROB!Age(t) /\ InFlight(q) /\ ~CDB!OnBus(q)
    BY <1>2, <1>5 DEF Awaits, Pending
  <2>2. q # h
    BY <1>1, <2>1
  <2>3. QED
    BY <1>1, <1>3, <2>1, <2>2 DEF Awaits, Pending, InFlight, Live
<1>6. ASSUME NEW r \in Reg \cup {NoReg}, NEW q, q = resolve_operand(r).q PROVE Awaits(h, q)'
  <2> SUFFICES ASSUME q # NoTag PROVE Awaits(h, q)'
    BY DEF Awaits
  <2>1. q \in Tag /\ InFlight(q) /\ Live(q) /\ robEntries[q].info.rd # NoReg
    BY <1>6, ResolveAwaits
  <2>2. q # h /\ ROB!Age(q) < ROB!Age(h)
    BY <1>1, <2>1
  <2>3. ~CDB!OnBus(q)
    <3>1. ROB!Age(q) \in Int /\ ROB!Age(q) < robCount
      BY <1>1, <2>1, AgeInjective DEF RobOK
    <3>2. ROB!Age(q) # RobSize - 1
      BY <1>2, <3>1, Sizes
    <3>3. QED
      BY <2>1, <3>2 DEF WakeInv, BusInv, InFlight
  <2>4. QED
    BY <1>1, <1>3, <2>1, <2>2, <2>3 DEF Awaits, Pending, InFlight, Live
<1>7. PICK a \in Operand, b \in Operand :
        /\ a = resolve_operand(i.rs1) /\ b = resolve_operand(i.rs2)
        /\ \/ ToLsb(i.op) /\ LSB!issue(i, h, a, b) /\ UNCHANGED rs
           \/ ~ToLsb(i.op) /\ RS!issue(TargetStation(i.op), i, h, a, b) /\ UNCHANGED lsbVars
  BY DispatchWhere
<1> PICK x, y : x = a.q /\ y = b.q
  OBVIOUS
<1>8. Awaits(h, x)' /\ Awaits(h, y)'
  BY <1>6, <1>7 DEF Instr
<1>9. is_load(i.op) => y = NoTag
  BY <1>7 DEF Instr, Shape, is_load, resolve_operand
<1>10. ASSUME NEW e, RsWake(e), e.tag \in Tag PROVE RsWake(e)'
  BY <1>5, <1>10 DEF RsWake
<1>11. ASSUME NEW e, LsbWake(e), e.tag \in Tag PROVE LsbWake(e)'
  BY <1>5, <1>11 DEF LsbWake
<1>12. CASE ToLsb(i.op) /\ LSB!issue(i, h, a, b) /\ UNCHANGED rs
  <2> PICK n : n = lsbCount
    OBVIOUS
  <2>1. /\ lsbCount' = n + 1 /\ n \in 0 .. LsbSize - 1
        /\ \A k \in LSB!Position : LSB!At(k)' = LSB!At(k)
        /\ LSB!At(n)'.state = "WAITING" /\ LSB!At(n)'.op = i.op /\ LSB!At(n)'.tag = h
        /\ LSB!At(n)'.qj = x /\ LSB!At(n)'.qk = y
    BY <1>12, LsbIssueEffect DEF TInv, LsbT
  <2>2. \A k \in LSB!Position' : k \in LSB!Position \/ k = n
    BY <2>1, Sizes DEF LSB!Position
  <2>3. ASSUME NEW k \in LSB!Position' PROVE LsbWake(LSB!At(k))'
    <3> PICK f : f = LSB!At(k)'
      OBVIOUS
    <3>1. CASE k = n
      <4>1. LsbWake(f)'
        BY <1>8, <1>9, <2>1, <3>1 DEF LsbWake
      <4>2. QED
        BY <4>1 DEF LsbWake
    <3>2. CASE k \in LSB!Position
      <4>1. LsbWake(f) /\ f.tag \in Tag
        BY <2>1, <3>2 DEF WakeInv, PlaceInv, LsbPlace, LsbFits
      <4>2. LsbWake(f)'
        BY <1>11, <4>1
      <4>3. QED
        BY <4>2 DEF LsbWake
    <3>3. QED
      BY <2>2, <3>1, <3>2
  <2>4. ASSUME NEW s \in Station, NEW j \in RS!RSlot(s), rs'[s][j].busy
        PROVE  RsWake(rs[s][j])'
    <3> PICK e : e = rs[s][j]
      OBVIOUS
    <3>1. rs'[s][j] = e /\ RsWake(e) /\ e.tag \in Tag
      BY <1>12, <2>4 DEF WakeInv, PlaceInv, RsPlace, RsFits
    <3>2. RsWake(e)'
      BY <1>10, <3>1
    <3>3. QED
      BY <3>1, <3>2 DEF RsWake
  <2>5. QED
    BY <1>4, <2>3, <2>4 DEF WakeInv
<1>13. CASE ~ToLsb(i.op) /\ RS!issue(TargetStation(i.op), i, h, a, b) /\ UNCHANGED lsbVars
  <2> PICK s \in Station : s = TargetStation(i.op)
    BY TargetIsStation
  <2>1. PICK d \in RS!RSlot(s) :
          /\ rs'[s][d].busy /\ ~rs'[s][d].done /\ rs'[s][d].rem = 0
          /\ rs'[s][d].tag = h /\ rs'[s][d].qj = x /\ rs'[s][d].qk = y
          /\ \A u \in Station : \A j \in RS!RSlot(u) :
               u # s \/ j # d => rs'[u][j] = rs[u][j]
    BY <1>13, RsIssueEffect DEF TInv
  <2>2. LSB!Position' = LSB!Position /\ \A j : LSB!At(j)' = LSB!At(j)
    BY <1>13 DEF LSB!Position, LSB!At, LSB!phys, lsbVars
  <2>3. ASSUME NEW u \in Station, NEW j \in RS!RSlot(u), rs'[u][j].busy
        PROVE  RsWake(rs[u][j])'
    <3> PICK f : f = rs'[u][j]
      OBVIOUS
    <3>1. CASE u = s /\ j = d
      <4>1. RsWake(f)'
        BY <1>8, <2>1, <3>1 DEF RsWake
      <4>2. QED
        BY <4>1 DEF RsWake
    <3>2. CASE u # s \/ j # d
      <4>1. RsWake(f) /\ f.tag \in Tag
        BY <2>1, <2>3, <3>2 DEF WakeInv, PlaceInv, RsPlace, RsFits
      <4>2. RsWake(f)'
        BY <1>10, <4>1
      <4>3. QED
        BY <4>2 DEF RsWake
    <3>3. QED
      BY <3>1, <3>2
  <2>4. ASSUME NEW k \in LSB!Position PROVE LsbWake(LSB!At(k))'
    <3> PICK e : e = LSB!At(k)
      OBVIOUS
    <3>1. LSB!At(k)' = e /\ LsbWake(e) /\ e.tag \in Tag
      BY <2>2 DEF WakeInv, PlaceInv, LsbPlace, LsbFits
    <3>2. LsbWake(e)'
      BY <1>11, <3>1
    <3>3. QED
      BY <3>1, <3>2 DEF LsbWake
  <2>5. QED
    BY <1>4, <2>2, <2>3, <2>4 DEF WakeInv
<1>14. QED
  BY <1>7, <1>12, <1>13

LEMMA WakeStep ==
  RobOK /\ TInv /\ InfoInv /\ RatInv /\ PlaceInv /\ WakeInv /\ [Next]_vars => WakeInv'
<1> SUFFICES ASSUME RobOK, TInv, InfoInv, RatInv, PlaceInv, WakeInv, [Next]_vars
             PROVE  WakeInv'
  OBVIOUS
<1>1. CASE AnyWrite
  BY <1>1, NotifyWake, BroadcastWake, LoadWake DEF AnyWrite
<1>2. CASE AnyCommit \/ AnyDispatch
  BY <1>2, CommitWake, DispatchWake
<1>3. CASE Execute \/ Snoop
  BY <1>3, ExecuteWake, SnoopWake
<1>4. CASE AnyParse \/ (AnyOther /\ ~Snoop /\ ~Execute) \/ UNCHANGED vars
  BY <1>4, QuietKept
<1>5. QED
  BY <1>1, <1>2, <1>3, <1>4, StepKinds

(* All that is kept from cycle to cycle. *)
PipelineInv == RobOK /\ StallInv /\ TInv /\ InfoInv /\ RatInv /\ PlaceInv /\ WakeInv

LEMMA PipelineInit == Init => PipelineInv
  BY RobInit, StallInit, TInvInit, RatInit, PlaceInit, WakeInit DEF PipelineInv

LEMMA PipelineStep == PipelineInv /\ [Next]_vars => PipelineInv'
  BY RobStep, StallStep, TInvStep, RatStep, PlaceStep, WakeStep DEF PipelineInv

(* Whatever an entry waits for is older, unfinished and yet to be          *)
(* broadcast, or on the bus and about to be snooped: no wake-up is lost,   *)
(* for every program, every size of the buffers and every latency          *)
(* (resolve_operand, both snoop loops, sim.cpp phases 3, 4 and 6).         *)
THEOREM WakeupsKept == Spec => []NoLostWakeup
<1>1. PipelineInv => NoLostWakeup
  BY WakeMeans DEF PipelineInv
<1>2. QED
  BY <1>1, PipelineInit, PipelineStep, PTL DEF Spec
-----------------------------------------------------------------------------
(* The units that are not pipelined.                                       *)

(* tick on one station: of an opcode whose unit is not pipelined only one  *)
(* entry goes on or starts.                                                *)
LEMMA TickOneAtATime ==
  ASSUME RsT, RS!tick, OneAtATimeUnpipelined
  PROVE  OneAtATimeUnpipelined'
<1> SUFFICES ASSUME NEW s \in Station, NEW i \in RS!RSlot(s), NEW j \in RS!RSlot(s),
                    i # j, rs'[s][i].op = rs'[s][j].op,
                    RS!Executing(rs'[s][i]), RS!Executing(rs'[s][j]),
                    ~is_pipelined(rs'[s][i].op)
             PROVE  FALSE
  BY DEF OneAtATimeUnpipelined
<1> DEFINE st == [k \in DOMAIN rs[s] |-> RS!CountDown(rs[s][k])]
<1>1. DOMAIN rs[s] = RS!RSlot(s) /\ \A k \in RS!RSlot(s) : rs[s][k] \in RsEntry
  BY DEF RsT
<1>2. \A k \in RS!RSlot(s) :
        rs'[s][k] = IF RS!Starts(st, k) THEN RS!Start(st[k]) ELSE st[k]
  BY <1>1 DEF RS!tick, RS!Ticked
<1>3. \A k \in RS!RSlot(s) :
        /\ st[k] \in RsEntry /\ st[k].op = rs[s][k].op
        /\ RS!Executing(st[k]) => RS!Executing(rs[s][k])
  BY <1>1, CountDownEffect DEF Advanced
<1>4. DOMAIN st = RS!RSlot(s)
  BY <1>1
<1> HIDE DEF st
<1>5. ASSUME NEW k \in RS!RSlot(s)
      PROVE  /\ rs'[s][k].op = st[k].op
             /\ RS!Starts(st, k) => RS!Ready(st[k])
             /\ RS!Executing(rs'[s][k]) =>
                  IF RS!Starts(st, k) THEN latency_of(st[k].op) > 1 ELSE RS!Executing(st[k])
  <2>1. CASE RS!Starts(st, k)
    <3>1. RS!Ready(st[k]) /\ rs'[s][k] = RS!Start(st[k])
      BY <1>2, <2>1 DEF RS!Starts
    <3>2. Advanced(st[k], RS!Start(st[k]))
          /\ (RS!Executing(RS!Start(st[k])) <=> latency_of(st[k].op) > 1)
      BY <1>3, <3>1, StartEffect
    <3>3. QED
      BY <2>1, <3>1, <3>2 DEF Advanced
  <2>2. CASE ~RS!Starts(st, k)
    BY <1>2, <2>2
  <2>3. QED
    BY <2>1, <2>2
<1>6. st[i].op = st[j].op /\ ~is_pipelined(st[i].op) /\ ~is_pipelined(st[j].op)
  BY <1>5
<1>7. i \in Int /\ j \in Int
  BY Sizes DEF RS!RSlot
<1>8. CASE ~RS!Starts(st, i) /\ ~RS!Starts(st, j)
  <2>1. RS!Executing(rs[s][i]) /\ RS!Executing(rs[s][j]) /\ rs[s][i].op = rs[s][j].op
    BY <1>3, <1>5, <1>6, <1>8
  <2>2. QED
    BY <1>3, <1>6, <2>1 DEF OneAtATimeUnpipelined
<1>9. ASSUME NEW a \in RS!RSlot(s), NEW b \in RS!RSlot(s), a # b, st[a].op = st[b].op,
             RS!Starts(st, a), ~is_pipelined(st[a].op), RS!Executing(rs'[s][b])
      PROVE  RS!Starts(st, b) /\ b > a
  <2>1. ~RS!UnitBusy(st, a)
    BY <1>9 DEF RS!Starts
  <2>2. ~RS!Executing(st[b])
    BY <1>4, <1>9, <2>1 DEF RS!UnitBusy
  <2>3. RS!Starts(st, b) /\ RS!Ready(st[b]) /\ latency_of(st[b].op) > 1
    BY <1>5, <1>9, <2>2
  <2>4. ~(b < a)
    BY <1>4, <1>9, <2>1, <2>3 DEF RS!UnitBusy
  <2>5. a \in Int /\ b \in Int
    BY Sizes DEF RS!RSlot
  <2>6. QED
    BY <1>9, <2>3, <2>4, <2>5
<1>10. CASE RS!Starts(st, i)
  <2>1. RS!Starts(st, j) /\ j > i
    BY <1>6, <1>9, <1>10
  <2>2. i > j
    BY <1>6, <1>9, <2>1
  <2>3. QED
    BY <1>7, <2>1, <2>2
<1>11. CASE RS!Starts(st, j)
  <2>1. RS!Starts(st, i) /\ i > j
    BY <1>6, <1>9, <1>11
  <2>2. j > i
    BY <1>6, <1>9, <2>1
  <2>3. QED
    BY <1>7, <2>1, <2>2
<1>12. QED
  BY <1>8, <1>10, <1>11

(* A step after which no more entries execute than before. *)
LEMMA OneAtATimeKept ==
  ASSUME OneAtATimeUnpipelined,
         \A s \in Station : \A i \in RS!RSlot(s) :
           RS!Executing(rs'[s][i]) => RS!Executing(rs[s][i]) /\ rs'[s][i].op = rs[s][i].op
  PROVE  OneAtATimeUnpipelined'
<1> SUFFICES ASSUME NEW s \in Station, NEW i \in RS!RSlot(s), NEW j \in RS!RSlot(s),
                    i # j, rs'[s][i].op = rs'[s][j].op,
                    RS!Executing(rs'[s][i]), RS!Executing(rs'[s][j])
             PROVE  is_pipelined(rs'[s][i].op)
  BY DEF OneAtATimeUnpipelined
<1>1. /\ RS!Executing(rs[s][i]) /\ rs'[s][i].op = rs[s][i].op
      /\ RS!Executing(rs[s][j]) /\ rs'[s][j].op = rs[s][j].op
  OBVIOUS
<1>2. QED
  BY <1>1 DEF OneAtATimeUnpipelined

LEMMA OneAtATimeStep ==
  RobOK /\ TInv /\ OneAtATimeUnpipelined /\ [Next]_vars => OneAtATimeUnpipelined'
<1> SUFFICES ASSUME RobOK, TInv, OneAtATimeUnpipelined, [Next]_vars
             PROVE  OneAtATimeUnpipelined'
  OBVIOUS
<1> USE DEF TInv
<1>1. CASE Execute
  BY <1>1, TickOneAtATime DEF Execute
<1>2. CASE Snoop
  <2>1. \A s \in Station : \A i \in RS!RSlot(s) :
          /\ rs'[s][i].busy = rs[s][i].busy /\ rs'[s][i].done = rs[s][i].done
          /\ rs'[s][i].op = rs[s][i].op /\ rs'[s][i].rem = rs[s][i].rem
    BY <1>2, RsSnoopEffect DEF Snoop
  <2>2. QED
    BY <2>1, OneAtATimeKept DEF RS!Executing
<1>3. CASE BroadcastStation
  <2>1. PICK k \in DOMAIN StationOrder : RS!pop_result(StationOrder[k])
    BY <1>3 DEF BroadcastStation
  <2> PICK s \in Station : s = StationOrder[k]
    BY DEF Station
  <2>2. PICK d \in RS!RSlot(s) :
          /\ ~rs'[s][d].busy
          /\ \A u \in Station : \A j \in RS!RSlot(u) : u # s \/ j # d => rs'[u][j] = rs[u][j]
    BY <2>1, RsPopEffect
  <2>3. QED
    BY <2>2, OneAtATimeKept DEF RS!Executing
<1>4. CASE AnyDispatch
  <2> PICK h \in Tag : h = robTail
    BY DEF RobOK, RobShape
  <2> PICK i \in Instr : i = IQ!peek
    BY <1>4, DispatchEffect
  <2>1. PICK a \in Operand, b \in Operand :
          RS!issue(TargetStation(i.op), i, h, a, b) \/ UNCHANGED rs
    BY <1>4, DispatchWhere
  <2>2. CASE RS!issue(TargetStation(i.op), i, h, a, b)
    <3> PICK s \in Station : s = TargetStation(i.op)
      BY TargetIsStation
    <3>1. PICK d \in RS!RSlot(s) :
            /\ rs'[s][d].rem = 0
            /\ \A u \in Station : \A j \in RS!RSlot(u) : u # s \/ j # d => rs'[u][j] = rs[u][j]
      BY <2>2, RsIssueEffect
    <3>2. QED
      BY <3>1, OneAtATimeKept DEF RS!Executing
  <2>3. QED
    BY <2>1, <2>2, OneAtATimeKept
<1>5. CASE UNCHANGED rs
  BY <1>5, OneAtATimeKept
<1>6. CASE AnyCommit
  BY <1>5, <1>6, CommitIs DEF Committing
<1>7. CASE NotifyStore \/ BroadcastLoad
  BY <1>5, <1>7 DEF NotifyStore, BroadcastLoad
<1>8. CASE AnyParse \/ (AnyOther /\ ~Snoop /\ ~Execute) \/ UNCHANGED vars
  <2>1. UNCHANGED rs
    BY <1>8 DEF AnyOther, AnyParse, vars, Parse, LoadProgram, NoInstructions,
         Returned, pipeVars, StoresNotified, BroadcastEnds, CommitNothing,
         Fetch, FetchStalled, DispatchEnds, NextCycle, Report
  <2>2. QED
    BY <1>5, <2>1
<1>9. QED
  BY <1>1, <1>2, <1>3, <1>4, <1>6, <1>7, <1>8, StepKinds DEF AnyWrite

(* A unit that is not pipelined executes one entry of an opcode at a time, *)
(* for every number of slots, every latency and every choice of pipelined  *)
(* units (ReservationStation::tick).                                       *)
THEOREM UnitsKept == Spec => []OneAtATimeUnpipelined
<1>1. Init => RobOK /\ TInv /\ OneAtATimeUnpipelined
  <2>1. Init => OneAtATimeUnpipelined
    BY DEF Init, RS!Init, RS!FreeEntry, RS!Executing, OneAtATimeUnpipelined
  <2>2. QED
    BY <2>1, RobInit, TInvInit
<1>2. RobOK /\ TInv /\ OneAtATimeUnpipelined /\ [Next]_vars
        => (RobOK /\ TInv /\ OneAtATimeUnpipelined)'
  BY RobStep, TInvStep, OneAtATimeStep
<1>3. QED
  BY <1>1, <1>2, PTL DEF Spec
=============================================================================
