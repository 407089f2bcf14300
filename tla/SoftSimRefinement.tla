-------------------------- MODULE SoftSimRefinement --------------------------
(***************************************************************************)
(* Out-of-order execution is invisible: the software simulator implements  *)
(* the sequential machine Isa, for every program, every size of its        *)
(* buffers and every table of latencies, as long as the accesses of the    *)
(* program to memory agree with each other.  On the way: what the          *)
(* operands, results and addresses in the pipeline are worth, in terms of  *)
(* the architectural state and the program.                                *)
(***************************************************************************)
EXTENDS SoftSimProofs

-----------------------------------------------------------------------------
(* The program order, by address.                                          *)

(* The instruction at a byte address. *)
Ins(pc) == program[pc \div 4 + 1]

(* The address of the oldest instruction that has not been dispatched. *)
FetchPc == 4 * (iqPc - Len(iqBuffer))

(* x says which instruction it is, and there is one. *)
FromProgram(x) ==
  /\ x.pc \in Nat /\ x.pc \div 4 < Len(program)
  /\ x.op = Ins(x.pc).op /\ x.rd = Ins(x.pc).rd

(* x is the instruction. *)
Whole(x) ==
  /\ FromProgram(x)
  /\ x.rs1 = Ins(x.pc).rs1 /\ x.rs2 = Ins(x.pc).rs2 /\ x.imm = Ins(x.pc).imm

StartInv ==
  phase = "parse" => program = << >> /\ robCount = 0 /\ iqBuffer = << >> /\ iqPc = 0

BufferInv ==
  /\ iqPc - Len(iqBuffer) \in Nat
  /\ \A k \in DOMAIN iqBuffer :
       Whole(iqBuffer[k]) /\ iqBuffer[k].pc = FetchPc + 4 * (k - 1)

(* The reorder buffer holds consecutive instructions, and the fetch buffer *)
(* goes on where it ends, unless a branch is about to decide.              *)
OrderInv ==
  \A t \in Tag : Live(t) =>
    /\ FromProgram(robEntries[t].info)
    /\ \A u \in Tag : Live(u) /\ ROB!Age(u) = ROB!Age(t) + 1 =>
         robEntries[u].info.pc = robEntries[t].info.pc + 4
    /\ ROB!Age(t) = robCount - 1 /\ ~branch_in_flight =>
         FetchPc = robEntries[t].info.pc + 4

HaltInv == halted => phase \in {"fetch", "next_cycle", "report", "exit"}

PcInv == StartInv /\ BufferInv /\ OrderInv /\ HaltInv

LEMMA PcInit == Init => PcInv
<1> SUFFICES ASSUME Init PROVE PcInv
  OBVIOUS
<1>1. \A t \in Tag : ~Live(t)
  BY DEF Init, ROB!Init, ROB!IdleEntry, Live, Tag
<1>2. /\ program = << >> /\ robCount = 0 /\ iqBuffer = << >> /\ iqPc = 0
      /\ halted = FALSE
  BY DEF Init, ROB!Init, IQ!Init
<1>3. QED
  BY <1>1, <1>2 DEF PcInv, StartInv, BufferInv, OrderInv, HaltInv

(* Steps that neither fetch nor dispatch nor commit. *)
Idle == AnyWrite \/ Parse \/ NoInstructions \/ (AnyOther /\ ~Fetch) \/ UNCHANGED vars

LEMMA IdleSteps ==
  ASSUME Idle
  PROVE  /\ UNCHANGED <<program, iqVars, branch_in_flight, halted, rf, mem>>
         /\ phase' = "parse" => phase = "parse"
         /\ HaltInv => HaltInv'
  BY DEF Idle, AnyWrite, AnyOther, vars, Parse, NoInstructions, archVars, HaltInv,
         Returned, pipeVars, Execute, StoresNotified,
         BroadcastEnds, Snoop, CommitNothing, Fetch, FetchStalled, DispatchEnds,
         NextCycle, Finished, Report, NotifyStore, BroadcastStation, BroadcastLoad

LEMMA IdleEntries ==
  ASSUME RobOK, Idle
  PROVE  /\ \A t \in Tag : /\ Live(t)' <=> Live(t)
                           /\ robEntries'[t].info = robEntries[t].info
                           /\ ROB!Age(t)' = ROB!Age(t)
         /\ robHead' = robHead /\ robTail' = robTail /\ robCount' = robCount
<1>1. AnyWrite \/ AnyParse \/ AnyOther \/ UNCHANGED vars
  BY DEF Idle, AnyParse
<1>2. QED
  BY <1>1, SameEntries

(* The same instruction, when the program is the same. *)
LEMMA SameProgram ==
  ASSUME UNCHANGED program
  PROVE  /\ \A pc : Ins(pc)' = Ins(pc)
         /\ \A x : FromProgram(x)' <=> FromProgram(x)
         /\ \A x : Whole(x)' <=> Whole(x)
  BY DEF Ins, FromProgram, Whole

LEMMA IdlePc ==
  ASSUME RobOK, PcInv, Idle
  PROVE  PcInv'
<1>1. /\ UNCHANGED program /\ iqBuffer' = iqBuffer /\ iqPc' = iqPc
      /\ branch_in_flight' = branch_in_flight /\ FetchPc' = FetchPc
      /\ phase' = "parse" => phase = "parse"
      /\ HaltInv'
  BY IdleSteps DEF iqVars, PcInv, FetchPc
<1>2. /\ \A t \in Tag : /\ Live(t)' <=> Live(t)
                        /\ robEntries'[t].info = robEntries[t].info
                        /\ ROB!Age(t)' = ROB!Age(t)
      /\ robCount' = robCount
  BY IdleEntries
<1>3. StartInv'
  BY <1>1, <1>2 DEF PcInv, StartInv
<1>4. BufferInv'
  <2>1. \A k \in DOMAIN iqBuffer : Whole(iqBuffer[k])'
    BY <1>1, SameProgram DEF PcInv, BufferInv
  <2>2. QED
    BY <1>1, <2>1 DEF PcInv, BufferInv
<1>5. OrderInv'
  <2> SUFFICES ASSUME NEW t \in Tag, Live(t)
               PROVE  /\ FromProgram(robEntries[t].info)'
                      /\ \A u \in Tag : Live(u)' /\ ROB!Age(u)' = ROB!Age(t)' + 1 =>
                           robEntries'[u].info.pc = robEntries'[t].info.pc + 4
                      /\ ROB!Age(t)' = robCount' - 1 /\ ~branch_in_flight' =>
                           FetchPc' = robEntries'[t].info.pc + 4
    BY <1>2 DEF OrderInv
  <2>1. FromProgram(robEntries[t].info)'
    BY <1>1, <1>2, SameProgram DEF PcInv, OrderInv
  <2>2. QED
    BY <1>1, <1>2, <2>1 DEF PcInv, OrderInv
<1>6. QED
  BY <1>1, <1>3, <1>4, <1>5 DEF PcInv

(* parse_program has ended: nothing is in the pipeline yet. *)
LEMMA LoadPc ==
  ASSUME RobOK, PcInv, LoadProgram
  PROVE  PcInv' /\ (\A t \in Tag : ~Live(t)) /\ (\A t \in Tag : ~Live(t)')
<1>1. /\ phase = "parse" /\ phase' = "execute" /\ UNCHANGED robVars
      /\ iqBuffer' = << >> /\ iqPc' = 0 /\ halted' = halted
  BY DEF LoadProgram, Returned, pipeVars, IQ!load_program
<1>2. \A t \in Tag : ~Live(t)
  <2>1. robCount = 0
    BY <1>1 DEF PcInv, StartInv
  <2>2. QED
    BY <2>1, AgeInjective DEF RobOK, ROB!WindowIsLive, Live, Tag
<1>3. \A t \in Tag : ~Live(t)'
  BY <1>1, <1>2 DEF robVars, Live
<1>4. QED
  BY <1>1, <1>2, <1>3 DEF PcInv, StartInv, BufferInv, OrderInv, HaltInv

LEMMA FourTimes == \A p \in Nat : (4 * p) \div 4 = p
  OBVIOUS

LEMMA FetchPcKept ==
  ASSUME RobOK, TInv, PcInv, Fetch
  PROVE  PcInv' /\ FetchPc' = FetchPc
<1> DEFINE n == IQ!Fetched
           new == [k \in 1 .. n |-> IQ!Stamped(program, iqPc + k - 1)]
<1>1. /\ UNCHANGED <<robVars, program, branch_in_flight, halted>> /\ ~halted
      /\ phase' = "dispatch" /\ iqBuffer' = iqBuffer \o new /\ iqPc' = iqPc + n
  BY DEF Fetch, IQ!tick, n, new
<1>2. /\ n \in Nat /\ iqPc \in Nat /\ Len(iqBuffer) \in Nat
      /\ DOMAIN iqBuffer = 1 .. Len(iqBuffer)
      /\ \A k \in 1 .. n : iqPc + k - 1 \in 0 .. Len(program) - 1
  BY Sizes DEF IQ!Fetched, IQ!Min2, TInv, IqT, ProgT
<1> HIDE DEF n
<1>3. new \in Seq({IQ!Stamped(program, p) : p \in Nat}) /\ Len(new) = n
  <2>1. new \in [1 .. n -> {IQ!Stamped(program, p) : p \in Nat}]
    BY <1>2
  <2>2. QED
    BY <1>2, <2>1, FunctionIsSeq
<1>4. /\ DOMAIN iqBuffer' = 1 .. Len(iqBuffer) + n
      /\ Len(iqBuffer') = Len(iqBuffer) + n
      /\ \A k \in 1 .. Len(iqBuffer) : iqBuffer'[k] = iqBuffer[k]
      /\ \A k \in 1 .. n : iqBuffer'[Len(iqBuffer) + k] = IQ!Stamped(program, iqPc + k - 1)
  <2>1. \A k \in 1 .. n : new[k] = IQ!Stamped(program, iqPc + k - 1)
    OBVIOUS
  <2> HIDE DEF new
  <2> DEFINE U == Instr \cup {IQ!Stamped(program, p) : p \in Nat}
  <2>2. iqBuffer \in Seq(U) /\ new \in Seq(U)
    BY <1>3 DEF TInv, IqT
  <2> HIDE DEF U
  <2>3. /\ Len(iqBuffer \o new) = Len(iqBuffer) + n /\ iqBuffer \o new \in Seq(U)
        /\ \A k \in 1 .. Len(iqBuffer) + n :
             (iqBuffer \o new)[k] = IF k <= Len(iqBuffer) THEN iqBuffer[k]
                                                         ELSE new[k - Len(iqBuffer)]
    BY <1>3, <2>2, ConcatProperties
  <2>4. DOMAIN (iqBuffer \o new) = 1 .. Len(iqBuffer) + n
    BY <2>3
  <2>5. QED
    BY <1>1, <1>2, <2>1, <2>3, <2>4
<1> HIDE DEF new
<1>5. FetchPc' = FetchPc /\ iqPc' - Len(iqBuffer') \in Nat
  BY <1>1, <1>2, <1>4 DEF FetchPc, PcInv, BufferInv
<1>6. BufferInv'
  <2> SUFFICES ASSUME NEW k \in 1 .. Len(iqBuffer) + n
               PROVE  Whole(iqBuffer[k])' /\ iqBuffer'[k].pc = FetchPc + 4 * (k - 1)
    BY <1>4, <1>5 DEF BufferInv
  <2>1. CASE k <= Len(iqBuffer)
    <3>1. Whole(iqBuffer[k]) /\ iqBuffer[k].pc = FetchPc + 4 * (k - 1)
          /\ iqBuffer'[k] = iqBuffer[k]
      BY <1>2, <1>4, <2>1 DEF PcInv, BufferInv
    <3>2. QED
      BY <1>1, <3>1, SameProgram
  <2>2. CASE k > Len(iqBuffer)
    <3> DEFINE j == k - Len(iqBuffer)
               p == iqPc + j - 1
    <3>1. j \in 1 .. n /\ k = Len(iqBuffer) + j
      BY <1>2, <2>2
    <3>2. p \in 0 .. Len(program) - 1 /\ iqBuffer'[k] = IQ!Stamped(program, p)
      BY <1>2, <1>4, <3>1
    <3>3. iqBuffer'[k].pc = 4 * p /\ (4 * p) \div 4 = p /\ 4 * p \in Nat
      BY <3>2, FourTimes DEF IQ!Stamped
    <3>4. 4 * p = FetchPc + 4 * (k - 1)
      BY <1>2, <3>1 DEF FetchPc
    <3>5. Len(program) \in Nat
      BY DEF TInv, ProgT
    <3> HIDE DEF p, j
    <3>6. Whole(iqBuffer[k])'
      BY <1>1, <3>2, <3>3, <3>5 DEF Whole, FromProgram, Ins, IQ!Stamped
    <3>7. QED
      BY <3>3, <3>4, <3>6
  <2>3. QED
    BY <1>2, <2>1, <2>2
<1>7. OrderInv'
  <2>1. \A t \in Tag : /\ Live(t)' <=> Live(t)
                       /\ robEntries'[t].info = robEntries[t].info
                       /\ ROB!Age(t)' = ROB!Age(t)
    BY <1>1, RobUnchanged DEF Live, robVars
  <2>2. robCount' = robCount /\ branch_in_flight' = branch_in_flight
    BY <1>1 DEF robVars
  <2> SUFFICES ASSUME NEW t \in Tag, Live(t)
               PROVE  /\ FromProgram(robEntries[t].info)'
                      /\ \A u \in Tag : Live(u)' /\ ROB!Age(u)' = ROB!Age(t)' + 1 =>
                           robEntries'[u].info.pc = robEntries'[t].info.pc + 4
                      /\ ROB!Age(t)' = robCount' - 1 /\ ~branch_in_flight' =>
                           FetchPc' = robEntries'[t].info.pc + 4
    BY <2>1 DEF OrderInv
  <2>3. FromProgram(robEntries[t].info)'
    BY <1>1, <2>1, SameProgram DEF PcInv, OrderInv
  <2>4. QED
    BY <1>5, <2>1, <2>2, <2>3 DEF PcInv, OrderInv
<1>8. QED
  BY <1>1, <1>5, <1>6, <1>7 DEF PcInv, StartInv, HaltInv

(* The instruction that is dispatched is the next one. *)
LEMMA PeekIs ==
  ASSUME TInv, PcInv, IQ!can_dispatch
  PROVE  /\ IQ!peek = iqBuffer[1] /\ 1 \in DOMAIN iqBuffer
         /\ Whole(IQ!peek) /\ IQ!peek.pc = FetchPc /\ FetchPc \in Nat
         /\ Len(Tail(iqBuffer)) = Len(iqBuffer) - 1
         /\ \A k \in DOMAIN Tail(iqBuffer) :
              Tail(iqBuffer)[k] = iqBuffer[k + 1] /\ k + 1 \in DOMAIN iqBuffer /\ k \in Nat
<1>1. iqBuffer \in Seq(Instr) /\ iqBuffer # << >> /\ iqPc \in Nat
  BY DEF TInv, IqT, IQ!can_dispatch
<1>2. IQ!peek = iqBuffer[1] /\ 1 \in DOMAIN iqBuffer
  BY <1>1 DEF IQ!peek
<1>3. /\ Len(Tail(iqBuffer)) = Len(iqBuffer) - 1
      /\ \A k \in DOMAIN Tail(iqBuffer) :
           Tail(iqBuffer)[k] = iqBuffer[k + 1] /\ k + 1 \in DOMAIN iqBuffer /\ k \in Nat
  BY <1>1
<1>4. FetchPc \in Nat
  BY DEF FetchPc, PcInv, BufferInv
<1>5. Whole(iqBuffer[1]) /\ iqBuffer[1].pc = FetchPc + 4 * (1 - 1)
  BY <1>2 DEF PcInv, BufferInv
<1>6. QED
  BY <1>2, <1>3, <1>4, <1>5

LEMMA DispatchPc ==
  ASSUME RobOK, StallInv, TInv, PcInv, AnyDispatch
  PROVE  PcInv'
<1> PICK h \in Tag : h = robTail
  BY DEF RobOK, RobShape
<1> DEFINE i == IQ!peek
<1>1. /\ try_dispatch(i) /\ IQ!can_dispatch
      /\ ROB!allocate([op |-> i.op, rd |-> i.rd, pc |-> i.pc])
  BY DispatchIs DEF AnyDispatch, Dispatch, DispatchBranch
<1>2. /\ UNCHANGED <<program, halted>> /\ phase = "dispatch" /\ phase' # "parse"
      /\ ~branch_in_flight /\ robCount' = robCount + 1
  BY <1>1 DEF try_dispatch, ROB!allocate, AnyDispatch, Dispatch, DispatchBranch, StallInv
<1>3. /\ robEntries'[h].info = [op |-> i.op, rd |-> i.rd, pc |-> i.pc]
      /\ robEntries'[h].state = "IN_FLIGHT"
      /\ \A t \in Tag \ {h} : robEntries'[t] = robEntries[t]
      /\ \A t \in Tag : ROB!Age(t)' = ROB!Age(t)
      /\ ROB!Age(h) = robCount
      /\ \A t \in Tag : Live(t) => ROB!Age(t) < robCount
  BY DispatchEffect
<1>4. /\ i = iqBuffer[1] /\ Whole(i) /\ i.pc = FetchPc /\ FetchPc \in Nat
      /\ 1 \in DOMAIN iqBuffer
  BY <1>1, PeekIs
<1>5. iqPc \in Nat /\ Len(iqBuffer) \in Nat /\ robCount \in Nat
  BY DEF TInv, IqT, RobOK, RobShape
<1> HIDE DEF i
<1>6. BufferInv' /\ (FetchPc' = FetchPc + 4 \/ branch_in_flight')
  <2>1. CASE Dispatch
    <3>1. iqBuffer' = Tail(iqBuffer) /\ iqPc' = iqPc
      BY <2>1 DEF Dispatch, IQ!dispatch
    <3>2. /\ Len(iqBuffer') = Len(iqBuffer) - 1
          /\ \A k \in DOMAIN iqBuffer' :
               iqBuffer'[k] = iqBuffer[k + 1] /\ k + 1 \in DOMAIN iqBuffer /\ k \in Nat
      BY <1>1, <3>1, PeekIs
    <3>3. FetchPc' = FetchPc + 4 /\ iqPc' - Len(iqBuffer') \in Nat
      BY <1>5, <3>1, <3>2 DEF FetchPc, PcInv, BufferInv
    <3>4. ASSUME NEW k \in DOMAIN iqBuffer'
          PROVE  Whole(iqBuffer[k])' /\ iqBuffer'[k].pc = FetchPc' + 4 * (k - 1)
      <4>1. /\ iqBuffer'[k] = iqBuffer[k + 1] /\ k \in Nat
            /\ Whole(iqBuffer[k + 1]) /\ iqBuffer[k + 1].pc = FetchPc + 4 * (k + 1 - 1)
        BY <3>2 DEF PcInv, BufferInv
      <4>2. Whole(iqBuffer[k])'
        BY <1>2, <4>1, SameProgram
      <4>3. \A a, b \in Nat : a + 4 * (b + 1 - 1) = (a + 4) + 4 * (b - 1)
        OBVIOUS
      <4>4. iqBuffer'[k].pc = (FetchPc + 4) + 4 * (k - 1)
        BY <1>4, <4>1, <4>3
      <4>5. QED
        BY <3>3, <4>2, <4>4
    <3>5. QED
      BY <3>3, <3>4 DEF BufferInv
  <2>2. CASE DispatchBranch
    <3>1. iqBuffer' = << >> /\ iqPc' = (i.pc + 4) \div 4 /\ branch_in_flight'
      BY <2>2 DEF DispatchBranch, IQ!seek, i
    <3>2. (i.pc + 4) \div 4 \in Nat
      BY <1>4, DivSmaller
    <3>3. QED
      BY <3>1, <3>2 DEF BufferInv
  <2>3. QED
    BY <2>1, <2>2 DEF AnyDispatch
<1>7. OrderInv'
  <2> SUFFICES ASSUME NEW t \in Tag, Live(t)'
               PROVE  /\ FromProgram(robEntries[t].info)'
                      /\ \A u \in Tag : Live(u)' /\ ROB!Age(u) = ROB!Age(t) + 1 =>
                           robEntries'[u].info.pc = robEntries'[t].info.pc + 4
                      /\ ROB!Age(t) = robCount /\ ~branch_in_flight' =>
                           FetchPc' = robEntries'[t].info.pc + 4
    BY <1>2, <1>3, <1>5 DEF OrderInv
  <2>0. \A u \in Tag : ROB!Age(u) \in Nat
    BY AgeInjective DEF RobOK
  <2>1. CASE t = h
    <3>1. robEntries'[t].info.pc = FetchPc
      BY <1>3, <1>4, <2>1
    <3>2. FromProgram(robEntries[t].info)'
      <4>1. FromProgram(i)
        BY <1>4 DEF Whole
      <4>2. QED
        BY <1>2, <1>3, <2>1, <4>1 DEF FromProgram, Ins
    <3>3. \A u \in Tag : Live(u)' => ROB!Age(u) <= robCount
      BY <1>3, <1>5, <2>0 DEF Live
    <3>4. QED
      BY <1>3, <1>5, <1>6, <2>0, <2>1, <3>1, <3>2, <3>3
  <2>2. CASE t # h
    <3>1. Live(t) /\ robEntries'[t] = robEntries[t] /\ ROB!Age(t) < robCount
      BY <1>3, <2>2 DEF Live
    <3>2. FromProgram(robEntries[t].info)'
      BY <1>2, <3>1, SameProgram DEF PcInv, OrderInv
    <3>3. ASSUME NEW u \in Tag, Live(u)', ROB!Age(u) = ROB!Age(t) + 1
          PROVE  robEntries'[u].info.pc = robEntries'[t].info.pc + 4
      <4>1. CASE u = h
        <5>1. ROB!Age(t) = robCount - 1
          BY <1>3, <2>0, <3>3, <4>1
        <5>2. FetchPc = robEntries[t].info.pc + 4
          BY <1>2, <3>1, <5>1 DEF PcInv, OrderInv
        <5>3. QED
          BY <1>3, <1>4, <3>1, <4>1, <5>2
      <4>2. CASE u # h
        BY <1>3, <3>1, <3>3, <4>2 DEF PcInv, OrderInv, Live
      <4>3. QED
        BY <4>1, <4>2
    <3>4. QED
      BY <1>5, <2>0, <3>1, <3>2, <3>3
  <2>3. QED
    BY <2>1, <2>2
<1>8. QED
  BY <1>2, <1>6, <1>7 DEF PcInv, StartInv, HaltInv

(* When a branch or jump retires it is alone. *)
LEMMA ControlAlone ==
  ASSUME RobOK, StallInv, CommitBranch \/ CommitJump
  PROVE  \A t \in Tag : (Live(t) => t = robHead) /\ ~Live(t)'
<1>1. ROB!commit /\ Control(robHead)
  BY DEF CommitBranch, CommitJump, Committing, ROB!commit, ROB!head_ready,
         Control, Live, ControlOps, Entry, is_branch, is_jump
<1>2. \A u \in Tag : Live(u) => u = robHead
  <2>1. robHead \in Tag /\ ROB!Age(robHead) = 0
    BY <1>1, CommitEffect DEF RobOK, RobShape
  <2>2. QED
    BY <1>1, <2>1, AgeInjective DEF StallInv, RobOK
<1>3. QED
  BY <1>1, <1>2, CommitEffect DEF Live

Straight == CommitHalt \/ CommitStore \/ CommitResult

LEMMA StraightIs ==
  ASSUME RobOK, Straight
  PROVE  /\ Committing /\ ROB!commit /\ UNCHANGED <<iqVars, branch_in_flight>>
         /\ ~Control(robHead)
  BY DEF Straight, CommitHalt, CommitStore, CommitResult, iqVars, Control, ControlOps,
         Entry, is_store, Stores, Branches, Jumps, Committing

LEMMA CommitPc ==
  ASSUME RobOK, StallInv, TInv, PcInv, AnyCommit
  PROVE  PcInv'
<1> PICK h \in Tag : h = robHead
  BY DEF RobOK, RobShape
<1>1. Committing /\ ROB!commit /\ UNCHANGED program /\ phase' = "fetch"
  BY CommitIs DEF Committing
<1>2. CASE CommitBranch \/ CommitJump
  <2>1. \A t \in Tag : ~Live(t)'
    BY <1>2, ControlAlone
  <2>2. iqBuffer' = << >> /\ iqPc' = Entry.result \div 4
    BY <1>2 DEF CommitBranch, CommitJump, Redirect, IQ!seek
  <2>3. Entry.result \div 4 \in Nat
    <3>1. Entry.result \in Nat
      BY <1>1, CommitTyped, WordFacts DEF TInv
    <3>2. QED
      BY <3>1, DivSmaller
  <2>4. QED
    BY <1>1, <2>1, <2>2, <2>3 DEF PcInv, StartInv, BufferInv, OrderInv, HaltInv
<1>3. CASE Straight
  <2>1. iqBuffer' = iqBuffer /\ iqPc' = iqPc /\ branch_in_flight' = branch_in_flight
    BY <1>3, StraightIs DEF iqVars
  <2>2. FetchPc' = FetchPc
    BY <2>1 DEF FetchPc
  <2>3. BufferInv'
    <3>1. \A k \in DOMAIN iqBuffer : Whole(iqBuffer[k])'
      BY <1>1, <2>1, SameProgram DEF PcInv, BufferInv
    <3>2. QED
      BY <2>1, <2>2, <3>1 DEF PcInv, BufferInv
  <2>4. /\ \A t \in Tag : Live(t)' => t # h
        /\ \A t \in Tag \ {h} : robEntries'[t] = robEntries[t] /\ ROB!Age(t)' = ROB!Age(t) - 1
        /\ robCount' = robCount - 1 /\ robCount \in Nat
    BY <1>1, CommitEffect DEF Live, RobOK, RobShape
  <2>5. \A t \in Tag : ROB!Age(t) \in Nat
    BY AgeInjective DEF RobOK
  <2>6. ASSUME NEW t \in Tag, Live(t)'
        PROVE  /\ FromProgram(robEntries[t].info)'
               /\ \A u \in Tag : Live(u)' /\ ROB!Age(u)' = ROB!Age(t)' + 1 =>
                    robEntries'[u].info.pc = robEntries'[t].info.pc + 4
               /\ ROB!Age(t)' = robCount' - 1 /\ ~branch_in_flight' =>
                    FetchPc' = robEntries'[t].info.pc + 4
    <3>1. t # h /\ Live(t) /\ robEntries'[t] = robEntries[t] /\ ROB!Age(t)' = ROB!Age(t) - 1
      BY <2>4, <2>6 DEF Live
    <3>2. FromProgram(robEntries[t].info)'
      BY <1>1, <3>1, SameProgram DEF PcInv, OrderInv
    <3>3. ASSUME NEW u \in Tag, Live(u)', ROB!Age(u)' = ROB!Age(t)' + 1
          PROVE  robEntries'[u].info.pc = robEntries'[t].info.pc + 4
      <4>1. u # h /\ Live(u) /\ robEntries'[u] = robEntries[u] /\ ROB!Age(u)' = ROB!Age(u) - 1
        BY <2>4, <3>3 DEF Live
      <4>2. ROB!Age(u) = ROB!Age(t) + 1
        BY <2>5, <3>1, <3>3, <4>1
      <4>3. QED
        BY <3>1, <4>1, <4>2 DEF PcInv, OrderInv
    <3>4. ROB!Age(t)' = robCount' - 1 => ROB!Age(t) = robCount - 1
      BY <2>4, <2>5, <3>1
    <3>5. QED
      BY <2>1, <2>2, <3>1, <3>2, <3>3, <3>4 DEF PcInv, OrderInv
  <2>7. OrderInv'
    BY <2>6 DEF OrderInv
  <2>8. QED
    BY <1>1, <2>3, <2>7 DEF PcInv, StartInv, HaltInv
<1>4. QED
  BY <1>2, <1>3 DEF AnyCommit, Straight

LEMMA PcStep == PipelineInv /\ PcInv /\ [Next]_vars => PcInv'
<1> SUFFICES ASSUME PipelineInv, PcInv, [Next]_vars PROVE PcInv'
  OBVIOUS
<1>1. RobOK /\ StallInv /\ TInv
  BY DEF PipelineInv
<1>2. AnyCommit \/ AnyDispatch \/ LoadProgram \/ Fetch \/ Idle
  BY StepKinds DEF AnyParse, AnyOther, Idle
<1>3. QED
  BY <1>1, <1>2, CommitPc, DispatchPc, LoadPc, FetchPcKept, IdlePc

-----------------------------------------------------------------------------
(* What an operand is worth.                                               *)

Done(t) == robEntries[t].state = "DONE"

(* The instruction with tag t. *)
InsOf(t) == Ins(robEntries[t].info.pc)

Before(u, t, r) == Writes(u, r) /\ ROB!Age(u) < ROB!Age(t)

(* u is the youngest writer of r that is older than t. *)
Feeds(u, t, r) ==
  /\ u \in Tag /\ Before(u, t, r)
  /\ \A w \in Tag : Before(w, t, r) => ROB!Age(w) <= ROB!Age(u)

(* Register r is worth v where t reads it: the result of the youngest      *)
(* older writer, the register file when there is none.                     *)
Worth(t, r, v) ==
  IF r \in {NoReg, X0} THEN v = 0
  ELSE \/ (\A u \in Tag : ~Before(u, t, r)) /\ v = rf[r]
       \/ \E u \in Tag : Feeds(u, t, r) /\ Done(u) /\ v = robEntries[u].result

(* An operand of t: its value, or whom it waits for. *)
Reads(t, r, v, q) ==
  IF q = NoTag THEN Worth(t, r, v) ELSE r \notin {NoReg, X0} /\ Feeds(q, t, r)

(* The operands of a station or LSB entry are those of its instruction. *)
Operands(e) ==
  /\ e.imm = InsOf(e.tag).imm
  /\ Reads(e.tag, InsOf(e.tag).rs1, e.vj, e.qj)
  /\ Reads(e.tag, InsOf(e.tag).rs2, e.vk, e.qk)

RsValue(e) ==
  /\ Operands(e) /\ e.pc = robEntries[e.tag].info.pc
  /\ e.done => e.result = execute_op(e.op, e.vj, e.vk, e.imm, e.pc)

LsbValue(e) == Operands(e) /\ (e.state # "WAITING" => e.addr = Wrap(e.vj + e.imm))

(* The result of a finished instruction that is no memory operation. *)
Computed(t) ==
  \E a, b \in Word :
    /\ Worth(t, InsOf(t).rs1, a) /\ Worth(t, InsOf(t).rs2, b)
    /\ robEntries[t].result =
         execute_op(InsOf(t).op, a, b, InsOf(t).imm, robEntries[t].info.pc)

RsValues  == \A s \in Station : \A i \in RS!RSlot(s) : rs[s][i].busy => RsValue(rs[s][i])
LsbValues == \A k \in LSB!Position : LsbValue(LSB!At(k))
Results   == \A t \in Tag : Done(t) /\ ~ToLsb(robEntries[t].info.op) => Computed(t)
BusValues == phase \in {"broadcast", "snoop"} =>
               \A k \in DOMAIN cdb : cdb[k].value = robEntries[cdb[k].tag].result

ValueInv == RsValues /\ LsbValues /\ Results /\ BusValues

(* What a step must leave alone for all that to hold on: an instruction    *)
(* that stays keeps its operands, and its result when it has one.          *)
Stable ==
  \A t \in Tag : Live(t) /\ Live(t)' =>
    /\ robEntries'[t].info = robEntries[t].info /\ InsOf(t)' = InsOf(t)
    /\ Done(t) => robEntries'[t] = robEntries[t]
    /\ \A r \in Reg \cup {NoReg} : \A v, q :
         Awaits(t, q) /\ Reads(t, r, v, q) => Reads(t, r, v, q)'

LEMMA WorthKept ==
  ASSUME NEW t \in Tag, NEW r, rf' = rf,
         \A u \in Tag : /\ Before(u, t, r)' <=> Before(u, t, r)
                        /\ ROB!Age(u)' = ROB!Age(u)
                        /\ Before(u, t, r) /\ Done(u) => robEntries'[u] = robEntries[u]
  PROVE  \A v, q : Reads(t, r, v, q) => Reads(t, r, v, q)'
<1>1. \A u : Feeds(u, t, r) => Feeds(u, t, r)'
  BY DEF Feeds
<1>2. \A u \in Tag : Feeds(u, t, r) /\ Done(u) => Done(u)' /\ robEntries'[u].result = robEntries[u].result
  BY DEF Feeds, Done
<1>3. ASSUME NEW v, Worth(t, r, v) PROVE Worth(t, r, v)'
  BY <1>1, <1>2, <1>3 DEF Worth
<1>4. QED
  BY <1>1, <1>3 DEF Reads

LEMMA IdleStable ==
  ASSUME RobOK, Idle \/ Fetch
  PROVE  Stable
<1>1. /\ \A t \in Tag : /\ Live(t)' <=> Live(t)
                        /\ robEntries'[t].info = robEntries[t].info
                        /\ ROB!Age(t)' = ROB!Age(t)
                        /\ Done(t) => robEntries'[t] = robEntries[t]
      /\ UNCHANGED <<program, rf>>
  <2>1. CASE Idle
    <3>1. \A t \in Tag : Done(t) => robEntries'[t] = robEntries[t]
      <4>1. CASE AnyWrite
        BY <4>1, WriteIs, WriteEffect DEF Done, InFlight
      <4>2. CASE AnyParse \/ AnyOther \/ UNCHANGED vars
        BY <4>2, OtherRob DEF robVars
      <4>3. QED
        BY <2>1, <4>1, <4>2 DEF Idle, AnyParse
    <3>2. QED
      BY <2>1, <3>1, IdleEntries, IdleSteps
  <2>2. CASE Fetch
    <3>1. UNCHANGED robVars /\ UNCHANGED <<program, rf>>
      BY <2>2 DEF Fetch, archVars
    <3>2. QED
      BY <3>1, RobUnchanged DEF Live, robVars
  <2>3. QED
    BY <2>1, <2>2
<1>2. ASSUME NEW t \in Tag, NEW r
      PROVE  \A v, q : Reads(t, r, v, q) => Reads(t, r, v, q)'
  <2>1. \A u \in Tag : Before(u, t, r)' <=> Before(u, t, r)
    BY <1>1 DEF Before, Writes
  <2>2. QED
    BY <1>1, <2>1, WorthKept
<1>3. \A t \in Tag : InsOf(t)' = InsOf(t)
  BY <1>1 DEF InsOf, Ins
<1>4. QED
  BY <1>1, <1>2, <1>3 DEF Stable

LEMMA DispatchStable ==
  ASSUME RobOK, TInv, AnyDispatch
  PROVE  Stable
<1> PICK h \in Tag : h = robTail
  BY DEF RobOK, RobShape
<1>1. /\ \A t \in Tag \ {h} : robEntries'[t] = robEntries[t]
      /\ \A t \in Tag : ROB!Age(t)' = ROB!Age(t)
      /\ ~Live(h) /\ ROB!Age(h) = robCount
      /\ \A t \in Tag : Live(t) => ROB!Age(t) < robCount
  BY DispatchEffect
<1>2. UNCHANGED <<program, rf>>
  BY DispatchIs DEF try_dispatch, archVars
<1>3. \A t \in Tag : ROB!Age(t) \in Nat /\ robCount \in Nat
  BY AgeInjective DEF RobOK, RobShape
<1> SUFFICES ASSUME NEW t \in Tag, Live(t), Live(t)'
             PROVE  /\ robEntries'[t].info = robEntries[t].info /\ InsOf(t)' = InsOf(t)
                    /\ Done(t) => robEntries'[t] = robEntries[t]
                    /\ \A r, v, q : Reads(t, r, v, q) => Reads(t, r, v, q)'
  BY DEF Stable
<1>4. robEntries'[t] = robEntries[t] /\ InsOf(t)' = InsOf(t)
  BY <1>1, <1>2 DEF InsOf, Ins
<1>5. ASSUME NEW r PROVE \A v, q : Reads(t, r, v, q) => Reads(t, r, v, q)'
  <2>1. ASSUME NEW u \in Tag
        PROVE  /\ Before(u, t, r)' <=> Before(u, t, r)
               /\ Before(u, t, r) /\ Done(u) => robEntries'[u] = robEntries[u]
    <3>1. CASE u = h
      BY <1>1, <1>3, <3>1 DEF Before, Writes
    <3>2. CASE u # h
      BY <1>1, <3>2 DEF Before, Writes, Live
    <3>3. QED
      BY <3>1, <3>2
  <2>2. QED
    BY <1>1, <1>2, <2>1, WorthKept
<1>6. QED
  BY <1>4, <1>5

(* What a retiring instruction leaves in the register file, when there is  *)
(* anybody left to read it.                                                *)
LEMMA CommitWrites ==
  ASSUME PipelineInv, AnyCommit, NEW t \in Tag, Live(t)', NEW r \in Reg \ {X0}
  PROVE  rf'[r] = IF Writes(robHead, r) THEN Entry.result ELSE rf[r]
<1>1. Live(robHead) /\ robHead \in Tag
  BY CommitIs, CommitEffect DEF PipelineInv, RobOK, RobShape, Committing, Live
<1>2. ~(CommitBranch \/ CommitJump)
  BY ControlAlone DEF PipelineInv
<1>3. CASE CommitHalt \/ CommitStore
  <2>1. rf' = rf /\ robEntries[robHead].info.op \in NoResult
    BY <1>3 DEF CommitHalt, CommitStore, NoResult, Entry, is_store, archVars
  <2>2. ~Writes(robHead, r)
    BY <1>1, <2>1, X0Reg DEF PipelineInv, InfoInv, Writes
  <2>3. QED
    BY <2>1, <2>2
<1>4. CASE CommitResult
  <2>1. RF!write(robEntries[robHead].info.rd, Entry.result)
    BY <1>4 DEF CommitResult, Entry
  <2>2. rf \in [Reg -> Word]
    BY DEF PipelineInv, TInv, RfT
  <2>3. QED
    BY <1>1, <2>1, <2>2, X0Reg DEF RF!write, Writes
<1>5. QED
  BY <1>2, <1>3, <1>4 DEF AnyCommit

LEMMA CommitStable ==
  ASSUME PipelineInv, AnyCommit
  PROVE  Stable
<1> PICK h \in Tag : h = robHead
  BY DEF PipelineInv, RobOK, RobShape
<1>1. RobOK /\ TInv /\ Committing /\ ROB!commit /\ UNCHANGED program /\ phase = "commit"
  BY CommitIs DEF Committing, PipelineInv
<1>2. /\ ROB!Age(h) = 0 /\ Done(h) /\ ~Live(h)'
      /\ \A t \in Tag \ {h} : robEntries'[t] = robEntries[t] /\ ROB!Age(t)' = ROB!Age(t) - 1
  BY <1>1, CommitEffect DEF Done, Live
<1>3. \A t \in Tag : ROB!Age(t) \in Nat
  BY <1>1, AgeInjective DEF RobOK
<1> SUFFICES ASSUME NEW t \in Tag, Live(t), Live(t)'
             PROVE  /\ robEntries'[t].info = robEntries[t].info /\ InsOf(t)' = InsOf(t)
                    /\ Done(t) => robEntries'[t] = robEntries[t]
                    /\ \A r \in Reg \cup {NoReg} : \A v, q :
                         Awaits(t, q) /\ Reads(t, r, v, q) => Reads(t, r, v, q)'
  BY DEF Stable
<1>4. t # h /\ robEntries'[t] = robEntries[t] /\ InsOf(t)' = InsOf(t)
  BY <1>1, <1>2 DEF InsOf, Ins
<1>5. \A u \in Tag : \A r : Before(u, t, r)' <=> u # h /\ Before(u, t, r)
  BY <1>2, <1>3, <1>4 DEF Before, Writes, Live
<1>6. ASSUME NEW u, NEW r, u # h, Feeds(u, t, r) PROVE Feeds(u, t, r)'
  BY <1>2, <1>3, <1>5, <1>6 DEF Feeds
<1>7. ASSUME NEW r \in Reg \ {X0}
      PROVE  rf'[r] = IF Writes(h, r) THEN robEntries[h].result ELSE rf[r]
  BY CommitWrites DEF Entry
<1>8. ASSUME NEW r \in Reg \ {X0}, r # NoReg, NEW v, Worth(t, r, v)
      PROVE  Worth(t, r, v)'
  <2>1. CASE (\A u \in Tag : ~Before(u, t, r)) /\ v = rf[r]
    <3>1. ~Writes(h, r)
      <4>1. ROB!Age(h) < ROB!Age(t)
        BY <1>1, <1>2, <1>3, <1>4, AgeInjective DEF RobOK
      <4>2. QED
        BY <2>1, <4>1 DEF Before
    <3>2. QED
      BY <1>5, <1>7, <1>8, <2>1, <3>1 DEF Worth
  <2>2. ASSUME NEW u \in Tag, Feeds(u, t, r), Done(u), v = robEntries[u].result
        PROVE  Worth(t, r, v)'
    <3>1. CASE u = h
      <4>1. \A w \in Tag : Before(w, t, r) => w = h
        BY <1>1, <1>2, <1>3, <2>2, <3>1, AgeInjective DEF Feeds, RobOK
      <4>2. Writes(h, r)
        BY <2>2, <3>1 DEF Feeds, Before
      <4>3. QED
        BY <1>5, <1>7, <1>8, <2>2, <3>1, <4>1, <4>2 DEF Worth
    <3>2. CASE u # h
      <4>1. Feeds(u, t, r)' /\ Done(u)' /\ v = robEntries'[u].result
        BY <1>2, <1>6, <2>2, <3>2 DEF Done
      <4>2. QED
        BY <1>8, <4>1 DEF Worth
    <3>3. QED
      BY <3>1, <3>2
  <2>3. QED
    BY <1>8, <2>1, <2>2 DEF Worth
<1>9. ASSUME NEW r \in Reg \cup {NoReg}, NEW v, NEW q, Awaits(t, q), Reads(t, r, v, q)
      PROVE  Reads(t, r, v, q)'
  <2>1. CASE q = NoTag
    <3>1. Worth(t, r, v)
      BY <1>9, <2>1 DEF Reads
    <3>2. CASE r \in {NoReg, X0}
      BY <2>1, <3>1, <3>2 DEF Reads, Worth
    <3>3. CASE r \notin {NoReg, X0}
      BY <1>8, <2>1, <3>1, <3>3 DEF Reads
    <3>4. QED
      BY <3>2, <3>3
  <2>2. CASE q # NoTag
    <3>1. InFlight(q)
      BY <1>1, <1>9, <2>2 DEF Awaits, Pending
    <3>2. q # h /\ Feeds(q, t, r) /\ r \notin {NoReg, X0}
      BY <1>2, <1>9, <2>2, <3>1 DEF Reads, InFlight, Done
    <3>3. QED
      BY <1>6, <2>2, <3>2 DEF Reads
  <2>3. QED
    BY <2>1, <2>2
<1>10. QED
  BY <1>4, <1>9

LEMMA StableStep == PipelineInv /\ PcInv /\ [Next]_vars => Stable
<1> SUFFICES ASSUME PipelineInv, PcInv, [Next]_vars PROVE Stable
  OBVIOUS
<1>1. RobOK /\ TInv
  BY DEF PipelineInv
<1>2. CASE LoadProgram
  BY <1>1, <1>2, LoadPc DEF Stable
<1>3. AnyCommit \/ AnyDispatch \/ LoadProgram \/ Fetch \/ Idle
  BY StepKinds DEF AnyParse, AnyOther, Idle
<1>4. QED
  BY <1>1, <1>2, <1>3, IdleStable, DispatchStable, CommitStable

(* The instruction with tag t is one of the program's. *)
LEMMA InsTyped ==
  ASSUME TInv, PcInv, NEW t \in Tag, Live(t)
  PROVE  /\ InsOf(t) \in Good
         /\ InsOf(t).rs1 \in Reg \cup {NoReg} /\ InsOf(t).rs2 \in Reg \cup {NoReg}
         /\ robEntries[t].info.op = InsOf(t).op /\ robEntries[t].info.rd = InsOf(t).rd
         /\ robEntries[t].info.pc \in Nat
<1> PICK p : p = robEntries[t].info.pc
  OBVIOUS
<1>1. /\ p \in Nat /\ p \div 4 < Len(program)
      /\ robEntries[t].info.op = InsOf(t).op /\ robEntries[t].info.rd = InsOf(t).rd
  BY DEF PcInv, OrderInv, FromProgram, InsOf
<1>2. program \in Seq(Good) /\ p \div 4 \in Nat
  BY <1>1, DivSmaller DEF TInv, ProgT
<1>3. p \div 4 + 1 \in 1 .. Len(program)
  BY <1>1, <1>2
<1>4. InsOf(t) \in Good
  BY <1>2, <1>3, ElementOfSeq DEF InsOf, Ins
<1>5. QED
  BY <1>1, <1>4 DEF Good, Decoded

(* What stays, stays right. *)
LEMMA OperandsKept ==
  ASSUME Stable, TInv, PcInv, NEW e, e.tag \in Tag, Live(e.tag), Live(e.tag)',
         Awaits(e.tag, e.qj), Awaits(e.tag, e.qk), Operands(e)
  PROVE  Operands(e)'
<1>1. /\ InsOf(e.tag)' = InsOf(e.tag)
      /\ \A r \in Reg \cup {NoReg} : \A v, q :
           Awaits(e.tag, q) /\ Reads(e.tag, r, v, q) => Reads(e.tag, r, v, q)'
  BY DEF Stable
<1>2. InsOf(e.tag).rs1 \in Reg \cup {NoReg} /\ InsOf(e.tag).rs2 \in Reg \cup {NoReg}
  BY InsTyped
<1> PICK r1, r2 : r1 = InsOf(e.tag).rs1 /\ r2 = InsOf(e.tag).rs2
  OBVIOUS
<1>3. Reads(e.tag, r1, e.vj, e.qj)' /\ Reads(e.tag, r2, e.vk, e.qk)'
  BY <1>1, <1>2 DEF Operands
<1>4. QED
  BY <1>1, <1>3 DEF Operands

LEMMA RsKept ==
  ASSUME Stable, TInv, PcInv, NEW e, e.tag \in Tag, Live(e.tag), Live(e.tag)',
         RsWake(e), RsValue(e)
  PROVE  RsValue(e)'
<1>1. Operands(e)'
  BY OperandsKept DEF RsWake, RsValue
<1>2. robEntries'[e.tag].info = robEntries[e.tag].info
  BY DEF Stable
<1>3. QED
  BY <1>1, <1>2 DEF RsValue

LEMMA LsbKept ==
  ASSUME Stable, TInv, PcInv, NEW e, e.tag \in Tag, Live(e.tag), Live(e.tag)',
         LsbWake(e), LsbValue(e)
  PROVE  LsbValue(e)'
  BY OperandsKept DEF LsbWake, LsbValue

LEMMA WorthStays ==
  ASSUME Stable, NEW t \in Tag, Live(t), Live(t)', NEW r \in Reg \cup {NoReg},
         NEW v, Worth(t, r, v)
  PROVE  Worth(t, r, v)'
<1>1. Awaits(t, NoTag) /\ Reads(t, r, v, NoTag)
  BY DEF Awaits, Reads
<1>2. Reads(t, r, v, NoTag)'
  BY <1>1 DEF Stable
<1>3. QED
  BY <1>2 DEF Reads

LEMMA ComputedKept ==
  ASSUME Stable, TInv, PcInv, NEW t \in Tag, Done(t), Live(t)', Computed(t)
  PROVE  Computed(t)'
<1>1. Live(t)
  BY DEF Live, Done
<1>2. PICK a \in Word, b \in Word :
        /\ Worth(t, InsOf(t).rs1, a) /\ Worth(t, InsOf(t).rs2, b)
        /\ robEntries[t].result =
             execute_op(InsOf(t).op, a, b, InsOf(t).imm, robEntries[t].info.pc)
  BY DEF Computed
<1>3. robEntries'[t] = robEntries[t] /\ InsOf(t)' = InsOf(t)
  BY <1>1 DEF Stable
<1> PICK r1 \in Reg \cup {NoReg}, r2 \in Reg \cup {NoReg} :
      r1 = InsOf(t).rs1 /\ r2 = InsOf(t).rs2
  BY <1>1, InsTyped
<1>4. Worth(t, r1, a)' /\ Worth(t, r2, b)'
  BY <1>1, <1>2, WorthStays
<1>5. QED
  BY <1>2, <1>3, <1>4 DEF Computed

-----------------------------------------------------------------------------
(* What the stations' operations do to the values.                         *)

Carried(e, f) ==
  /\ f.vj = e.vj /\ f.vk = e.vk /\ f.imm = e.imm /\ f.pc = e.pc
  /\ f.done /\ ~e.done => f.result = execute_op(f.op, f.vj, f.vk, f.imm, f.pc)

LEMMA FinishValues ==
  ASSUME NEW e \in RsEntry
  PROVE  Carried(e, RS!Finish(e))
<1>1. execute_op(e.op, e.vj, e.vk, e.imm, e.pc) \in Word
  BY ExecuteIsWord DEF RsEntry
<1> PICK x : x = execute_op(e.op, e.vj, e.vk, e.imm, e.pc)
  OBVIOUS
<1>2. RS!Finish(e) = [e EXCEPT !.rem = 0, !.result = x, !.done = TRUE]
  BY DEF RS!Finish, RS!Result
<1>3. /\ RS!Finish(e).vj = e.vj /\ RS!Finish(e).vk = e.vk /\ RS!Finish(e).imm = e.imm
      /\ RS!Finish(e).pc = e.pc /\ RS!Finish(e).op = e.op /\ RS!Finish(e).result = x
  BY <1>2 DEF RsEntry
<1>4. QED
  BY <1>3 DEF Carried

LEMMA RsTickValues ==
  ASSUME RsT, RS!tick, NEW s \in Station, NEW i \in RS!RSlot(s)
  PROVE  Carried(rs[s][i], rs'[s][i])
<1> DEFINE counted == [j \in DOMAIN rs[s] |-> RS!CountDown(rs[s][j])]
           e == rs[s][i]
           c == RS!CountDown(e)
<1>1. e \in RsEntry /\ DOMAIN rs[s] = RS!RSlot(s)
  BY DEF RsT
<1>2. rs'[s][i] = IF RS!Starts(counted, i) THEN RS!Start(counted[i]) ELSE counted[i]
  BY <1>1 DEF RS!tick, RS!Ticked
<1>3. rs'[s][i] = c \/ (RS!Ready(c) /\ rs'[s][i] = RS!Start(c))
  BY <1>1, <1>2 DEF RS!Starts
<1>4. Carried(e, c)
  <2>1. CASE RS!Executing(e) /\ e.rem = 1
    BY <1>1, <2>1, FinishValues DEF RS!CountDown
  <2>2. CASE RS!Executing(e) /\ e.rem # 1
    <3>1. c = [e EXCEPT !.rem = e.rem - 1]
      BY <2>2 DEF RS!CountDown
    <3>2. QED
      BY <1>1, <3>1 DEF Carried, RsEntry
  <2>3. CASE ~RS!Executing(e)
    BY <2>3 DEF RS!CountDown, Carried
  <2>4. QED
    BY <2>1, <2>2, <2>3
<1>5. c \in RsEntry /\ Advanced(e, c)
  BY <1>1, CountDownEffect DEF Advanced
<1> HIDE DEF c, e, counted
<1>6. ASSUME RS!Ready(c), rs'[s][i] = RS!Start(c)
      PROVE  Carried(c, rs'[s][i]) /\ rs'[s][i].op = c.op
  <2>1. CASE latency_of(c.op) <= 1
    <3>1. RS!Start(c) = RS!Finish(c)
      BY <2>1 DEF RS!Start
    <3>2. RS!Finish(c).op = c.op /\ Carried(c, RS!Finish(c))
      BY <1>5, FinishValues, FinishTyped
    <3>3. QED
      BY <1>6, <3>1, <3>2
  <2>2. CASE ~(latency_of(c.op) <= 1)
    <3> PICK n : n = latency_of(c.op) - 1
      OBVIOUS
    <3>1. RS!Start(c) = [c EXCEPT !.rem = n]
      BY <2>2 DEF RS!Start
    <3>2. /\ RS!Start(c).vj = c.vj /\ RS!Start(c).vk = c.vk /\ RS!Start(c).imm = c.imm
          /\ RS!Start(c).pc = c.pc /\ RS!Start(c).op = c.op /\ RS!Start(c).done = c.done
      BY <1>5, <3>1 DEF RsEntry
    <3>3. QED
      BY <1>6, <3>2 DEF Carried
  <2>3. QED
    BY <2>1, <2>2
<1>7. CASE RS!Ready(c) /\ rs'[s][i] = RS!Start(c)
  <2>1. ~c.done
    BY <1>7 DEF RS!Ready
  <2>2. QED
    BY <1>4, <1>6, <1>7, <2>1 DEF Carried, e
<1>8. QED
  BY <1>3, <1>4, <1>7 DEF e

(* The value a woken operand gets. *)
Caught(v, q) == IF CDB!OnBus(q) THEN CDB!BusValue(q) ELSE v

LEMMA CapturedRsValues ==
  ASSUME CdbT, NEW e \in RsEntry
  PROVE  /\ CDB!Captured(e).vj = Caught(e.vj, e.qj)
         /\ CDB!Captured(e).vk = Caught(e.vk, e.qk)
<1>1. CDB!Captured(e) = [e EXCEPT !.vj = Caught(e.vj, e.qj), !.qj = Woken(e.qj),
                                  !.vk = Caught(e.vk, e.qk), !.qk = Woken(e.qk)]
  BY DEF CDB!Captured, Woken, NoTag, Caught
<1>2. QED
  BY <1>1 DEF RsEntry

LEMMA CapturedLsbValues ==
  ASSUME CdbT, NEW e \in LsbEntry
  PROVE  /\ CDB!Captured(e).vj = Caught(e.vj, e.qj)
         /\ CDB!Captured(e).vk = Caught(e.vk, e.qk)
         /\ \A x \in {"imm", "addr", "result"} : CDB!Captured(e)[x] = e[x]
<1>1. CDB!Captured(e) = [e EXCEPT !.vj = Caught(e.vj, e.qj), !.qj = Woken(e.qj),
                                  !.vk = Caught(e.vk, e.qk), !.qk = Woken(e.qk)]
  BY DEF CDB!Captured, Woken, NoTag, Caught
<1>2. QED
  BY <1>1 DEF LsbEntry

LEMMA RsSnoopValues ==
  ASSUME RsT, CdbT, RS!snoop, NEW s \in Station, NEW i \in RS!RSlot(s)
  PROVE  LET e == rs[s][i]
             f == rs'[s][i]
             w == e.busy /\ ~e.done
         IN  /\ f.imm = e.imm /\ f.pc = e.pc /\ f.result = e.result
             /\ f.vj = IF w THEN Caught(e.vj, e.qj) ELSE e.vj
             /\ f.vk = IF w THEN Caught(e.vk, e.qk) ELSE e.vk
<1>1. /\ rs[s][i] \in RsEntry
      /\ rs'[s][i] = IF rs[s][i].busy /\ ~rs[s][i].done THEN CDB!Captured(rs[s][i]) ELSE rs[s][i]
  BY SameBus DEF RsT, RS!snoop
<1>2. /\ \A x \in {"busy", "done", "op", "tag", "imm", "pc", "rem", "result"} :
           CDB!Captured(rs[s][i])[x] = rs[s][i][x]
      /\ CDB!Captured(rs[s][i]).vj = Caught(rs[s][i].vj, rs[s][i].qj)
      /\ CDB!Captured(rs[s][i]).vk = Caught(rs[s][i].vk, rs[s][i].qk)
  BY <1>1, CapturedRs, CapturedRsValues
<1>3. QED
  BY <1>1, <1>2

(* A station after issue: the new entry, and the old ones. *)
LEMMA RsIssueValues ==
  ASSUME RsT, NEW s \in Station, NEW i \in Instr, NEW t \in Tag,
         NEW a \in Operand, NEW b \in Operand, RS!issue(s, i, t, a, b),
         NEW u \in Station, NEW j \in RS!RSlot(u)
  PROVE  \/ rs'[u][j] = rs[u][j]
         \/ /\ rs'[u][j].tag = t /\ ~rs'[u][j].done
            /\ rs'[u][j].imm = i.imm /\ rs'[u][j].pc = i.pc
            /\ rs'[u][j].vj = a.v /\ rs'[u][j].qj = a.q
            /\ rs'[u][j].vk = b.v /\ rs'[u][j].qk = b.q
<1> DEFINE e == [RS!FreeEntry EXCEPT !.busy = TRUE, !.op = i.op, !.tag = t, !.imm = i.imm,
                   !.pc = i.pc, !.vj = a.v, !.qj = a.q, !.vk = b.v, !.qk = b.q]
<1>1. /\ e.tag = t /\ ~e.done /\ e.imm = i.imm /\ e.pc = i.pc
      /\ e.vj = a.v /\ e.qj = a.q /\ e.vk = b.v /\ e.qk = b.q
  BY DEF RS!FreeEntry
<1>2. rs' = [rs EXCEPT ![s][RS!FreeSlot(s)] = e]
  BY DEF RS!issue
<1> HIDE DEF e
<1>3. rs'[u][j] = e \/ rs'[u][j] = rs[u][j]
  BY <1>2 DEF RsT
<1>4. QED
  BY <1>1, <1>3

LEMMA LsbIssueValues ==
  ASSUME LsbShape, NEW i \in Instr, NEW t \in Tag, NEW a \in Operand, NEW b \in Operand,
         LSB!issue(i, t, a, b), NEW n, n = lsbCount
  PROVE  /\ LSB!At(n)'.imm = i.imm
         /\ LSB!At(n)'.vj = a.v /\ LSB!At(n)'.vk = b.v
<1> DEFINE e == [LSB!IdleEntry EXCEPT !.state = "WAITING", !.op = i.op, !.tag = t,
                   !.imm = i.imm, !.vj = a.v, !.qj = a.q, !.vk = b.v, !.qk = b.q]
<1>1. e.imm = i.imm /\ e.vj = a.v /\ e.vk = b.v
  BY DEF LSB!IdleEntry
<1>2. lsbEntries' = [lsbEntries EXCEPT ![lsbTail] = e]
      /\ lsbHead' = lsbHead /\ lsbCount \in 0 .. LsbSize - 1
  BY Sizes DEF LSB!issue, LSB!full, LsbShape
<1> HIDE DEF e
<1>3. LSB!phys(n)' = LSB!phys(n) /\ LSB!phys(n) = lsbTail
  BY <1>2, PhysPos, Sizes DEF LSB!phys, LsbShape
<1>4. LSB!At(n)' = e
  BY <1>2, <1>3 DEF LSB!At, LsbShape
<1>5. QED
  BY <1>1, <1>4

-----------------------------------------------------------------------------
(* What tick of the LSB does to the values.                                *)

(* The entries after passes 1 and 2. *)
Old == [j \in LSB!Position |-> LSB!Addressed(LSB!At(j))]

LEMMA AddressedValues ==
  ASSUME NEW e \in LsbEntry
  PROVE  LET a == LSB!Addressed(e) IN
         /\ a.vj = e.vj /\ a.vk = e.vk /\ a.imm = e.imm /\ a.op = e.op
         /\ e.state = "WAITING" /\ e.qj = NoTag =>
              a.addr = Wrap(e.vj + e.imm) /\ a.state \in {"ADDR_READY", "DONE"}
         /\ e.state = "WAITING" /\ e.qj # NoTag => a = e
         /\ e.state # "WAITING" => a.addr = e.addr /\ a.state # "WAITING"
         /\ e.state \in {"EXECUTING", "DONE"} => a = e
         /\ a.state = "EXECUTING" \/ (is_load(e.op) /\ a.state = "DONE") => a = e
<1> DEFINE b == IF e.state = "WAITING" /\ e.qj = NoTag
                  THEN [e EXCEPT !.addr = Wrap(e.vj + e.imm), !.state = "ADDR_READY"] ELSE e
           a == LSB!Addressed(e)
<1>1. a = IF b.state = "ADDR_READY" /\ is_store(b.op) /\ b.qk = NoTag
            THEN [b EXCEPT !.state = "DONE"] ELSE b
  BY DEF LSB!Addressed
<1>2. /\ b.vj = e.vj /\ b.vk = e.vk /\ b.imm = e.imm /\ b.op = e.op /\ DOMAIN b = DOMAIN e
      /\ e.state = "WAITING" /\ e.qj = NoTag =>
           b.addr = Wrap(e.vj + e.imm) /\ b.state = "ADDR_READY"
      /\ ~(e.state = "WAITING" /\ e.qj = NoTag) => b = e
  <2>1. CASE e.state = "WAITING" /\ e.qj = NoTag
    BY <2>1 DEF LsbEntry
  <2>2. CASE ~(e.state = "WAITING" /\ e.qj = NoTag)
    BY <2>2
  <2>3. QED
    BY <2>1, <2>2
<1> HIDE DEF a, b
<1>3. CASE b.state = "ADDR_READY" /\ is_store(b.op) /\ b.qk = NoTag
  <2>1. /\ a.vj = b.vj /\ a.vk = b.vk /\ a.imm = b.imm /\ a.op = b.op /\ a.addr = b.addr
        /\ a.state = "DONE"
    BY <1>1, <1>2, <1>3 DEF LsbEntry
  <2>2. ~is_load(e.op)
    BY <1>2, <1>3, OpKinds
  <2>3. QED
    BY <1>2, <1>3, <2>1, <2>2 DEF a
<1>4. CASE ~(b.state = "ADDR_READY" /\ is_store(b.op) /\ b.qk = NoTag)
  BY <1>1, <1>2, <1>4 DEF a
<1>5. QED
  BY <1>3, <1>4

LEMMA LoadedValues ==
  ASSUME NEW e \in LsbEntry
  PROVE  LET a == LSB!Loaded(e) IN
         /\ a.vj = e.vj /\ a.vk = e.vk /\ a.imm = e.imm /\ a.addr = e.addr
         /\ a.state = "DONE" /\ a.result = LSB!ReadMem(e.addr)
  BY DEF LSB!Loaded, LsbEntry

(* A load that is not blocked: forwarded, read or started. *)
Served(k, old, f) ==
  /\ ~LSB!Blocked(k, old)
  /\ \/ /\ LSB!Aliasing(k, old) # {} /\ f.state = "DONE"
        /\ f.result = old[LSB!Max(LSB!Aliasing(k, old))].vk
     \/ /\ LSB!Aliasing(k, old) = {}
        /\ f.state = "EXECUTING" \/ (f.state = "DONE" /\ f.result = LSB!ReadMem(f.addr))

LEMMA ExecuteLoadValues ==
  ASSUME NEW k, NEW old, old[k] \in LsbEntry
  PROVE  LET e == old[k]
             x == LSB!ExecuteLoad(k, old)
         IN  /\ x.vj = e.vj /\ x.vk = e.vk /\ x.imm = e.imm /\ x.addr = e.addr
             /\ \/ x = e
                \/ e.state = "ADDR_READY" /\ is_load(e.op) /\ Served(k, old, x)
<1> DEFINE e == old[k]
           x == LSB!ExecuteLoad(k, old)
<1>1. CASE e.state # "ADDR_READY" \/ ~is_load(e.op) \/ LSB!Blocked(k, old)
  BY <1>1 DEF LSB!ExecuteLoad
<1>2. CASE ~(e.state # "ADDR_READY" \/ ~is_load(e.op) \/ LSB!Blocked(k, old))
  <2>1. CASE LSB!Aliasing(k, old) # {}
    <3> PICK v : v = old[LSB!Max(LSB!Aliasing(k, old))].vk
      OBVIOUS
    <3>1. x = [e EXCEPT !.result = v, !.state = "DONE"]
      BY <1>2, <2>1 DEF LSB!ExecuteLoad
    <3>2. /\ x.vj = e.vj /\ x.vk = e.vk /\ x.imm = e.imm /\ x.addr = e.addr
          /\ x.state = "DONE" /\ x.result = v
      BY <3>1 DEF LsbEntry
    <3>3. QED
      BY <1>2, <2>1, <3>2 DEF Served
  <2>2. CASE LSB!Aliasing(k, old) = {} /\ latency_of(e.op) <= 1
    <3>1. x = LSB!Loaded(e)
      BY <1>2, <2>2 DEF LSB!ExecuteLoad
    <3>2. /\ x.vj = e.vj /\ x.vk = e.vk /\ x.imm = e.imm /\ x.addr = e.addr
          /\ x.state = "DONE" /\ x.result = LSB!ReadMem(e.addr)
      BY <3>1, LoadedValues
    <3>3. QED
      BY <1>2, <2>2, <3>2 DEF Served
  <2>3. CASE LSB!Aliasing(k, old) = {} /\ ~(latency_of(e.op) <= 1)
    <3> PICK r : r = latency_of(e.op) - 1
      OBVIOUS
    <3>1. x = [e EXCEPT !.rem = r, !.state = "EXECUTING"]
      BY <1>2, <2>3 DEF LSB!ExecuteLoad
    <3>2. /\ x.vj = e.vj /\ x.vk = e.vk /\ x.imm = e.imm /\ x.addr = e.addr
          /\ x.state = "EXECUTING"
      BY <3>1 DEF LsbEntry
    <3>3. QED
      BY <1>2, <2>3, <3>2 DEF Served
  <2>4. QED
    BY <2>1, <2>2, <2>3
<1>3. QED
  BY <1>1, <1>2

LEMMA LsbCountDownValues ==
  ASSUME NEW e \in LsbEntry
  PROVE  LET c == LSB!CountDown(e) IN
         /\ c.vj = e.vj /\ c.vk = e.vk /\ c.imm = e.imm /\ c.addr = e.addr
         /\ e.state # "EXECUTING" => c = e
         /\ e.state = "EXECUTING" =>
              c.state = "EXECUTING" \/ (c.state = "DONE" /\ c.result = LSB!ReadMem(c.addr))
<1>1. CASE e.state # "EXECUTING"
  BY <1>1 DEF LSB!CountDown
<1>2. CASE e.state = "EXECUTING" /\ e.rem = 1
  <2>1. LSB!CountDown(e) = LSB!Loaded(e)
    BY <1>2 DEF LSB!CountDown
  <2>2. QED
    BY <1>2, <2>1, LoadedValues
<1>3. CASE e.state = "EXECUTING" /\ e.rem # 1
  <2> PICK n : n = e.rem - 1
    OBVIOUS
  <2>1. LSB!CountDown(e) = [e EXCEPT !.rem = n]
    BY <1>3 DEF LSB!CountDown
  <2>2. QED
    BY <1>3, <2>1 DEF LsbEntry
<1>4. QED
  BY <1>1, <1>2, <1>3

LEMMA LsbTicked ==
  ASSUME MemT, LsbT, LSB!tick
  PROVE  /\ LSB!Position' = LSB!Position
         /\ \A k \in LSB!Position : /\ Old[k] = LSB!Addressed(LSB!At(k)) /\ Old[k] \in LsbEntry
                                    /\ LSB!ExecuteLoad(k, Old) \in LsbEntry
                                    /\ LSB!At(k)' = LSB!CountDown(LSB!ExecuteLoad(k, Old))
<1> DEFINE f == [k \in LSB!Position |-> LSB!CountDown(LSB!ExecuteLoad(k, Old))]
<1>1. lsbEntries' = LSB!Rewritten(f) /\ UNCHANGED <<lsbHead, lsbTail, lsbCount>>
  BY DEF LSB!tick, Old
<1>2. lsbCount \in Nat /\ LSB!Position = 0 .. lsbCount - 1
  BY Sizes DEF LsbT, LsbShape, LSB!Position
<1>3. ASSUME NEW k \in LSB!Position
      PROVE  Old[k] = LSB!Addressed(LSB!At(k)) /\ Old[k] \in LsbEntry /\ Counting(Old[k])
  <2>1. LSB!At(k) \in LsbEntry /\ Counting(LSB!At(k))
    BY AtTyped DEF LsbT
  <2>2. QED
    BY <2>1, AddressedEffect DEF LsbAdvanced, Old
<1>4. Old \in [LSB!Position -> LsbEntry]
  BY <1>3 DEF Old
<1>5. ASSUME NEW k \in LSB!Position
      PROVE  LSB!ExecuteLoad(k, Old) \in LsbEntry /\ f[k] \in LsbEntry
  <2>1. LSB!ExecuteLoad(k, Old) \in LsbEntry /\ Counting(LSB!ExecuteLoad(k, Old))
    BY <1>2, <1>3, <1>4, ExecuteLoadEffect DEF LsbAdvanced
  <2>2. QED
    BY <2>1, LsbCountDownEffect
<1>6. \A k \in LSB!Position : LSB!At(k)' = f[k]
  <2> HIDE DEF f
  <2>1. QED
    BY <1>1, <1>5, RewrittenAt DEF LsbT
<1>7. LSB!Position' = LSB!Position
  BY <1>1 DEF LSB!Position
<1>8. QED
  BY <1>3, <1>5, <1>6, <1>7

(* tick at one position. *)
LEMMA LsbTickValues ==
  ASSUME MemT, LsbT, LSB!tick, NEW k \in LSB!Position, NEW e, NEW f,
         e = LSB!At(k), f = LSB!At(k)'
  PROVE  /\ f.vj = e.vj /\ f.vk = e.vk /\ f.imm = e.imm /\ f.op = e.op
         /\ f.addr = Old[k].addr
         /\ e.state = "WAITING" /\ f.state # "WAITING" => f.addr = Wrap(e.vj + e.imm)
         /\ e.state # "WAITING" => f.addr = e.addr /\ f.state # "WAITING"
         /\ e.state = "DONE" => f = e
         /\ is_store(e.op) => f = Old[k]
         /\ is_load(e.op) /\ f.state \in {"EXECUTING", "DONE"} =>
              \/ e.state = "DONE"
              \/ /\ e.state = "EXECUTING"
                 /\ f.state = "EXECUTING" \/ (f.state = "DONE" /\ f.result = LSB!ReadMem(f.addr))
              \/ e.state \notin {"EXECUTING", "DONE"} /\ Served(k, Old, f)
<1> PICK x : x = LSB!ExecuteLoad(k, Old)
  OBVIOUS
<1> PICK a : a = Old[k]
  OBVIOUS
<1>1. /\ a = LSB!Addressed(e) /\ a \in LsbEntry /\ x \in LsbEntry /\ f = LSB!CountDown(x)
      /\ e \in LsbEntry
  BY LsbTicked, AtTyped DEF LsbT
<1>2. /\ a.vj = e.vj /\ a.vk = e.vk /\ a.imm = e.imm /\ a.op = e.op
      /\ e.state = "WAITING" /\ e.qj = NoTag =>
           a.addr = Wrap(e.vj + e.imm) /\ a.state \in {"ADDR_READY", "DONE"}
      /\ e.state = "WAITING" /\ e.qj # NoTag => a = e
      /\ e.state # "WAITING" => a.addr = e.addr /\ a.state # "WAITING"
      /\ e.state \in {"EXECUTING", "DONE"} => a = e
      /\ a.state = "EXECUTING" \/ (is_load(e.op) /\ a.state = "DONE") => a = e
  BY <1>1, AddressedValues
<1>3. /\ x.vj = a.vj /\ x.vk = a.vk /\ x.imm = a.imm /\ x.addr = a.addr
      /\ x = a \/ (a.state = "ADDR_READY" /\ is_load(a.op) /\ Served(k, Old, x))
  <2>1. Old[k] \in LsbEntry
    BY <1>1
  <2>2. LET c == Old[k]
            y == LSB!ExecuteLoad(k, Old)
        IN  /\ y.vj = c.vj /\ y.vk = c.vk /\ y.imm = c.imm /\ y.addr = c.addr
            /\ \/ y = c
               \/ c.state = "ADDR_READY" /\ is_load(c.op) /\ Served(k, Old, y)
    BY <2>1, ExecuteLoadValues
  <2>3. QED
    BY <2>2
<1>4. /\ f.vj = x.vj /\ f.vk = x.vk /\ f.imm = x.imm /\ f.addr = x.addr
      /\ x.state # "EXECUTING" => f = x
      /\ x.state = "EXECUTING" =>
           f.state = "EXECUTING" \/ (f.state = "DONE" /\ f.result = LSB!ReadMem(f.addr))
  BY <1>1, LsbCountDownValues
<1>5. f.op = e.op /\ (e.state = "DONE" => f = e)
      /\ (e.state = "EXECUTING" => ~is_store(e.op))
  BY LsbTickEffect DEF LsbT, LsbAdvanced, OnlyLoads
<1>6. CASE x = a
  <2>1. CASE x.state = "EXECUTING"
    BY <1>2, <1>3, <1>4, <1>5, <1>6, <2>1, OpKinds
  <2>2. CASE x.state # "EXECUTING"
    BY <1>2, <1>3, <1>4, <1>5, <1>6, <2>2
  <2>3. QED
    BY <2>1, <2>2
<1>7. CASE a.state = "ADDR_READY" /\ is_load(a.op) /\ Served(k, Old, x)
  <2>1. Served(k, Old, f) /\ f.state \in {"EXECUTING", "DONE"}
    <3>1. CASE x.state = "EXECUTING"
      BY <1>4, <1>7, <3>1 DEF Served
    <3>2. CASE x.state # "EXECUTING"
      BY <1>4, <1>7, <3>2 DEF Served
    <3>3. QED
      BY <3>1, <3>2
  <2>2. e.state \notin {"EXECUTING", "DONE"} /\ ~is_store(e.op)
    BY <1>2, <1>7, OpKinds
  <2>3. QED
    BY <1>2, <1>3, <1>4, <1>5, <1>7, <2>1, <2>2
<1>8. QED
  BY <1>3, <1>6, <1>7

-----------------------------------------------------------------------------
(* Every value in the pipeline is right.                                   *)

LEMMA ValueInit == Init => ValueInv
<1> SUFFICES ASSUME Init PROVE ValueInv
  OBVIOUS
<1>1. \A s \in Station : \A i \in RS!RSlot(s) : ~rs[s][i].busy
  BY DEF Init, RS!Init, RS!FreeEntry
<1>2. LSB!Position = {}
  BY DEF Init, LSB!Init, LSB!Position
<1>3. \A t \in Tag : ~Done(t)
  BY DEF Init, ROB!Init, ROB!IdleEntry, Done, Tag
<1>4. phase = "parse"
  BY DEF Init
<1>5. QED
  BY <1>1, <1>2, <1>3, <1>4 DEF ValueInv, RsValues, LsbValues, Results, BusValues

(* Nothing enters the stations or the LSB, nothing in them changes. *)
KeptPlaces ==
  /\ \A s \in Station : \A i \in RS!RSlot(s) : rs'[s][i].busy => rs'[s][i] = rs[s][i]
  /\ \A k \in LSB!Position' : \E j \in LSB!Position : LSB!At(k)' = LSB!At(j)

LEMMA KeptSteps ==
  ASSUME PipelineInv,
         \/ AnyWrite \/ AnyCommit \/ AnyParse
         \/ (AnyOther /\ ~Execute /\ ~Snoop) \/ UNCHANGED vars
  PROVE  KeptPlaces
<1>0. RobOK /\ TInv /\ LsbShape /\ PlaceInv
  BY DEF PipelineInv, TInv, LsbT
<1>1. ASSUME UNCHANGED lsbVars
      PROVE  \A k \in LSB!Position' : \E j \in LSB!Position : LSB!At(k)' = LSB!At(j)
  BY <1>1 DEF lsbVars, LSB!Position, LSB!At, LSB!phys
<1>2. ASSUME LSB!Pop, ~LSB!empty
      PROVE  \A k \in LSB!Position' : \E j \in LSB!Position : LSB!At(k)' = LSB!At(j)
  <2>1. \A k \in LSB!Position' : k + 1 \in LSB!Position /\ LSB!At(k)' = LSB!At(k + 1)
    BY <1>0, <1>2, LsbShifted
  <2>2. QED
    BY <2>1
<1>3. CASE BroadcastStation
  <2>1. PICK k \in DOMAIN StationOrder : RS!pop_result(StationOrder[k]) /\ UNCHANGED lsbVars
    BY <1>3 DEF BroadcastStation
  <2>2. StationOrder[k] \in Station
    BY DEF Station
  <2>3. PICK d \in RS!RSlot(StationOrder[k]) :
          /\ ~rs'[StationOrder[k]][d].busy
          /\ \A u \in Station : \A j \in RS!RSlot(u) :
               u # StationOrder[k] \/ j # d => rs'[u][j] = rs[u][j]
    BY <1>0, <2>1, <2>2, RsPopEffect DEF TInv
  <2>4. QED
    BY <1>1, <2>1, <2>3 DEF KeptPlaces
<1>4. CASE BroadcastLoad
  <2>1. LSB!Pop /\ ~LSB!empty /\ UNCHANGED rs
    BY <1>4 DEF BroadcastLoad, LSB!pop_load_result, LSB!has_load_result
  <2>2. QED
    BY <1>2, <2>1 DEF KeptPlaces
<1>5. CASE CommitStore
  <2>1. LSB!Pop /\ ~LSB!empty /\ UNCHANGED rs
    BY <1>5 DEF CommitStore, Committing, LSB!commit_store, LSB!can_commit_store
  <2>2. QED
    BY <1>2, <2>1 DEF KeptPlaces
<1>6. CASE \/ NotifyStore \/ CommitHalt \/ CommitBranch \/ CommitJump \/ CommitResult
           \/ AnyParse \/ (AnyOther /\ ~Execute /\ ~Snoop) \/ UNCHANGED vars
  <2>1. UNCHANGED <<rs, lsbVars>>
    BY <1>6 DEF NotifyStore, CommitHalt, CommitBranch, CommitJump, CommitResult, Committing,
       AnyOther, AnyParse, vars, Parse, LoadProgram, NoInstructions, Returned, pipeVars,
       StoresNotified, BroadcastEnds, CommitNothing, Fetch,
       FetchStalled, DispatchEnds, NextCycle, Report
  <2>2. QED
    BY <1>1, <2>1 DEF KeptPlaces
<1>7. QED
  BY <1>3, <1>4, <1>5, <1>6 DEF AnyWrite, AnyCommit

LEMMA KeptValues ==
  ASSUME PipelineInv, PipelineInv', PcInv, ValueInv, Stable, KeptPlaces
  PROVE  RsValues' /\ LsbValues'
<1>0. TInv
  BY DEF PipelineInv
<1>1. ASSUME NEW s \in Station, NEW i \in RS!RSlot(s), rs'[s][i].busy
      PROVE  RsValue(rs[s][i])'
  <2> PICK e : e = rs[s][i]
    OBVIOUS
  <2>1. rs'[s][i] = e /\ e.busy
    BY <1>1 DEF KeptPlaces
  <2>2. /\ RsFits(e) /\ RsWake(e) /\ RsValue(e)
    BY <2>1 DEF PipelineInv, PlaceInv, RsPlace, WakeInv, ValueInv, RsValues
  <2>3. RsFits(e)'
    BY <2>1 DEF PipelineInv, PlaceInv, RsPlace, RsFits
  <2>4. e.tag \in Tag /\ Live(e.tag) /\ Live(e.tag)'
    BY <2>2, <2>3 DEF RsFits, InFlight, Live
  <2>5. RsValue(e)'
    BY <1>0, <2>2, <2>4, RsKept
  <2>6. QED
    BY <2>1, <2>5 DEF RsValue
<1>2. ASSUME NEW k \in LSB!Position'
      PROVE  LsbValue(LSB!At(k))'
  <2>1. PICK j \in LSB!Position : LSB!At(k)' = LSB!At(j)
    BY DEF KeptPlaces
  <2> PICK e : e = LSB!At(j)
    OBVIOUS
  <2>2. LsbFits(e) /\ LsbWake(e) /\ LsbValue(e)
    BY DEF PipelineInv, PlaceInv, LsbPlace, WakeInv, ValueInv, LsbValues
  <2>3. LsbFits(e)'
    BY <2>1 DEF PipelineInv, PlaceInv, LsbPlace, LsbFits
  <2>4. e.tag \in Tag /\ Live(e.tag) /\ Live(e.tag)'
    BY <2>2, <2>3 DEF LsbFits
  <2>5. LsbValue(e)'
    BY <1>0, <2>2, <2>4, LsbKept
  <2>6. QED
    BY <2>1, <2>5 DEF LsbValue
<1>3. QED
  BY <1>1, <1>2 DEF RsValues, LsbValues

LEMMA ExecuteValues ==
  ASSUME PipelineInv, PcInv, ValueInv, Stable, Execute
  PROVE  RsValues' /\ LsbValues'
<1>0. TInv /\ RsT /\ MemT /\ LsbT
  BY DEF PipelineInv, TInv
<1>1. RS!tick /\ LSB!tick /\ UNCHANGED robVars
  BY DEF Execute
<1>2. \A t : Live(t) => Live(t)'
  BY <1>1 DEF Live, robVars
<1>3. ASSUME NEW s \in Station, NEW i \in RS!RSlot(s), rs'[s][i].busy
      PROVE  RsValue(rs[s][i])'
  <2> PICK e, f : e = rs[s][i] /\ f = rs'[s][i]
    OBVIOUS
  <2>1. Advanced(e, f) /\ Carried(e, f)
    BY <1>0, <1>1, RsTickEffect, RsTickValues
  <2>2. e.busy /\ RsFits(e) /\ RsWake(e) /\ RsValue(e)
    BY <1>3, <2>1 DEF PipelineInv, PlaceInv, RsPlace, WakeInv, ValueInv, RsValues, Advanced
  <2>3. e.tag \in Tag /\ Live(e.tag) /\ Live(e.tag)'
    BY <1>2, <2>2 DEF RsFits, InFlight, Live
  <2>4. RsValue(e)'
    BY <1>0, <2>2, <2>3, RsKept
  <2>5. Operands(f)' /\ f.pc = robEntries'[f.tag].info.pc
    BY <2>1, <2>4 DEF RsValue, Operands, Advanced, Carried
  <2>6. f.done => f.result = execute_op(f.op, f.vj, f.vk, f.imm, f.pc)
    <3>1. CASE e.done
      BY <2>1, <2>4, <3>1 DEF RsValue, Advanced
    <3>2. CASE ~e.done
      BY <2>1, <3>2 DEF Carried
    <3>3. QED
      BY <3>1, <3>2
  <2>7. RsValue(f)'
    BY <2>5, <2>6 DEF RsValue
  <2>8. QED
    BY <2>7 DEF RsValue
<1>4. LSB!Position' = LSB!Position
  BY <1>0, <1>1, LsbTicked
<1>5. ASSUME NEW k \in LSB!Position
      PROVE  LsbValue(LSB!At(k))'
  <2> PICK e, f : e = LSB!At(k) /\ f = LSB!At(k)'
    OBVIOUS
  <2>1. LsbFits(e) /\ LsbWake(e) /\ LsbValue(e)
    BY DEF PipelineInv, PlaceInv, LsbPlace, WakeInv, ValueInv, LsbValues
  <2>2. e.tag \in Tag /\ Live(e.tag) /\ Live(e.tag)'
    BY <1>2, <2>1 DEF LsbFits
  <2>3. LsbValue(e)'
    BY <1>0, <2>1, <2>2, LsbKept
  <2>4. LsbAdvanced(e, f)
    BY <1>0, <1>1, LsbTickEffect DEF LsbT
  <2>5. /\ f.vj = e.vj /\ f.vk = e.vk /\ f.imm = e.imm
        /\ e.state = "WAITING" /\ f.state # "WAITING" => f.addr = Wrap(e.vj + e.imm)
        /\ e.state # "WAITING" => f.addr = e.addr
    BY <1>0, <1>1, LsbTickValues
  <2>6. Operands(f)'
    BY <2>3, <2>4, <2>5 DEF LsbValue, Operands, LsbAdvanced
  <2>7. f.state # "WAITING" => f.addr = Wrap(f.vj + f.imm)
    BY <2>1, <2>5 DEF LsbValue
  <2>8. LsbValue(f)'
    BY <2>6, <2>7 DEF LsbValue
  <2>9. QED
    BY <2>8 DEF LsbValue
<1>6. QED
  BY <1>3, <1>4, <1>5 DEF RsValues, LsbValues

(* What is on the bus is the result of a finished instruction. *)
LEMMA BusHolds ==
  ASSUME CdbT, BusInv, BusValues, phase = "snoop", NEW q, CDB!OnBus(q)
  PROVE  q \in Tag /\ Done(q) /\ CDB!BusValue(q) = robEntries[q].result
<1> DEFINE S == {k \in DOMAIN cdb : cdb[k].tag = q}
<1>1. DOMAIN cdb = 1 .. Len(cdb) /\ Len(cdb) \in Nat
  BY DEF CdbT
<1>2. S \in SUBSET Nat /\ S # {}
  BY <1>1 DEF CDB!OnBus
<1>3. Min(S) \in S /\ \A y \in S : Min(S) <= y
  BY <1>2, MinIn
<1>4. PICK m \in DOMAIN cdb : cdb[m].tag = q /\ \A y \in S : m <= y
  BY <1>3
<1>5. \A j \in 1 .. m - 1 : cdb[j].tag # q
  BY <1>1, <1>4
<1>6. PICK f \in DOMAIN cdb : CDB!BusValue(q) = cdb[f].value /\ cdb[f].tag = q
  BY <1>4, <1>5 DEF CDB!BusValue
<1>7. q \in Tag
  BY BusValueTyped
<1>8. Done(q)
  BY <1>7 DEF BusInv, Done
<1>9. QED
  BY <1>6, <1>7, <1>8 DEF BusValues

(* A woken operand is worth what the instruction reads. *)
LEMMA WokenReads ==
  ASSUME TInv, WakeInv, ValueInv, phase = "snoop", NEW t, NEW r, NEW v, NEW q, Reads(t, r, v, q)
  PROVE  Reads(t, r, Caught(v, q), Woken(q))
<1>1. CASE CDB!OnBus(q)
  <2>1. q \in Tag /\ Done(q) /\ CDB!BusValue(q) = robEntries[q].result
    BY <1>1, BusHolds DEF TInv, WakeInv, ValueInv
  <2>2. r \notin {NoReg, X0} /\ Feeds(q, t, r)
    BY <2>1, NoTagIsNoTag DEF Reads
  <2>3. Worth(t, r, CDB!BusValue(q))
    BY <2>1, <2>2 DEF Worth
  <2>4. QED
    BY <1>1, <2>3 DEF Reads, Caught, Woken
<1>2. CASE ~CDB!OnBus(q)
  BY <1>2 DEF Caught, Woken
<1>3. QED
  BY <1>1, <1>2

LEMMA SnoopValues ==
  ASSUME PipelineInv, PcInv, ValueInv, Snoop
  PROVE  RsValues' /\ LsbValues'
<1>0. TInv /\ WakeInv /\ RsT /\ LsbT /\ LsbShape /\ CdbT
  BY DEF PipelineInv, TInv, LsbT
<1>1. RS!snoop /\ LSB!snoop /\ UNCHANGED <<robEntries, robHead, rf, program>> /\ phase = "snoop"
  BY DEF Snoop, robVars, archVars
<1>2. /\ \A t, r, v, q : Reads(t, r, v, q)' <=> Reads(t, r, v, q)
      /\ \A t : InsOf(t)' = InsOf(t)
  BY <1>1 DEF Reads, Worth, Feeds, Before, Writes, Live, Done, ROB!Age, InsOf, Ins
<1>3. ASSUME NEW e, NEW f, Operands(e), f.imm = e.imm, f.tag = e.tag,
             f.vj = Caught(e.vj, e.qj), f.qj = Woken(e.qj),
             f.vk = Caught(e.vk, e.qk), f.qk = Woken(e.qk)
      PROVE  Operands(f)'
  <2>1. Reads(e.tag, InsOf(e.tag).rs1, f.vj, f.qj) /\ Reads(e.tag, InsOf(e.tag).rs2, f.vk, f.qk)
    BY <1>0, <1>1, <1>3, WokenReads DEF Operands
  <2>2. QED
    BY <1>2, <1>3, <2>1 DEF Operands
<1>4. ASSUME NEW e, Operands(e) PROVE Operands(e)'
  BY <1>2, <1>4 DEF Operands
<1>5. ASSUME NEW s \in Station, NEW i \in RS!RSlot(s), rs'[s][i].busy
      PROVE  RsValue(rs[s][i])'
  <2> PICK e, f : e = rs[s][i] /\ f = rs'[s][i]
    OBVIOUS
  <2> DEFINE w == e.busy /\ ~e.done
  <2>1. /\ f.busy = e.busy /\ f.done = e.done /\ f.op = e.op /\ f.tag = e.tag
        /\ f.qj = IF w THEN Woken(e.qj) ELSE e.qj
        /\ f.qk = IF w THEN Woken(e.qk) ELSE e.qk
    BY <1>0, <1>1, RsSnoopEffect
  <2>2. /\ f.imm = e.imm /\ f.pc = e.pc /\ f.result = e.result
        /\ f.vj = IF w THEN Caught(e.vj, e.qj) ELSE e.vj
        /\ f.vk = IF w THEN Caught(e.vk, e.qk) ELSE e.vk
    BY <1>0, <1>1, RsSnoopValues
  <2>3. e.busy /\ RsValue(e)
    BY <1>5, <2>1 DEF ValueInv, RsValues
  <2>4. Operands(f)'
    <3>1. CASE e.done
      <4>1. /\ f.vj = e.vj /\ f.vk = e.vk /\ f.qj = e.qj /\ f.qk = e.qk
            /\ f.imm = e.imm /\ f.tag = e.tag
        BY <2>1, <2>2, <3>1
      <4>2. Operands(f)
        BY <2>3, <4>1 DEF RsValue, Operands
      <4>3. QED
        BY <1>4, <4>2
    <3>2. CASE ~e.done
      BY <1>3, <2>1, <2>2, <2>3, <3>2 DEF RsValue
    <3>3. QED
      BY <3>1, <3>2
  <2>5. f.done => f.result = execute_op(f.op, f.vj, f.vk, f.imm, f.pc)
    BY <2>1, <2>2, <2>3 DEF RsValue
  <2>6. RsValue(f)'
    BY <1>1, <2>1, <2>2, <2>3, <2>4, <2>5 DEF RsValue
  <2>7. QED
    BY <2>6 DEF RsValue
<1>6. /\ LSB!Position' = LSB!Position
      /\ \A k \in LSB!Position :
           LSB!At(k)' = IF LSB!At(k).state \in {"IDLE", "DONE"} THEN LSB!At(k)
                                                               ELSE CDB!Captured(LSB!At(k))
  BY <1>0, <1>1, LsbSnoopEffect DEF LSB!Position
<1>7. ASSUME NEW k \in LSB!Position
      PROVE  LsbValue(LSB!At(k))'
  <2> PICK e, f : e = LSB!At(k) /\ f = LSB!At(k)'
    OBVIOUS
  <2>1. LsbValue(e) /\ LsbWake(e) /\ e \in LsbEntry
    BY <1>0, AtTyped DEF ValueInv, LsbValues, WakeInv
  <2>2. CASE e.state \in {"IDLE", "DONE"}
    <3>1. f = e
      BY <1>6, <2>2
    <3>2. LsbValue(f)'
      BY <1>4, <2>1, <3>1 DEF LsbValue
    <3>3. QED
      BY <3>2 DEF LsbValue
  <2>3. CASE e.state \notin {"IDLE", "DONE"}
    <3>1. f = CDB!Captured(e)
      BY <1>6, <2>3
    <3>2. /\ f.qj = Woken(e.qj) /\ f.qk = Woken(e.qk) /\ f.state = e.state /\ f.tag = e.tag
      BY <1>0, <2>1, <3>1, CapturedLsb
    <3>3. /\ f.vj = Caught(e.vj, e.qj) /\ f.vk = Caught(e.vk, e.qk)
          /\ f.imm = e.imm /\ f.addr = e.addr
      <4>1. /\ CDB!Captured(e).vj = Caught(e.vj, e.qj) /\ CDB!Captured(e).vk = Caught(e.vk, e.qk)
            /\ \A x \in {"imm", "addr", "result"} : CDB!Captured(e)[x] = e[x]
        BY <1>0, <2>1, CapturedLsbValues
      <4>2. QED
        BY <3>1, <4>1
    <3>4. Operands(f)'
      BY <1>3, <2>1, <3>2, <3>3 DEF LsbValue
    <3>5. e.state # "WAITING" => f.vj = e.vj
      <4>1. ~CDB!OnBus(NoTag)
        BY <1>0, BusValueTyped, NoTagIsNoTag
      <4>2. QED
        BY <2>1, <3>3, <4>1 DEF LsbWake, Caught
    <3>6. LsbValue(f)'
      BY <2>1, <3>2, <3>3, <3>4, <3>5 DEF LsbValue
    <3>7. QED
      BY <3>6 DEF LsbValue
  <2>4. QED
    BY <2>2, <2>3
<1>8. QED
  BY <1>5, <1>6, <1>7 DEF RsValues, LsbValues

(* What the rename table resolves an operand to is what the next           *)
(* instruction reads.                                                      *)
LEMMA ResolveReads ==
  ASSUME RobOK, TInv, RatInv, NEW h \in Tag, NEW r \in Reg \cup {NoReg},
         \A t \in Tag : Live(t) => ROB!Age(t) < ROB!Age(h)
  PROVE  Reads(h, r, resolve_operand(r).v, resolve_operand(r).q)
<1>1. CASE r = NoReg
  BY <1>1 DEF resolve_operand, Reads, Worth
<1>2. CASE r = X0
  <2>1. resolve_operand(r) = [v |-> 0, q |-> NoTag]
    BY <1>2, X0Reg DEF resolve_operand, RAT!lookup, RF!read, TInv, RatT, RfT
  <2>2. QED
    BY <1>2, <2>1 DEF Reads, Worth
<1>3. CASE r \notin {NoReg, X0} /\ rat[r] = NoTag
  <2>1. \A u \in Tag : ~Before(u, h, r)
    BY <1>3 DEF RatInv, Before
  <2>2. resolve_operand(r) = [v |-> rf[r], q |-> NoTag]
    BY <1>3 DEF resolve_operand, RAT!lookup, RF!read
  <2>3. QED
    BY <1>3, <2>1, <2>2 DEF Reads, Worth
<1>4. CASE r \notin {NoReg, X0} /\ rat[r] # NoTag
  <2> PICK u : u = rat[r]
    OBVIOUS
  <2>1. u \in Tag /\ Writes(u, r) /\ \A w \in Tag : Writes(w, r) => ROB!Age(w) <= ROB!Age(u)
    BY <1>4 DEF RatInv, TInv, RatT, QTag
  <2>2. Feeds(u, h, r)
    BY <2>1 DEF Feeds, Before, Writes
  <2>3. CASE Done(u)
    <3>1. resolve_operand(r) = [v |-> robEntries[u].result, q |-> NoTag]
      BY <1>4, <2>3 DEF resolve_operand, RAT!lookup, ROB!peek, Done
    <3>2. QED
      BY <1>4, <2>1, <2>2, <2>3, <3>1 DEF Reads, Worth
  <2>4. CASE ~Done(u)
    <3>1. resolve_operand(r) = [v |-> 0, q |-> u]
      BY <1>4, <2>4 DEF resolve_operand, RAT!lookup, ROB!peek, Done
    <3>2. QED
      BY <1>4, <2>1, <2>2, <3>1, NoTagIsNoTag DEF Reads
  <2>5. QED
    BY <2>3, <2>4
<1>5. QED
  BY <1>1, <1>2, <1>3, <1>4

LEMMA DispatchValues ==
  ASSUME PipelineInv, PcInv, ValueInv, Stable, AnyDispatch
  PROVE  RsValues' /\ LsbValues'
<1>0. RobOK /\ TInv /\ RatInv /\ PlaceInv /\ WakeInv /\ RsT /\ LsbShape
  BY DEF PipelineInv, TInv, LsbT
<1> PICK h \in Tag : h = robTail
  BY <1>0 DEF RobOK, RobShape
<1> PICK i \in Instr : i = IQ!peek
  BY <1>0, DispatchEffect
<1>1. /\ robEntries'[h].state = "IN_FLIGHT"
      /\ robEntries'[h].info = [op |-> i.op, rd |-> i.rd, pc |-> i.pc]
      /\ \A t \in Tag \ {h} : robEntries'[t] = robEntries[t]
      /\ \A t \in Tag : ROB!Age(t)' = ROB!Age(t)
      /\ ~Live(h) /\ ROB!Age(h) = robCount
      /\ \A t \in Tag : Live(t) => ROB!Age(t) < robCount
  BY <1>0, DispatchEffect
<1>2. UNCHANGED <<program, rf>> /\ Whole(i)
  <2>1. try_dispatch(IQ!peek) /\ IQ!can_dispatch
    BY DispatchIs DEF AnyDispatch, Dispatch, DispatchBranch
  <2>2. QED
    BY <1>0, <2>1, PeekIs DEF try_dispatch, archVars
<1>3. /\ InsOf(h)'.rs1 = i.rs1 /\ InsOf(h)'.rs2 = i.rs2 /\ InsOf(h)'.imm = i.imm
      /\ robEntries'[h].info.pc = i.pc
  BY <1>1, <1>2 DEF InsOf, Ins, Whole
<1>4. \A t \in Tag : ROB!Age(t) \in Nat
  BY <1>0, AgeInjective DEF RobOK
<1>5. ASSUME NEW r \in Reg \cup {NoReg}, NEW v, NEW q,
             v = resolve_operand(r).v, q = resolve_operand(r).q
      PROVE  Reads(h, r, v, q)'
  <2>1. Reads(h, r, v, q)
    BY <1>0, <1>1, <1>5, ResolveReads
  <2>2. ASSUME NEW u \in Tag
        PROVE  /\ Before(u, h, r)' <=> Before(u, h, r)
               /\ Before(u, h, r) /\ Done(u) => robEntries'[u] = robEntries[u]
    <3>1. CASE u = h
      BY <1>1, <1>4, <3>1 DEF Before
    <3>2. CASE u # h
      BY <1>1, <3>2 DEF Before, Writes, Live
    <3>3. QED
      BY <3>1, <3>2
  <2>3. QED
    BY <1>1, <1>2, <2>1, <2>2, WorthKept
<1>6. PICK a \in Operand, b \in Operand :
        /\ a = resolve_operand(i.rs1) /\ b = resolve_operand(i.rs2)
        /\ \/ ToLsb(i.op) /\ LSB!issue(i, h, a, b) /\ UNCHANGED rs
           \/ ~ToLsb(i.op) /\ RS!issue(TargetStation(i.op), i, h, a, b) /\ UNCHANGED lsbVars
  BY <1>0, DispatchWhere
<1> PICK av, aq, bv, bq, r1, r2 : /\ av = a.v /\ aq = a.q /\ bv = b.v /\ bq = b.q
                                  /\ r1 = i.rs1 /\ r2 = i.rs2
  OBVIOUS
<1>7. Reads(h, r1, av, aq)' /\ Reads(h, r2, bv, bq)'
  BY <1>5, <1>6 DEF Instr
<1>8. ASSUME NEW f, f.tag = h, f.imm = i.imm, f.vj = av, f.qj = aq, f.vk = bv, f.qk = bq
      PROVE  Operands(f)'
  BY <1>3, <1>7, <1>8 DEF Operands
<1>9. ASSUME NEW e, e.tag \in Tag, Live(e.tag), RsWake(e), RsValue(e) PROVE RsValue(e)'
  <2>1. Live(e.tag)'
    BY <1>1, <1>9 DEF Live
  <2>2. QED
    BY <1>0, <1>9, <2>1, RsKept
<1>10. ASSUME NEW e, e.tag \in Tag, Live(e.tag), LsbWake(e), LsbValue(e) PROVE LsbValue(e)'
  <2>1. Live(e.tag)'
    BY <1>1, <1>10 DEF Live
  <2>2. QED
    BY <1>0, <1>10, <2>1, LsbKept
<1>11. ASSUME NEW e, NEW s \in Station, NEW j \in RS!RSlot(s), e = rs[s][j], e.busy
       PROVE  RsValue(e)'
  <2>1. e.tag \in Tag /\ Live(e.tag) /\ RsWake(e) /\ RsValue(e)
    BY <1>0, <1>11 DEF WakeInv, PlaceInv, RsPlace, RsFits, InFlight, Live, ValueInv, RsValues
  <2>2. QED
    BY <1>9, <2>1
<1>12. ASSUME NEW e, NEW k \in LSB!Position, e = LSB!At(k) PROVE LsbValue(e)'
  <2>1. e.tag \in Tag /\ Live(e.tag) /\ LsbWake(e) /\ LsbValue(e)
    BY <1>0, <1>12 DEF WakeInv, PlaceInv, LsbPlace, LsbFits, ValueInv, LsbValues
  <2>2. QED
    BY <1>10, <2>1
<1>13. CASE ToLsb(i.op) /\ LSB!issue(i, h, a, b) /\ UNCHANGED rs
  <2> PICK n : n = lsbCount
    OBVIOUS
  <2>1. /\ lsbCount' = n + 1 /\ n \in 0 .. LsbSize - 1
        /\ \A k \in LSB!Position : LSB!At(k)' = LSB!At(k)
        /\ LSB!At(n)'.state = "WAITING" /\ LSB!At(n)'.tag = h
        /\ LSB!At(n)'.qj = aq /\ LSB!At(n)'.qk = bq
    BY <1>0, <1>13, LsbIssueEffect
  <2>2. LSB!At(n)'.imm = i.imm /\ LSB!At(n)'.vj = av /\ LSB!At(n)'.vk = bv
    BY <1>0, <1>13, LsbIssueValues
  <2>3. \A k \in LSB!Position' : k \in LSB!Position \/ k = n
    BY <2>1, Sizes DEF LSB!Position
  <2>4. ASSUME NEW k \in LSB!Position' PROVE LsbValue(LSB!At(k))'
    <3> PICK f : f = LSB!At(k)'
      OBVIOUS
    <3>1. CASE k = n
      <4>1. Operands(f)' /\ f.state = "WAITING"
        BY <1>8, <2>1, <2>2, <3>1
      <4>2. LsbValue(f)'
        BY <4>1 DEF LsbValue
      <4>3. QED
        BY <4>2 DEF LsbValue
    <3>2. CASE k \in LSB!Position
      <4>1. LsbValue(f)'
        BY <1>12, <2>1, <3>2
      <4>2. QED
        BY <4>1 DEF LsbValue
    <3>3. QED
      BY <2>3, <3>1, <3>2
  <2>5. ASSUME NEW s \in Station, NEW j \in RS!RSlot(s), rs'[s][j].busy
        PROVE  RsValue(rs[s][j])'
    <3> PICK e : e = rs[s][j]
      OBVIOUS
    <3>1. rs'[s][j] = e /\ RsValue(e)'
      BY <1>11, <1>13, <2>5
    <3>2. QED
      BY <3>1 DEF RsValue
  <2>6. QED
    BY <2>4, <2>5 DEF RsValues, LsbValues
<1>14. CASE ~ToLsb(i.op) /\ RS!issue(TargetStation(i.op), i, h, a, b) /\ UNCHANGED lsbVars
  <2> PICK s \in Station : s = TargetStation(i.op)
    BY TargetIsStation
  <2>1. LSB!Position' = LSB!Position /\ \A j : LSB!At(j)' = LSB!At(j)
    BY <1>14 DEF LSB!Position, LSB!At, LSB!phys, lsbVars
  <2>2. ASSUME NEW u \in Station, NEW j \in RS!RSlot(u), rs'[u][j].busy
        PROVE  RsValue(rs[u][j])'
    <3> PICK f : f = rs'[u][j]
      OBVIOUS
    <3>1. \/ f = rs[u][j]
          \/ /\ f.tag = h /\ ~f.done /\ f.imm = i.imm /\ f.pc = i.pc
             /\ f.vj = av /\ f.qj = aq /\ f.vk = bv /\ f.qk = bq
      BY <1>0, <1>14, RsIssueValues
    <3>2. CASE f = rs[u][j]
      <4>1. RsValue(f)'
        BY <1>11, <2>2, <3>2
      <4>2. QED
        BY <4>1 DEF RsValue
    <3>3. CASE /\ f.tag = h /\ ~f.done /\ f.imm = i.imm /\ f.pc = i.pc
               /\ f.vj = av /\ f.qj = aq /\ f.vk = bv /\ f.qk = bq
      <4>1. Operands(f)'
        BY <1>8, <3>3
      <4>2. RsValue(f)'
        BY <1>3, <3>3, <4>1 DEF RsValue
      <4>3. QED
        BY <4>2 DEF RsValue
    <3>4. QED
      BY <3>1, <3>2, <3>3
  <2>3. ASSUME NEW k \in LSB!Position PROVE LsbValue(LSB!At(k))'
    <3> PICK e : e = LSB!At(k)
      OBVIOUS
    <3>1. LSB!At(k)' = e /\ LsbValue(e)'
      BY <1>12, <2>1
    <3>2. QED
      BY <3>1 DEF LsbValue
  <2>4. QED
    BY <2>1, <2>2, <2>3 DEF RsValues, LsbValues
<1>15. QED
  BY <1>6, <1>13, <1>14

(* Only a write makes an instruction finished. *)
LEMMA NewlyDone ==
  ASSUME RobOK, TInv, [Next]_vars, ~AnyWrite, NEW t \in Tag, Done(t)'
  PROVE  Done(t)
<1>1. CASE AnyCommit
  <2>1. ROB!commit
    BY <1>1, CommitIs DEF Committing
  <2>2. QED
    BY <2>1, CommitEffect DEF Done
<1>2. CASE AnyDispatch
  BY <1>2, DispatchEffect DEF Done
<1>3. CASE AnyParse \/ AnyOther \/ UNCHANGED vars
  BY <1>3, OtherRob DEF robVars, Done
<1>4. QED
  BY <1>1, <1>2, <1>3, StepKinds

(* Which instruction a write finishes, and with which result. *)
Finishes(t, v) ==
  /\ t \in Tag /\ InFlight(t) /\ Done(t)' /\ robEntries'[t].result = v
  /\ robEntries'[t].info = robEntries[t].info
  /\ \A u \in Tag \ {t} : robEntries'[u] = robEntries[u]

LEMMA WriteFinishes ==
  ASSUME RobOK, NEW t, NEW v, ROB!write_result(t, v)
  PROVE  Finishes(t, v)
<1>1. /\ t \in Tag /\ InFlight(t) /\ robEntries'[t].state = "DONE"
      /\ robEntries'[t].info = robEntries[t].info
      /\ \A u \in Tag \ {t} : robEntries'[u] = robEntries[u]
  BY WriteEffect
<1>2. robEntries'[t].result = v
  BY <1>1 DEF ROB!write_result, RobOK, RobShape
<1>3. QED
  BY <1>1, <1>2 DEF Finishes, Done

LEMMA BroadcastComputed ==
  ASSUME PipelineInv, PcInv, ValueInv, Stable, BroadcastStation
  PROVE  \E t, v : Finishes(t, v) /\ Computed(t)' /\ CDB!broadcast(t, v)
<1>0. RobOK /\ TInv /\ RsT
  BY DEF PipelineInv, TInv
<1>1. PICK k \in DOMAIN StationOrder :
        /\ RS!pop_result(StationOrder[k])
        /\ ROB!write_result(RS!Popped(StationOrder[k]).tag, RS!Popped(StationOrder[k]).result)
        /\ CDB!broadcast(RS!Popped(StationOrder[k]).tag, RS!Popped(StationOrder[k]).result)
  BY DEF BroadcastStation
<1> PICK s \in Station : s = StationOrder[k]
  BY DEF Station
<1>2. PICK d \in RS!RSlot(s) : RS!Popped(s) = rs[s][d] /\ rs[s][d].busy /\ rs[s][d].done
  BY <1>0, <1>1, RsPopEffect
<1> PICK e : e = rs[s][d]
  OBVIOUS
<1> PICK t, v : t = e.tag /\ v = e.result
  OBVIOUS
<1>3. /\ RsFits(e) /\ RsWake(e) /\ RsValue(e) /\ e.done /\ e \in RsEntry
  BY <1>0, <1>2 DEF PipelineInv, PlaceInv, RsPlace, WakeInv, ValueInv, RsValues, RsT
<1>4. Finishes(t, v) /\ CDB!broadcast(t, v)
  BY <1>0, <1>1, <1>2, WriteFinishes
<1>5. t \in Tag /\ Live(t) /\ Live(t)'
  BY <1>4 DEF Finishes, InFlight, Live, Done
<1>6. InsOf(t)' = InsOf(t)
  BY <1>5 DEF Stable
<1>7. InsOf(t).op = e.op
  BY <1>0, <1>3, <1>5, InsTyped DEF RsFits
<1> PICK r1 \in Reg \cup {NoReg}, r2 \in Reg \cup {NoReg} :
      r1 = InsOf(t).rs1 /\ r2 = InsOf(t).rs2
  BY <1>0, <1>5, InsTyped
<1> PICK a \in Word, b \in Word : a = e.vj /\ b = e.vk
  BY <1>3 DEF RsEntry
<1>8. Worth(t, r1, a) /\ Worth(t, r2, b)
  BY <1>3 DEF RsWake, RsValue, Operands, Reads
<1>9. Worth(t, r1, a)' /\ Worth(t, r2, b)'
  BY <1>5, <1>8, WorthStays
<1>10. v = execute_op(InsOf(t).op, a, b, InsOf(t).imm, robEntries[t].info.pc)
  BY <1>3, <1>7 DEF RsValue, Operands
<1>11. robEntries'[t].result = v /\ robEntries'[t].info = robEntries[t].info
  BY <1>4 DEF Finishes
<1>12. Computed(t)'
  BY <1>6, <1>9, <1>10, <1>11 DEF Computed
<1>13. QED
  BY <1>4, <1>12

(* What finishes outside the stations is a memory operation. *)
LEMMA MemoryFinishes ==
  ASSUME PipelineInv, NotifyStore \/ BroadcastLoad
  PROVE  \E t, v : /\ Finishes(t, v) /\ ToLsb(robEntries[t].info.op)
                   /\ BroadcastLoad => CDB!broadcast(t, v)
<1>0. RobOK /\ PlaceInv /\ LsbShape
  BY DEF PipelineInv, TInv, LsbT
<1>1. CASE NotifyStore
  <2>1. PICK t \in LSB!DoneStoreTags : ROB!write_result(t, 0)
    BY <1>1 DEF NotifyStore
  <2>2. PICK k \in LSB!Position : t = LSB!At(k).tag
    BY <2>1 DEF LSB!DoneStoreTags
  <2>3. ToLsb(robEntries[t].info.op)
    BY <1>0, <2>2 DEF PlaceInv, LsbPlace, LsbFits
  <2>4. Finishes(t, 0)
    BY <1>0, <2>1, WriteFinishes
  <2>5. ~BroadcastLoad
    BY <1>1 DEF NotifyStore, BroadcastLoad
  <2>6. QED
    BY <2>3, <2>4, <2>5
<1>2. CASE BroadcastLoad
  <2>1. /\ LSB!Pop /\ ~LSB!empty
        /\ ROB!write_result(lsbEntries[lsbHead].tag, lsbEntries[lsbHead].result)
        /\ CDB!broadcast(lsbEntries[lsbHead].tag, lsbEntries[lsbHead].result)
    BY <1>2 DEF BroadcastLoad, LSB!pop_load_result, LSB!has_load_result
  <2>2. 0 \in LSB!Position /\ LSB!At(0) = lsbEntries[lsbHead]
    BY <1>0, <2>1, LsbShifted
  <2>3. ToLsb(robEntries[lsbEntries[lsbHead].tag].info.op)
    BY <1>0, <2>2 DEF PlaceInv, LsbPlace, LsbFits
  <2>4. Finishes(lsbEntries[lsbHead].tag, lsbEntries[lsbHead].result)
    BY <1>0, <2>1, WriteFinishes
  <2>5. QED
    BY <2>1, <2>3, <2>4
<1>3. QED
  BY <1>1, <1>2

LEMMA ResultsStep ==
  ASSUME PipelineInv, PcInv, ValueInv, Stable, [Next]_vars
  PROVE  Results'
<1> SUFFICES ASSUME NEW t \in Tag, Done(t)', ~ToLsb(robEntries'[t].info.op)
             PROVE  Computed(t)'
  BY DEF Results
<1>0. RobOK /\ TInv
  BY DEF PipelineInv
<1>1. CASE Done(t)
  <2>1. Live(t) /\ Live(t)'
    BY <1>1 DEF Done, Live
  <2>2. robEntries'[t].info = robEntries[t].info
    BY <2>1 DEF Stable
  <2>3. Computed(t)
    BY <1>1, <2>2 DEF ValueInv, Results
  <2>4. QED
    BY <1>0, <1>1, <2>1, <2>3, ComputedKept
<1>2. CASE ~Done(t)
  <2>1. AnyWrite
    BY <1>0, <1>2, NewlyDone
  <2>2. CASE BroadcastStation
    <3>1. PICK u, v : Finishes(u, v) /\ Computed(u)'
      BY <2>2, BroadcastComputed
    <3>2. t = u
      BY <1>2, <3>1 DEF Finishes, Done
    <3>3. QED
      BY <3>1, <3>2
  <2>3. CASE NotifyStore \/ BroadcastLoad
    <3>1. PICK u, v : Finishes(u, v) /\ ToLsb(robEntries[u].info.op)
      BY <2>3, MemoryFinishes
    <3>2. t = u
      BY <1>2, <3>1 DEF Finishes, Done
    <3>3. QED
      BY <3>1, <3>2 DEF Finishes
  <2>4. QED
    BY <2>1, <2>2, <2>3 DEF AnyWrite
<1>3. QED
  BY <1>1, <1>2

LEMMA BusValuesStep ==
  ASSUME PipelineInv, PcInv, ValueInv, Stable, [Next]_vars
  PROVE  BusValues'
<1>0. RobOK /\ TInv /\ BusInv /\ CdbT
  BY DEF PipelineInv, WakeInv, TInv
<1>1. CASE BroadcastStation \/ BroadcastLoad
  <2>1. PICK t, v : Finishes(t, v) /\ CDB!broadcast(t, v)
    BY <1>1, BroadcastComputed, MemoryFinishes
  <2>2. phase = "broadcast"
    BY <1>1 DEF BroadcastStation, BroadcastLoad
  <2>3. cdb' = Append(cdb, [tag |-> t, value |-> v]) /\ cdb \in Seq([tag : Tag, value : Word])
    BY <1>0, <2>1 DEF CDB!broadcast, CdbT
  <2>4. ASSUME NEW k \in DOMAIN cdb' PROVE cdb'[k].value = robEntries'[cdb'[k].tag].result
    <3>1. CASE k = Len(cdb) + 1
      <4>1. cdb'[k].tag = t /\ cdb'[k].value = v
        BY <2>3, <3>1
      <4>2. QED
        BY <2>1, <4>1 DEF Finishes
    <3>2. CASE k # Len(cdb) + 1
      <4>1. k \in DOMAIN cdb /\ cdb'[k] = cdb[k] /\ cdb[k].tag \in Tag
        <5>1. k \in 1 .. Len(cdb)
          BY <2>3, <3>2
        <5>2. cdb'[k] = cdb[k] /\ k \in DOMAIN cdb
          BY <2>3, <5>1
        <5>3. cdb[k] \in [tag : Tag, value : Word]
          BY <2>3, <5>1, ElementOfSeq
        <5>4. QED
          BY <5>2, <5>3
      <4>2. CDB!OnBus(cdb[k].tag)
        BY <4>1 DEF CDB!OnBus
      <4>3. Done(cdb[k].tag)
        BY <1>0, <2>2, <4>1, <4>2 DEF BusInv, Done
      <4>4. cdb[k].tag # t
        BY <2>1, <4>3 DEF Finishes, InFlight, Done
      <4>5. QED
        BY <2>1, <2>2, <4>1, <4>4 DEF Finishes, ValueInv, BusValues
    <3>3. QED
      BY <3>1, <3>2
  <2>5. QED
    BY <2>4 DEF BusValues
<1>2. CASE NotifyStore \/ AnyCommit \/ AnyDispatch
  <2>1. phase' \notin {"broadcast", "snoop"}
    <3>1. CASE AnyCommit
      BY <3>1, CommitIs DEF Committing
    <3>2. CASE NotifyStore \/ AnyDispatch
      BY <3>2 DEF NotifyStore, AnyDispatch, Dispatch, DispatchBranch, try_dispatch
    <3>3. QED
      BY <1>2, <3>1, <3>2
  <2>2. QED
    BY <2>1 DEF BusValues
<1>3. CASE AnyParse \/ AnyOther \/ UNCHANGED vars
  <2>1. robEntries' = robEntries
    BY <1>3, OtherRob DEF robVars
  <2>2. \/ phase' \notin {"broadcast", "snoop"}
        \/ phase \in {"broadcast", "snoop", "update_rob"} /\ cdb' = cdb
    BY <1>3 DEF AnyOther, AnyParse, vars, Parse, LoadProgram, NoInstructions, Returned, pipeVars,
       Execute, StoresNotified, BroadcastEnds, Snoop, CommitNothing, Fetch,
       FetchStalled, DispatchEnds, NextCycle, Report
  <2>3. CASE phase = "update_rob" /\ cdb' = cdb
    <3>1. cdb' = << >>
      BY <1>0, <2>3 DEF BusInv
    <3>2. QED
      BY <3>1 DEF BusValues
  <2>4. CASE phase \in {"broadcast", "snoop"} /\ cdb' = cdb
    BY <2>1, <2>4 DEF ValueInv, BusValues
  <2>5. QED
    BY <2>2, <2>3, <2>4 DEF BusValues
<1>4. QED
  BY <1>1, <1>2, <1>3, StepKinds DEF AnyWrite

LEMMA ValueStep == PipelineInv /\ PcInv /\ ValueInv /\ [Next]_vars => ValueInv'
<1> SUFFICES ASSUME PipelineInv, PcInv, ValueInv, [Next]_vars PROVE ValueInv'
  OBVIOUS
<1>1. Stable /\ PipelineInv'
  BY StableStep, PipelineStep
<1>2. Results' /\ BusValues'
  BY <1>1, ResultsStep, BusValuesStep
<1>3. RsValues' /\ LsbValues'
  <2>1. CASE Execute
    BY <1>1, <2>1, ExecuteValues
  <2>2. CASE Snoop
    BY <2>2, SnoopValues
  <2>3. CASE AnyDispatch
    BY <1>1, <2>3, DispatchValues
  <2>4. CASE ~Execute /\ ~Snoop /\ ~AnyDispatch
    <3>1. KeptPlaces
      BY <2>4, StepKinds, KeptSteps
    <3>2. QED
      BY <1>1, <3>1, KeptValues
  <2>5. QED
    BY <2>1, <2>2, <2>3, <2>4
<1>4. QED
  BY <1>2, <1>3 DEF ValueInv

-----------------------------------------------------------------------------
(* Memory.                                                                 *)

(* The accesses of the program agree: a load and an older store that touch *)
(* the same word name it by the same byte address, and it lies inside the  *)
(* memory.  Without that the code does not order memory: it compares byte  *)
(* addresses where it accesses words, and forwards from a store outside    *)
(* the memory, which it will drop (LoadStoreBuffer::tick, commit_store;    *)
(* the run doc_alias has such a program).  Nothing is executed             *)
(* speculatively, so that what is in the LSB are accesses of the program.  *)
AccessesAgree ==
  \A k \in LSB!Position : \A j \in SameWord(k) :
    is_load(LSB!At(k).op) /\ LSB!At(k).state # "WAITING" /\ LSB!At(j).state # "WAITING" =>
      /\ LSB!At(j).addr = LSB!At(k).addr
      /\ LSB!WordIndex(LSB!At(k).addr) < MemWords

(* Every older store has its address. *)
KnownBefore(k) ==
  \A j \in 0 .. k - 1 : is_store(LSB!At(j).op) => LSB!At(j).state # "WAITING"

(* A load that is reading or has read knows every older store.  Nobody     *)
(* older writes its word while it reads; once it has read, it has the      *)
(* value of the youngest one that does, else that of the memory.           *)
Reading(k) ==
  LET e == LSB!At(k) IN
  /\ e.state \in {"EXECUTING", "DONE"} => KnownBefore(k)
  /\ e.state = "EXECUTING" => SameWord(k) = {}
  /\ e.state = "DONE" =>
       /\ \A j \in SameWord(k) : LSB!At(j).state = "DONE"
       /\ SameWord(k) = {} => e.result = LSB!ReadMem(e.addr)
       /\ \A j \in SameWord(k) :
            (\A i \in SameWord(k) : i <= j) => e.result = LSB!At(j).vk

MemInv == \A k \in LSB!Position : is_load(LSB!At(k).op) => Reading(k)

(* MemInv says more than LoadsSeeOlderStores. *)
LEMMA MemMeans ==
  ASSUME LsbShape, MemInv
  PROVE  LoadsSeeOlderStores
<1> SUFFICES ASSUME NEW k \in LSB!Position, is_load(LSB!At(k).op), LSB!At(k).state = "DONE"
             PROVE  /\ KnownBefore(k)
                    /\ LSB!At(k).result = IF SameWord(k) = {} THEN LSB!ReadMem(LSB!At(k).addr)
                                          ELSE LSB!At(Max(SameWord(k))).vk
  BY DEF LoadsSeeOlderStores, KnownBefore
<1>1. Reading(k)
  BY DEF MemInv
<1>2. CASE SameWord(k) # {}
  <2>1. lsbCount \in Nat /\ k \in Nat /\ SameWord(k) \in SUBSET (0 .. k)
    BY Sizes DEF SameWord, LSB!Position, LsbShape
  <2>2. Max(SameWord(k)) \in SameWord(k) /\ \A i \in SameWord(k) : i <= Max(SameWord(k))
    BY <1>2, <2>1, MaxIn
  <2>3. QED
    BY <1>1, <1>2, <2>2 DEF Reading
<1>3. QED
  BY <1>1, <1>2 DEF Reading

LEMMA MemInit == Init => MemInv
<1> SUFFICES ASSUME Init PROVE MemInv
  OBVIOUS
<1>1. LSB!Position = {}
  BY DEF Init, LSB!Init, LSB!Position
<1>2. QED
  BY <1>1 DEF MemInv

(* Nobody moves, and what is finished keeps its value; whoever is new waits. *)
LEMMA MemKept ==
  ASSUME LsbShape, MemInv, mem' = mem, LSB!Position \subseteq LSB!Position',
         \A k \in LSB!Position :
           /\ LSB!At(k)'.op = LSB!At(k).op /\ LSB!At(k)'.state = LSB!At(k).state
           /\ LSB!At(k)'.addr = LSB!At(k).addr
           /\ LSB!At(k).state = "DONE" => LSB!At(k)' = LSB!At(k),
         \A k \in LSB!Position' : k \notin LSB!Position => LSB!At(k)'.state = "WAITING"
  PROVE  MemInv'
<1>0. \A k \in LSB!Position : k \in Nat /\ \A j \in 0 .. k - 1 : j \in LSB!Position
  BY Sizes DEF LSB!Position, LsbShape
<1> SUFFICES ASSUME NEW k \in LSB!Position', is_load(LSB!At(k)'.op) PROVE Reading(k)'
  BY DEF MemInv
<1>1. CASE k \notin LSB!Position
  BY <1>1 DEF Reading
<1>2. CASE k \in LSB!Position
  <2> PICK e, f : e = LSB!At(k) /\ f = LSB!At(k)'
    OBVIOUS
  <2>1. f.op = e.op /\ f.state = e.state /\ f.addr = e.addr /\ (e.state = "DONE" => f = e)
    BY <1>2
  <2>2. Reading(k)
    BY <1>2, <2>1 DEF MemInv
  <2>3. SameWord(k)' = SameWord(k)
    <3>1. \A j \in LSB!Position' : j < k => j \in LSB!Position
      <4>1. \A j \in LSB!Position' : j \in Nat
        BY Sizes DEF LSB!Position
      <4>2. QED
        BY <1>0, <1>2, <4>1
    <3>2. QED
      BY <1>2, <3>1 DEF SameWord, LSB!WordIndex
  <2>4. \A j \in SameWord(k) : /\ LSB!At(j)'.state = LSB!At(j).state
                               /\ LSB!At(j).state = "DONE" => LSB!At(j)'.vk = LSB!At(j).vk
    BY DEF SameWord
  <2>5. KnownBefore(k) => KnownBefore(k)'
    BY <1>0, <1>2 DEF KnownBefore
  <2>6. \A a : LSB!ReadMem(a)' = LSB!ReadMem(a)
    BY DEF LSB!ReadMem, LSB!WordIndex
  <2>7. e.state = "DONE" => f.result = e.result
    BY <2>1
  <2>8. QED
    BY <2>1, <2>2, <2>3, <2>4, <2>5, <2>6, <2>7 DEF Reading
<1>3. QED
  BY <1>1, <1>2

(* tick: the loads of pass 3 and 4. *)
LEMMA TickMem ==
  ASSUME PipelineInv, MemInv, AccessesAgree', Execute
  PROVE  MemInv'
<1>0. MemT /\ LsbT /\ LsbShape /\ LSB!tick /\ mem' = mem
  BY DEF PipelineInv, TInv, LsbT, Execute, archVars
<1>1. LSB!Position' = LSB!Position
  BY <1>0, LsbTicked
<1>2. \A k \in LSB!Position : k \in Nat /\ \A j \in 0 .. k - 1 : j \in LSB!Position
  BY <1>0, Sizes DEF LSB!Position, LsbShape
<1>3. ASSUME NEW j \in LSB!Position
      PROVE  /\ LSB!At(j)'.op = LSB!At(j).op /\ LSB!At(j)'.addr = Old[j].addr
             /\ LSB!At(j).state # "WAITING" =>
                  LSB!At(j)'.addr = LSB!At(j).addr /\ LSB!At(j)'.state # "WAITING"
             /\ LSB!At(j).state = "DONE" => LSB!At(j)' = LSB!At(j)
             /\ is_store(LSB!At(j).op) => LSB!At(j)' = Old[j]
             /\ Old[j].op = LSB!At(j).op
  <2> PICK e, f : e = LSB!At(j) /\ f = LSB!At(j)'
    OBVIOUS
  <2>1. /\ f.op = e.op /\ f.addr = Old[j].addr
        /\ e.state # "WAITING" => f.addr = e.addr /\ f.state # "WAITING"
        /\ e.state = "DONE" => f = e
        /\ is_store(e.op) => f = Old[j]
    BY <1>0, LsbTickValues
  <2>2. Old[j] = LSB!Addressed(e) /\ e \in LsbEntry
    BY <1>0, LsbTicked, AtTyped
  <2>3. Old[j].op = e.op
    BY <2>2, AddressedValues
  <2>4. QED
    BY <2>1, <2>3
<1>4. \A a : LSB!ReadMem(a)' = LSB!ReadMem(a)
  BY <1>0 DEF LSB!ReadMem, LSB!WordIndex
<1> SUFFICES ASSUME NEW k \in LSB!Position, is_load(LSB!At(k)'.op) PROVE Reading(k)'
  BY <1>1 DEF MemInv
<1> PICK e, f : e = LSB!At(k) /\ f = LSB!At(k)'
  OBVIOUS
<1>5. f.op = e.op /\ is_load(e.op)
  BY <1>3
<1>6. CASE f.state \notin {"EXECUTING", "DONE"}
  BY <1>6 DEF Reading
<1>7. ASSUME KnownBefore(k), e.state # "WAITING"
      PROVE  /\ KnownBefore(k)' /\ SameWord(k)' = SameWord(k)
  <2>1. KnownBefore(k)'
    BY <1>2, <1>3, <1>7 DEF KnownBefore
  <2>2. \A j \in LSB!Position : j < k /\ is_store(LSB!At(j).op) => LSB!At(j)'.addr = LSB!At(j).addr
    BY <1>2, <1>3, <1>7 DEF KnownBefore
  <2>3. LSB!At(k)'.addr = LSB!At(k).addr
    BY <1>3, <1>7
  <2>4. \A j \in LSB!Position : LSB!At(j)'.op = LSB!At(j).op
    BY <1>3
  <2>5. QED
    BY <1>1, <2>1, <2>2, <2>3, <2>4 DEF SameWord, LSB!WordIndex
<1>8. CASE e.state = "DONE"
  <2>1. f = e /\ Reading(k)
    BY <1>3, <1>5, <1>8 DEF MemInv
  <2>2. KnownBefore(k)' /\ SameWord(k)' = SameWord(k)
    BY <1>7, <1>8, <2>1 DEF Reading
  <2>3. \A j \in SameWord(k) : LSB!At(j)' = LSB!At(j)
    BY <1>3, <1>8, <2>1 DEF Reading, SameWord
  <2>4. QED
    BY <1>4, <1>8, <2>1, <2>2, <2>3 DEF Reading
<1>9. CASE e.state = "EXECUTING" /\ (f.state = "EXECUTING" \/ (f.state = "DONE" /\ f.result = LSB!ReadMem(f.addr)))
  <2>1. Reading(k)
    BY <1>5 DEF MemInv
  <2>2. KnownBefore(k)' /\ SameWord(k)' = {}
    BY <1>7, <1>9, <2>1 DEF Reading
  <2>3. QED
    BY <1>4, <1>9, <2>2 DEF Reading
<1>10. CASE Served(k, Old, f) /\ f.state \in {"EXECUTING", "DONE"}
  <2>1. /\ \A j \in LSB!OlderStores(k, Old) : Old[j].state # "WAITING"
        /\ \A j \in LSB!Aliasing(k, Old) : Old[j].state = "DONE"
    BY <1>10 DEF Served, LSB!Blocked
  <2>2. \A j \in LSB!Position : j < k /\ is_store(LSB!At(j)'.op) =>
          j \in LSB!OlderStores(k, Old) /\ LSB!At(j)' = Old[j]
    BY <1>2, <1>3 DEF LSB!OlderStores
  <2>3. \A j \in LSB!OlderStores(k, Old) :
          j \in LSB!Position /\ j < k /\ is_store(LSB!At(j)'.op) /\ LSB!At(j)' = Old[j]
    BY <1>2, <1>3 DEF LSB!OlderStores
  <2>4. KnownBefore(k)'
    BY <1>2, <2>1, <2>2 DEF KnownBefore
  <2>5. LSB!Aliasing(k, Old) = SameWord(k)'
    <3>1. ASSUME NEW j \in LSB!Aliasing(k, Old) PROVE j \in SameWord(k)'
      <4>1. j \in LSB!OlderStores(k, Old) /\ Old[j].addr = Old[k].addr
        BY <3>1 DEF LSB!Aliasing
      <4>2. LSB!At(j)'.addr = LSB!At(k)'.addr
        BY <1>3, <2>3, <4>1
      <4>3. QED
        BY <1>1, <2>3, <4>1, <4>2 DEF SameWord, LSB!WordIndex
    <3>2. ASSUME NEW j \in SameWord(k)' PROVE j \in LSB!Aliasing(k, Old)
      <4>1. j \in LSB!Position /\ j < k /\ is_store(LSB!At(j)'.op)
        BY <1>1, <3>2 DEF SameWord
      <4>2. j \in LSB!OlderStores(k, Old) /\ LSB!At(j)' = Old[j] /\ Old[j].state # "WAITING"
        BY <2>1, <2>2, <4>1
      <4>3. LSB!At(j)'.addr = LSB!At(k)'.addr
        BY <1>1, <1>10, <3>2, <4>2 DEF AccessesAgree
      <4>4. QED
        BY <1>3, <4>2, <4>3 DEF LSB!Aliasing
    <3>3. QED
      BY <3>1, <3>2
  <2>6. \A j \in SameWord(k)' : LSB!At(j)' = Old[j] /\ Old[j].state = "DONE"
    BY <2>1, <2>3, <2>5 DEF LSB!Aliasing
  <2>7. CASE LSB!Aliasing(k, Old) = {}
    <3>1. f.state = "EXECUTING" \/ (f.state = "DONE" /\ f.result = LSB!ReadMem(f.addr))
      BY <1>10, <2>7 DEF Served
    <3>2. QED
      BY <1>4, <2>4, <2>5, <2>7, <3>1 DEF Reading
  <2>8. CASE LSB!Aliasing(k, Old) # {}
    <3> PICK m : m = Max(LSB!Aliasing(k, Old))
      OBVIOUS
    <3>1. f.state = "DONE" /\ f.result = Old[m].vk
      BY <1>10, <2>8 DEF Served, LSB!Max, Max
    <3>2. /\ m \in LSB!Aliasing(k, Old) /\ \A y \in LSB!Aliasing(k, Old) : y <= m
      <4>1. k \in Nat /\ LSB!Aliasing(k, Old) \in SUBSET (0 .. k)
        BY <1>2 DEF LSB!Aliasing, LSB!OlderStores
      <4>2. QED
        BY <2>8, <4>1, MaxIn
    <3>3. ASSUME NEW j \in SameWord(k)', \A i \in SameWord(k)' : i <= j
          PROVE  f.result = LSB!At(j)'.vk
      <4>1. j <= m /\ m <= j /\ j \in Int /\ m \in Int
        BY <1>2, <2>5, <3>2, <3>3 DEF LSB!Aliasing, LSB!OlderStores
      <4>2. j = m
        BY <4>1
      <4>3. QED
        BY <2>6, <3>1, <3>3, <4>2
    <3>4. QED
      BY <2>4, <2>5, <2>6, <2>8, <3>1, <3>3 DEF Reading
  <2>9. QED
    BY <2>7, <2>8
<1>11. QED
  <2>1. is_load(e.op) /\ f.state \in {"EXECUTING", "DONE"} =>
          \/ e.state = "DONE"
          \/ /\ e.state = "EXECUTING"
             /\ f.state = "EXECUTING" \/ (f.state = "DONE" /\ f.result = LSB!ReadMem(f.addr))
          \/ e.state \notin {"EXECUTING", "DONE"} /\ Served(k, Old, f)
    BY <1>0, LsbTickValues
  <2>2. QED
    BY <1>5, <1>6, <1>8, <1>9, <1>10, <2>1

LEMMA SnoopMem ==
  ASSUME PipelineInv, MemInv, Snoop
  PROVE  MemInv'
<1>0. LsbShape /\ CdbT /\ LSB!snoop /\ mem' = mem
  BY DEF PipelineInv, TInv, LsbT, Snoop, archVars
<1>1. /\ LSB!Position' = LSB!Position
      /\ \A k \in LSB!Position :
           LSB!At(k)' = IF LSB!At(k).state \in {"IDLE", "DONE"} THEN LSB!At(k)
                                                               ELSE CDB!Captured(LSB!At(k))
  BY <1>0, LsbSnoopEffect DEF LSB!Position
<1>2. ASSUME NEW k \in LSB!Position
      PROVE  /\ LSB!At(k)'.op = LSB!At(k).op /\ LSB!At(k)'.state = LSB!At(k).state
             /\ LSB!At(k)'.addr = LSB!At(k).addr
             /\ LSB!At(k).state = "DONE" => LSB!At(k)' = LSB!At(k)
  <2> PICK e : e = LSB!At(k)
    OBVIOUS
  <2>1. e \in LsbEntry
    BY <1>0, AtTyped
  <2>2. CDB!Captured(e).op = e.op /\ CDB!Captured(e).state = e.state
    BY <1>0, <2>1, CapturedLsb
  <2>3. CDB!Captured(e).addr = e.addr
    <3>1. \A x \in {"imm", "addr", "result"} : CDB!Captured(e)[x] = e[x]
      BY <1>0, <2>1, CapturedLsbValues
    <3>2. QED
      BY <3>1
  <2>4. QED
    BY <1>1, <2>2, <2>3
<1>3. QED
  BY <1>0, <1>1, <1>2, MemKept

LEMMA SameMem ==
  ASSUME LsbShape, MemInv, UNCHANGED <<lsbVars, mem>>
  PROVE  MemInv'
<1>1. LSB!Position' = LSB!Position /\ \A k : LSB!At(k)' = LSB!At(k)
  BY DEF LSB!Position, LSB!At, LSB!phys, lsbVars
<1>2. QED
  BY <1>1, MemKept

LEMMA DispatchMem ==
  ASSUME PipelineInv, MemInv, AnyDispatch
  PROVE  MemInv'
<1>0. RobOK /\ TInv /\ LsbShape /\ mem' = mem
  BY DispatchIs DEF PipelineInv, TInv, LsbT, try_dispatch, archVars
<1> PICK h \in Tag : h = robTail
  BY <1>0 DEF RobOK, RobShape
<1> PICK i \in Instr : i = IQ!peek
  BY <1>0, DispatchEffect
<1>1. PICK a \in Operand, b \in Operand :
        LSB!issue(i, h, a, b) \/ UNCHANGED lsbVars
  BY <1>0, DispatchWhere
<1>2. CASE LSB!issue(i, h, a, b)
  <2> PICK n : n = lsbCount
    OBVIOUS
  <2>1. /\ lsbCount' = n + 1 /\ n \in 0 .. LsbSize - 1
        /\ \A k \in LSB!Position : LSB!At(k)' = LSB!At(k)
        /\ LSB!At(n)'.state = "WAITING"
    BY <1>0, <1>2, LsbIssueEffect
  <2>2. /\ LSB!Position \subseteq LSB!Position'
        /\ \A k \in LSB!Position' : k \notin LSB!Position => k = n
    BY <2>1, Sizes DEF LSB!Position
  <2>3. QED
    BY <1>0, <2>1, <2>2, MemKept
<1>3. CASE UNCHANGED lsbVars
  BY <1>0, <1>3, SameMem
<1>4. QED
  BY <1>1, <1>2, <1>3

(* After a pop the older stores to a word are those of before, one place   *)
(* further on, without the one that has gone.                              *)
LEMMA ShiftedWord ==
  ASSUME RobOK, LsbShape, PlaceInv, ~LSB!empty, LSB!Pop, NEW k \in LSB!Position'
  PROVE  /\ k \in Nat /\ k + 1 \in LSB!Position /\ LSB!At(k)' = LSB!At(k + 1)
         /\ \A j \in SameWord(k)' : j \in Nat /\ j + 1 \in SameWord(k + 1) /\ LSB!At(j)' = LSB!At(j + 1)
         /\ \A j \in SameWord(k + 1) : j \in Nat /\ (j # 0 => j - 1 \in SameWord(k)')
         /\ KnownBefore(k + 1) => KnownBefore(k)'
<1>1. \A j \in LSB!Position' : j + 1 \in LSB!Position /\ LSB!At(j)' = LSB!At(j + 1)
  BY LsbShifted
<1>2. lsbCount' = lsbCount - 1 /\ lsbCount \in Nat
  BY LsbPopEffect, Sizes DEF LsbShape
<1>3. /\ LSB!Position' = 0 .. lsbCount - 2 /\ LSB!Position = 0 .. lsbCount - 1 /\ k \in Nat
      /\ \A j \in LSB!Position' : j \in Nat
  BY <1>2 DEF LSB!Position
<1>4. ASSUME NEW j \in SameWord(k)'
      PROVE  j \in Nat /\ j + 1 \in SameWord(k + 1) /\ LSB!At(j)' = LSB!At(j + 1)
  <2>1. /\ j \in LSB!Position' /\ j < k /\ is_store(LSB!At(j)'.op)
        /\ LSB!WordIndex(LSB!At(j)'.addr) = LSB!WordIndex(LSB!At(k)'.addr)
    BY <1>4 DEF SameWord, LSB!WordIndex
  <2>2. /\ LSB!At(j)' = LSB!At(j + 1) /\ LSB!At(k)' = LSB!At(k + 1) /\ j + 1 \in LSB!Position
        /\ j + 1 < k + 1 /\ j \in Nat
    BY <1>1, <1>3, <2>1
  <2>3. QED
    BY <2>1, <2>2 DEF SameWord
<1>5. ASSUME NEW j \in SameWord(k + 1)
      PROVE  j \in Nat /\ (j # 0 => j - 1 \in SameWord(k)')
  <2>1. /\ j \in LSB!Position /\ j < k + 1 /\ is_store(LSB!At(j).op)
        /\ LSB!WordIndex(LSB!At(j).addr) = LSB!WordIndex(LSB!At(k + 1).addr)
    BY <1>5 DEF SameWord
  <2>2. j \in Nat
    BY <1>3, <2>1
  <2>3. ASSUME j # 0 PROVE j - 1 \in SameWord(k)'
    <3> PICK m : m = j - 1
      OBVIOUS
    <3>1. m \in LSB!Position' /\ m < k /\ m + 1 = j
      BY <1>2, <1>3, <2>1, <2>2, <2>3
    <3>2. LSB!At(m)' = LSB!At(j) /\ LSB!At(k)' = LSB!At(k + 1)
      BY <1>1, <3>1
    <3>3. m \in SameWord(k)'
      BY <2>1, <3>1, <3>2 DEF SameWord, LSB!WordIndex
    <3>4. QED
      BY <3>3
  <2>4. QED
    BY <2>2, <2>3
<1>6. ASSUME KnownBefore(k + 1) PROVE KnownBefore(k)'
  <2> SUFFICES ASSUME NEW j \in 0 .. k - 1, is_store(LSB!At(j)'.op)
               PROVE  LSB!At(j)'.state # "WAITING"
    BY DEF KnownBefore
  <2>1. j \in LSB!Position' /\ j + 1 \in 0 .. (k + 1) - 1
    BY <1>2, <1>3
  <2>2. LSB!At(j)' = LSB!At(j + 1)
    BY <1>1, <2>1
  <2>3. QED
    BY <1>6, <2>1, <2>2 DEF KnownBefore
<1>7. QED
  BY <1>1, <1>3, <1>4, <1>5, <1>6

(* The head goes: a load, or a store whose value the memory has now.       *)
LEMMA PopMem ==
  ASSUME RobOK, LsbShape, PlaceInv, MemInv, ~LSB!empty, LSB!Pop,
         \A k \in LSB!Position' : \A e :
           e = LSB!At(k + 1) /\ is_load(e.op) /\ e.state = "DONE" =>
             /\ 0 \notin SameWord(k + 1) => LSB!ReadMem(e.addr)' = LSB!ReadMem(e.addr)
             /\ 0 \in SameWord(k + 1) => LSB!ReadMem(e.addr)' = LSB!At(0).vk
  PROVE  MemInv'
<1> SUFFICES ASSUME NEW k \in LSB!Position', is_load(LSB!At(k)'.op) PROVE Reading(k)'
  BY DEF MemInv
<1> PICK n : n = k + 1
  OBVIOUS
<1> PICK e : e = LSB!At(n)
  OBVIOUS
<1>1. /\ k \in Nat /\ n \in LSB!Position /\ LSB!At(k)' = e
      /\ \A j \in SameWord(k)' : j \in Nat /\ j + 1 \in SameWord(n) /\ LSB!At(j)' = LSB!At(j + 1)
      /\ \A j \in SameWord(n) : j \in Nat /\ (j # 0 => j - 1 \in SameWord(k)')
      /\ KnownBefore(n) => KnownBefore(k)'
  BY ShiftedWord
<1>2. Reading(n)
  BY <1>1 DEF MemInv
<1>3. e.state \in {"EXECUTING", "DONE"} => KnownBefore(k)'
  BY <1>1, <1>2 DEF Reading
<1>4. e.state = "EXECUTING" => SameWord(k)' = {}
  BY <1>1, <1>2 DEF Reading
<1>5. e.state = "DONE" => \A j \in SameWord(k)' : LSB!At(j)'.state = "DONE"
  BY <1>1, <1>2 DEF Reading
<1>6. ASSUME e.state = "DONE", SameWord(k)' = {} PROVE e.result = LSB!ReadMem(e.addr)'
  <2>1. \A j \in SameWord(n) : j = 0
    BY <1>1, <1>6
  <2>2. CASE 0 \in SameWord(n)
    <3>1. \A i \in SameWord(n) : i <= 0
      BY <2>1
    <3>2. e.result = LSB!At(0).vk
      BY <1>2, <1>6, <2>2, <3>1 DEF Reading
    <3>3. QED
      BY <1>1, <1>6, <2>2, <3>2
  <2>3. CASE 0 \notin SameWord(n)
    <3>1. SameWord(n) = {}
      BY <2>1, <2>3
    <3>2. e.result = LSB!ReadMem(e.addr)
      BY <1>2, <1>6, <3>1 DEF Reading
    <3>3. QED
      BY <1>1, <1>6, <2>3, <3>2
  <2>4. QED
    BY <2>2, <2>3
<1>7. ASSUME e.state = "DONE", NEW j \in SameWord(k)', \A i \in SameWord(k)' : i <= j
      PROVE  e.result = LSB!At(j)'.vk
  <2>1. j \in Nat /\ j + 1 \in SameWord(n) /\ LSB!At(j)' = LSB!At(j + 1)
    BY <1>1
  <2>2. ASSUME NEW i \in SameWord(n) PROVE i <= j + 1
    <3>1. CASE i = 0
      BY <2>1, <3>1
    <3>2. CASE i # 0
      <4>1. i \in Nat /\ i - 1 <= j
        BY <1>1, <1>7, <3>2
      <4>2. QED
        BY <2>1, <4>1
    <3>3. QED
      BY <3>1, <3>2
  <2>3. QED
    BY <1>2, <1>7, <2>1, <2>2 DEF Reading
<1>8. QED
  BY <1>1, <1>3, <1>4, <1>5, <1>6, <1>7 DEF Reading, LSB!ReadMem, LSB!WordIndex

LEMMA LoadMem ==
  ASSUME PipelineInv, MemInv, BroadcastLoad
  PROVE  MemInv'
<1>0. RobOK /\ LsbShape /\ PlaceInv
  BY DEF PipelineInv, TInv, LsbT
<1>1. LSB!Pop /\ ~LSB!empty /\ is_load(lsbEntries[lsbHead].op) /\ mem' = mem
  BY DEF BroadcastLoad, LSB!pop_load_result, LSB!has_load_result, archVars
<1>2. 0 \in LSB!Position /\ LSB!At(0) = lsbEntries[lsbHead]
  BY <1>0, <1>1, LsbShifted
<1>3. \A k : 0 \notin SameWord(k)
  BY <1>1, <1>2, OpKinds DEF SameWord
<1>4. \A a : LSB!ReadMem(a)' = LSB!ReadMem(a)
  BY <1>1 DEF LSB!ReadMem, LSB!WordIndex
<1>5. QED
  BY <1>0, <1>1, <1>3, <1>4, PopMem

LEMMA StoreMem ==
  ASSUME PipelineInv, MemInv, AccessesAgree, CommitStore
  PROVE  MemInv'
<1>0. RobOK /\ LsbShape /\ PlaceInv /\ MemT
  BY DEF PipelineInv, TInv, LsbT
<1> PICK e : e = lsbEntries[lsbHead]
  OBVIOUS
<1>1. /\ LSB!Pop /\ ~LSB!empty /\ is_store(e.op) /\ e.state = "DONE"
      /\ mem' = IF LSB!WordIndex(e.addr) < MemWords
                  THEN [mem EXCEPT ![LSB!WordIndex(e.addr)] = e.vk] ELSE mem
  BY DEF CommitStore, LSB!commit_store, LSB!can_commit_store
<1>2. 0 \in LSB!Position /\ LSB!At(0) = e
  BY <1>0, <1>1, LsbShifted
<1>3. \A a \in Word : LSB!WordIndex(a) \in Nat
  <2>1. \A a \in Word : a \in Nat
    BY WordFacts
  <2>2. QED
    BY <2>1, DivSmaller DEF LSB!WordIndex
<1>4. ASSUME NEW k \in LSB!Position', NEW f, f = LSB!At(k + 1), is_load(f.op), f.state = "DONE"
      PROVE  /\ 0 \notin SameWord(k + 1) => LSB!ReadMem(f.addr)' = LSB!ReadMem(f.addr)
             /\ 0 \in SameWord(k + 1) => LSB!ReadMem(f.addr)' = LSB!At(0).vk
  <2>1. k + 1 \in LSB!Position /\ k \in Nat
    BY <1>0, <1>1, ShiftedWord
  <2> PICK w, x : w = LSB!WordIndex(f.addr) /\ x = LSB!WordIndex(e.addr)
    OBVIOUS
  <2>2. w \in Nat /\ x \in Nat /\ f \in LsbEntry /\ e \in LsbEntry
    <3>1. f \in LsbEntry /\ e \in LsbEntry
      BY <1>0, <1>2, <1>4, <2>1, AtTyped
    <3>2. QED
      BY <1>3, <3>1 DEF LsbEntry
  <2>3. 0 \in SameWord(k + 1) <=> w = x
    BY <1>1, <1>2, <1>4, <2>1 DEF SameWord
  <2>4. /\ LSB!ReadMem(f.addr) = (IF w < MemWords THEN mem[w] ELSE 0)
        /\ LSB!ReadMem(f.addr)' = (IF w < MemWords THEN mem'[w] ELSE 0)
    BY DEF LSB!ReadMem, LSB!WordIndex
  <2>5. MemWords \in Nat /\ DOMAIN mem = 0 .. MemWords - 1
    BY <1>0, SizesAssumption DEF MemT
  <2>6. CASE w = x
    <3>1. w < MemWords
      <4>1. 0 \in SameWord(k + 1)
        BY <2>3, <2>6
      <4>2. QED
        BY <1>1, <1>2, <1>4, <2>1, <4>1 DEF AccessesAgree
    <3>2. mem'[w] = e.vk
      BY <1>1, <2>2, <2>5, <2>6, <3>1
    <3>3. QED
      BY <1>2, <2>3, <2>4, <2>6, <3>1, <3>2
  <2>7. CASE w # x
    <3>1. w < MemWords => mem'[w] = mem[w]
      BY <1>1, <2>2, <2>5, <2>7
    <3>2. QED
      BY <2>3, <2>4, <2>7, <3>1
  <2>8. QED
    BY <2>6, <2>7
<1>5. QED
  BY <1>0, <1>1, <1>4, PopMem

LEMMA MemStep ==
  PipelineInv /\ MemInv /\ AccessesAgree /\ AccessesAgree' /\ [Next]_vars => MemInv'
<1> SUFFICES ASSUME PipelineInv, MemInv, AccessesAgree, AccessesAgree', [Next]_vars PROVE MemInv'
  OBVIOUS
<1>0. LsbShape
  BY DEF PipelineInv, TInv, LsbT
<1>1. CASE \/ NotifyStore \/ BroadcastStation \/ CommitHalt \/ CommitBranch \/ CommitJump
           \/ CommitResult \/ AnyParse \/ (AnyOther /\ ~Execute /\ ~Snoop) \/ UNCHANGED vars
  <2>1. UNCHANGED <<lsbVars, mem>>
    BY <1>1 DEF NotifyStore, BroadcastStation, CommitHalt, CommitBranch, CommitJump, CommitResult,
       AnyOther, AnyParse, vars, Parse, LoadProgram, NoInstructions, Returned, pipeVars, archVars,
       StoresNotified, BroadcastEnds, CommitNothing, Fetch,
       FetchStalled, DispatchEnds, NextCycle, Report
  <2>2. QED
    BY <1>0, <2>1, SameMem
<1>2. QED
  BY <1>1, StepKinds, TickMem, SnoopMem, DispatchMem, LoadMem, StoreMem
     DEF AnyWrite, AnyCommit

(* The result of a load that has left the LSB is what the memory holds, and *)
(* no store that could change that is left before it.                       *)
Fetched(t) ==
  /\ \E a \in Word : /\ Worth(t, InsOf(t).rs1, a)
                     /\ robEntries[t].result = LSB!ReadMem(Wrap(a + InsOf(t).imm))
  /\ \A u \in Tag : Live(u) /\ is_store(robEntries[u].info.op) => ROB!Age(t) < ROB!Age(u)

FetchInv == \A t \in Tag : Done(t) /\ is_load(robEntries[t].info.op) => Fetched(t)

LEMMA FetchInit == Init => FetchInv
<1> SUFFICES ASSUME Init PROVE FetchInv
  OBVIOUS
<1>1. \A t \in Tag : ~Done(t)
  BY DEF Init, ROB!Init, ROB!IdleEntry, Done, Tag
<1>2. QED
  BY <1>1 DEF FetchInv

LEMMA FetchedKept ==
  ASSUME Stable, TInv, PcInv, NEW t \in Tag, Done(t), Live(t)', Fetched(t), mem' = mem,
         \A u \in Tag : Live(u)' /\ is_store(robEntries'[u].info.op) => ROB!Age(t)' < ROB!Age(u)'
  PROVE  Fetched(t)'
<1>1. Live(t)
  BY DEF Live, Done
<1>2. PICK a \in Word : /\ Worth(t, InsOf(t).rs1, a)
                        /\ robEntries[t].result = LSB!ReadMem(Wrap(a + InsOf(t).imm))
  BY DEF Fetched
<1>3. robEntries'[t] = robEntries[t] /\ InsOf(t)' = InsOf(t)
  BY <1>1 DEF Stable
<1> PICK r \in Reg \cup {NoReg} : r = InsOf(t).rs1
  BY <1>1, InsTyped
<1> PICK x : x = Wrap(a + InsOf(t).imm)
  OBVIOUS
<1>4. Worth(t, r, a)'
  BY <1>1, <1>2, WorthStays
<1>5. LSB!ReadMem(x)' = LSB!ReadMem(x)
  BY DEF LSB!ReadMem, LSB!WordIndex
<1>6. robEntries'[t].result = LSB!ReadMem(x)'
  BY <1>2, <1>3, <1>5
<1>7. QED
  BY <1>3, <1>4, <1>6 DEF Fetched, LSB!ReadMem, LSB!WordIndex

(* The load at the head of the LSB has no store before it any more. *)
LEMMA LoadFetched ==
  ASSUME PipelineInv, PcInv, ValueInv, MemInv, Stable, BroadcastLoad
  PROVE  \E t, v : Finishes(t, v) /\ Fetched(t)'
<1>0. RobOK /\ TInv /\ PlaceInv /\ LsbShape /\ WakeInv
  BY DEF PipelineInv, TInv, LsbT
<1>1. /\ LSB!Pop /\ ~LSB!empty /\ mem' = mem
      /\ ROB!write_result(lsbEntries[lsbHead].tag, lsbEntries[lsbHead].result)
      /\ lsbEntries[lsbHead].state = "DONE" /\ is_load(lsbEntries[lsbHead].op)
  BY DEF BroadcastLoad, LSB!pop_load_result, LSB!has_load_result, archVars
<1> PICK e : e = LSB!At(0)
  OBVIOUS
<1>2. 0 \in LSB!Position /\ e = lsbEntries[lsbHead]
  BY <1>0, <1>1, LsbShifted
<1> PICK t, v : t = e.tag /\ v = e.result
  OBVIOUS
<1>3. Finishes(t, v) /\ e.state = "DONE" /\ is_load(e.op)
  BY <1>0, <1>1, <1>2, WriteFinishes
<1>4. LsbFits(e) /\ LsbWake(e) /\ LsbValue(e) /\ Reading(0) /\ e \in LsbEntry
  BY <1>0, <1>2, <1>3, AtTyped
     DEF PlaceInv, LsbPlace, WakeInv, ValueInv, LsbValues, MemInv
<1>5. t \in Tag /\ Live(t) /\ Live(t)'
  BY <1>3 DEF Finishes, InFlight, Live, Done
<1>6. v = LSB!ReadMem(e.addr)
  <2>1. SameWord(0) = {}
    <3>1. \A j \in LSB!Position : ~(j < 0)
      BY Sizes DEF LSB!Position
    <3>2. QED
      BY <3>1 DEF SameWord
  <2>2. QED
    BY <1>3, <1>4, <2>1 DEF Reading
<1>7. InsOf(t)' = InsOf(t)
  BY <1>5 DEF Stable
<1> PICK r \in Reg \cup {NoReg} : r = InsOf(t).rs1
  BY <1>0, <1>5, InsTyped
<1> PICK a \in Word : a = e.vj
  BY <1>4 DEF LsbEntry
<1>8. Worth(t, r, a)
  BY <1>3, <1>4 DEF LsbWake, LsbValue, Operands, Reads
<1>9. Worth(t, r, a)'
  BY <1>5, <1>8, WorthStays
<1> PICK x : x = e.addr
  OBVIOUS
<1>10. x = Wrap(a + InsOf(t).imm)
  BY <1>3, <1>4 DEF LsbValue, Operands
<1>11. robEntries'[t].result = LSB!ReadMem(x)'
  <2>1. LSB!ReadMem(x)' = LSB!ReadMem(x)
    BY <1>1 DEF LSB!ReadMem, LSB!WordIndex
  <2>2. QED
    BY <1>3, <1>6, <2>1 DEF Finishes
<1>12. ASSUME NEW u \in Tag, Live(u)', is_store(robEntries'[u].info.op)
       PROVE  ROB!Age(t)' < ROB!Age(u)'
  <2>1. /\ robEntries'[u].info = robEntries[u].info /\ (Live(u)' <=> Live(u))
        /\ ROB!Age(u)' = ROB!Age(u) /\ ROB!Age(t)' = ROB!Age(t)
    BY <1>0, <1>5, SameEntries DEF AnyWrite
  <2>2. InRs(u) \/ InLsb(u)
    BY <1>0, <1>12, <2>1 DEF PlaceInv, HasPlace, Placed
  <2>3. ~InRs(u)
    BY <1>0, <1>12, <2>1, OpKinds DEF InRs, PlaceInv, RsPlace, RsFits
  <2>4. PICK k \in LSB!Position : LSB!At(k).tag = u
    BY <2>2, <2>3 DEF InLsb
  <2>5. k # 0
    BY <1>3, <1>4, <1>12, <2>1, <2>4, OpKinds DEF LsbFits
  <2>6. 0 < k
    BY <2>5, Sizes DEF LSB!Position
  <2>7. ROB!Age(t) < ROB!Age(u)
    BY <1>0, <1>2, <2>4, <2>6 DEF PlaceInv, LsbOrder
  <2>8. QED
    BY <2>1, <2>7
<1>13. Fetched(t)'
  BY <1>7, <1>9, <1>10, <1>11, <1>12 DEF Fetched, LSB!ReadMem, LSB!WordIndex
<1>14. QED
  BY <1>3, <1>13

LEMMA FetchStep ==
  PipelineInv /\ PcInv /\ ValueInv /\ MemInv /\ FetchInv /\ [Next]_vars => FetchInv'
<1> SUFFICES ASSUME PipelineInv, PcInv, ValueInv, MemInv, FetchInv, [Next]_vars,
                    NEW t \in Tag, Done(t)', is_load(robEntries'[t].info.op)
             PROVE  Fetched(t)'
  BY DEF FetchInv
<1>0. RobOK /\ TInv /\ Stable
  BY StableStep DEF PipelineInv
<1>1. CASE ~Done(t)
  <2>1. AnyWrite
    BY <1>0, <1>1, NewlyDone
  <2>2. CASE BroadcastLoad
    <3>1. PICK u, v : Finishes(u, v) /\ Fetched(u)'
      BY <1>0, <2>2, LoadFetched
    <3>2. t = u
      BY <1>1, <3>1 DEF Finishes, Done
    <3>3. QED
      BY <3>1, <3>2
  <2>3. CASE BroadcastStation
    <3>1. PICK k \in DOMAIN StationOrder :
            /\ RS!pop_result(StationOrder[k])
            /\ ROB!write_result(RS!Popped(StationOrder[k]).tag, RS!Popped(StationOrder[k]).result)
      BY <2>3 DEF BroadcastStation
    <3> PICK s \in Station : s = StationOrder[k]
      BY DEF Station
    <3>2. PICK d \in RS!RSlot(s) : RS!Popped(s) = rs[s][d] /\ rs[s][d].busy
      BY <1>0, <3>1, RsPopEffect DEF TInv
    <3>3. Finishes(rs[s][d].tag, rs[s][d].result)
      BY <1>0, <3>1, <3>2, WriteFinishes
    <3>4. t = rs[s][d].tag /\ robEntries'[t].info = robEntries[t].info
      BY <1>1, <3>3 DEF Finishes, Done
    <3>5. ~ToLsb(robEntries[t].info.op)
      BY <3>2, <3>4 DEF PipelineInv, PlaceInv, RsPlace, RsFits
    <3>6. QED
      BY <3>4, <3>5, OpKinds
  <2>4. CASE NotifyStore
    <3>1. PICK u \in LSB!DoneStoreTags : ROB!write_result(u, 0)
      BY <2>4 DEF NotifyStore
    <3>2. PICK k \in LSB!Position : u = LSB!At(k).tag /\ is_store(LSB!At(k).op)
      BY <3>1 DEF LSB!DoneStoreTags
    <3>3. Finishes(u, 0)
      BY <1>0, <3>1, WriteFinishes
    <3>4. t = u /\ robEntries'[t].info = robEntries[t].info
      BY <1>1, <3>3 DEF Finishes, Done
    <3>5. is_store(robEntries[t].info.op)
      BY <3>2, <3>4 DEF PipelineInv, PlaceInv, LsbPlace, LsbFits
    <3>6. QED
      BY <3>4, <3>5, OpKinds
  <2>5. QED
    BY <2>1, <2>2, <2>3, <2>4 DEF AnyWrite
<1>2. CASE Done(t)
  <2>1. Live(t) /\ Live(t)'
    BY <1>2 DEF Done, Live
  <2>2. robEntries'[t].info = robEntries[t].info
    BY <1>0, <2>1 DEF Stable
  <2>3. Fetched(t)
    BY <1>2, <2>2 DEF FetchInv
  <2>4. \A u \in Tag : ROB!Age(u) \in Nat
    BY <1>0, AgeInjective DEF RobOK
  <2>5. CASE AnyCommit
    <3> PICK h \in Tag : h = robHead
      BY <1>0 DEF RobOK, RobShape
    <3>1. ROB!commit
      BY <2>5, CommitIs DEF Committing
    <3>2. /\ ROB!Age(h) = 0 /\ Done(h) /\ ~Live(h)'
          /\ \A u \in Tag \ {h} : robEntries'[u] = robEntries[u] /\ ROB!Age(u)' = ROB!Age(u) - 1
      BY <1>0, <3>1, CommitEffect DEF Done, Live
    <3>3. ~CommitStore
      <4>1. ~is_store(robEntries[h].info.op)
        BY <2>3, <2>4, <3>2 DEF Fetched, Live, Done
      <4>2. QED
        BY <4>1 DEF CommitStore, Entry
    <3>4. mem' = mem
      BY <2>5, <3>3 DEF AnyCommit, CommitHalt, CommitBranch, CommitJump, CommitResult, archVars
    <3>5. ASSUME NEW u \in Tag, Live(u)', is_store(robEntries'[u].info.op)
          PROVE  ROB!Age(t)' < ROB!Age(u)'
      <4>1. u # h /\ t # h
        BY <2>1, <3>2, <3>5
      <4>2. ROB!Age(t) < ROB!Age(u)
        BY <2>3, <3>2, <3>5, <4>1 DEF Fetched, Live
      <4>3. QED
        BY <2>4, <3>2, <4>1, <4>2
    <3>6. QED
      BY <1>0, <1>2, <2>1, <2>3, <3>4, <3>5, FetchedKept
  <2>6. CASE AnyDispatch
    <3> PICK h \in Tag : h = robTail
      BY <1>0 DEF RobOK, RobShape
    <3>1. /\ \A u \in Tag \ {h} : robEntries'[u] = robEntries[u]
          /\ \A u \in Tag : ROB!Age(u)' = ROB!Age(u)
          /\ ROB!Age(h) = robCount
          /\ \A u \in Tag : Live(u) => ROB!Age(u) < robCount
      BY <1>0, <2>6, DispatchEffect
    <3>2. mem' = mem
      BY <2>6, DispatchIs DEF try_dispatch, archVars
    <3>3. ASSUME NEW u \in Tag, Live(u)', is_store(robEntries'[u].info.op)
          PROVE  ROB!Age(t)' < ROB!Age(u)'
      <4>1. CASE u = h
        BY <2>1, <3>1, <4>1
      <4>2. CASE u # h
        BY <2>3, <3>1, <3>3, <4>2 DEF Fetched, Live
      <4>3. QED
        BY <4>1, <4>2
    <3>4. QED
      BY <1>0, <1>2, <2>1, <2>3, <3>2, <3>3, FetchedKept
  <2>7. CASE AnyWrite \/ AnyParse \/ AnyOther \/ UNCHANGED vars
    <3>1. \A u \in Tag : /\ Live(u)' <=> Live(u)
                         /\ robEntries'[u].info = robEntries[u].info
                         /\ ROB!Age(u)' = ROB!Age(u)
      BY <1>0, <2>7, SameEntries
    <3>2. mem' = mem
      BY <2>7 DEF AnyWrite, NotifyStore, BroadcastStation, BroadcastLoad,
         AnyOther, AnyParse, vars, Parse, LoadProgram, NoInstructions, Returned, pipeVars, archVars,
         Execute, Snoop, StoresNotified, BroadcastEnds, CommitNothing, Fetch,
         FetchStalled, DispatchEnds, NextCycle, Report
    <3>3. \A u \in Tag : Live(u)' /\ is_store(robEntries'[u].info.op) => ROB!Age(t)' < ROB!Age(u)'
      BY <2>3, <3>1 DEF Fetched
    <3>4. QED
      BY <1>0, <1>2, <2>1, <2>3, <3>2, <3>3, FetchedKept
  <2>8. QED
    BY <2>5, <2>6, <2>7, StepKinds
<1>3. QED
  BY <1>1, <1>2

-----------------------------------------------------------------------------
(* The refinement.                                                         *)

(* The oldest instruction that has not retired: at the head of the reorder *)
(* buffer, else the next one to be dispatched.                             *)
LEMMA ArchPcNow ==
  ASSUME TInv, PcInv
  PROVE  ArchPc = IF robCount = 0 THEN FetchPc ELSE Entry.info.pc
<1>1. IQ!can_dispatch => IQ!peek.pc = FetchPc
  BY PeekIs
<1>2. ~IQ!can_dispatch => FetchPc = 4 * iqPc
  BY DEF IQ!can_dispatch, FetchPc, TInv, IqT
<1>3. QED
  BY <1>1, <1>2 DEF ArchPc, ROB!empty

LEMMA ArchPcNext ==
  ASSUME TInv', PcInv'
  PROVE  ArchPc' = IF robCount' = 0 THEN FetchPc' ELSE robEntries'[robHead'].info.pc
<1>1. iqBuffer' \in Seq(Instr) /\ iqPc' \in Nat
  BY DEF TInv, IqT
<1>2. ASSUME iqBuffer' # << >> PROVE (IQ!peek.pc)' = FetchPc'
  <2> PICK x : x = FetchPc'
    OBVIOUS
  <2>1. IQ!peek' = iqBuffer'[1] /\ 1 \in DOMAIN iqBuffer'
    BY <1>1, <1>2 DEF IQ!peek
  <2>2. iqBuffer'[1].pc = x + 4 * (1 - 1)
    BY <2>1 DEF PcInv, BufferInv
  <2>3. x \in Nat
    BY DEF FetchPc, PcInv, BufferInv
  <2>4. iqBuffer'[1].pc = x
    <3>1. \A n \in Nat : n + 4 * (1 - 1) = n
      OBVIOUS
    <3>2. QED
      BY <2>2, <2>3, <3>1
  <2>5. (IQ!peek.pc)' = iqBuffer'[1].pc
    BY <1>1, <1>2 DEF IQ!peek
  <2>6. QED
    BY <2>4, <2>5
<1>3. iqBuffer' = << >> => FetchPc' = 4 * iqPc'
  BY <1>1 DEF FetchPc
<1>4. QED
  BY <1>2, <1>3 DEF ArchPc, ROB!empty, IQ!can_dispatch, Entry

(* When the head retires, the sequential machine is at its instruction and *)
(* reads the operands it has read.                                         *)
LEMMA AtHead ==
  ASSUME PipelineInv, PcInv, AnyCommit
  PROVE  /\ robHead \in Tag /\ Done(robHead) /\ Live(robHead)
         /\ ArchPc = Entry.info.pc /\ ISA!Current = InsOf(robHead) /\ ISA!Running
         /\ Entry.info.op = ISA!Current.op /\ Entry.info.rd = ISA!Current.rd
         /\ ISA!Current.rs1 \in Reg \cup {NoReg} /\ ISA!Current.rs2 \in Reg \cup {NoReg}
         /\ \A r \in Reg \cup {NoReg} : \A v : Worth(robHead, r, v) => v = ISA!Operand(r)
<1>0. RobOK /\ TInv
  BY DEF PipelineInv
<1> PICK h \in Tag : h = robHead
  BY <1>0 DEF RobOK, RobShape
<1>1. ROB!commit /\ phase = "commit"
  BY CommitIs DEF Committing
<1>2. Done(h) /\ Live(h) /\ ROB!Age(h) = 0 /\ robCount > 0
  BY <1>0, <1>1, CommitEffect DEF Done, Live
<1>3. ArchPc = Entry.info.pc
  BY <1>0, <1>2, ArchPcNow DEF RobOK, RobShape
<1>4. ISA!Current = InsOf(h)
  BY <1>3 DEF ISA!Current, InsOf, Ins, Entry
<1>5. ISA!Running
  <2>1. Entry.info.pc \div 4 < Len(program)
    BY <1>2 DEF PcInv, OrderInv, FromProgram, Entry
  <2>2. ~halted
    BY <1>1 DEF PcInv, HaltInv
  <2>3. QED
    BY <1>3, <2>1, <2>2 DEF ISA!Running
<1>6. /\ Entry.info.op = InsOf(h).op /\ Entry.info.rd = InsOf(h).rd
      /\ InsOf(h).rs1 \in Reg \cup {NoReg} /\ InsOf(h).rs2 \in Reg \cup {NoReg}
  BY <1>0, <1>2, InsTyped DEF Entry
<1>7. ASSUME NEW r \in Reg \cup {NoReg}, NEW v, Worth(h, r, v) PROVE v = ISA!Operand(r)
  <2>1. \A u \in Tag : ~Before(u, h, r)
    <3>1. \A u \in Tag : ROB!Age(u) \in Nat
      BY <1>0, AgeInjective DEF RobOK
    <3>2. QED
      BY <1>2, <3>1 DEF Before
  <2>2. rf[X0] = 0
    BY <1>0 DEF TInv, RfT
  <2>3. CASE r \in {NoReg, X0}
    BY <1>7, <2>2, <2>3, X0Reg DEF Worth, ISA!Operand
  <2>4. CASE r \notin {NoReg, X0}
    BY <1>7, <2>1, <2>4 DEF Worth, ISA!Operand, Feeds
  <2>5. QED
    BY <2>3, <2>4
<1>8. QED
  BY <1>2, <1>3, <1>4, <1>5, <1>6, <1>7

(* Where the sequential machine goes when the head retires. *)
LEMMA StraightNext ==
  ASSUME PipelineInv, PcInv, TInv', PcInv', Straight
  PROVE  ArchPc' = ArchPc + 4
<1>0. RobOK /\ TInv /\ StallInv
  BY DEF PipelineInv
<1> PICK h \in Tag : h = robHead
  BY <1>0 DEF RobOK, RobShape
<1>1. ROB!commit /\ UNCHANGED <<iqVars, branch_in_flight>> /\ ~Control(h)
  BY <1>0, StraightIs
<1>2. /\ ROB!Age(h) = 0 /\ robCount' = robCount - 1 /\ robCount > 0 /\ robCount \in Nat
      /\ \A t \in Tag \ {h} : robEntries'[t] = robEntries[t]
      /\ Live(h)
  BY <1>0, <1>1, CommitEffect DEF RobOK, RobShape, Live
<1>3. ArchPc = robEntries[h].info.pc
  BY AtHead DEF AnyCommit, Straight, Entry
<1>4. CASE robCount = 1
  <2>1. \A t \in Tag : Live(t) => t = h
    <3>1. \A t \in Tag : Live(t) => ROB!Age(t) < 1
      BY <1>0, <1>4 DEF RobOK, ROB!WindowIsLive, Live, Tag
    <3>2. QED
      BY <1>0, <1>2, <3>1, AgeInjective DEF RobOK
  <2>2. ~branch_in_flight
    BY <1>0, <1>1, <2>1 DEF StallInv, Control
  <2>3. FetchPc = robEntries[h].info.pc + 4
    BY <1>2, <1>4, <2>2 DEF PcInv, OrderInv
  <2>4. FetchPc' = FetchPc /\ robCount' = 0
    BY <1>1, <1>2, <1>4 DEF FetchPc, iqVars
  <2>5. QED
    BY <1>3, <2>3, <2>4, ArchPcNext
<1>5. CASE robCount # 1
  <2> PICK u : u = ROB!Succ(h)
    OBVIOUS
  <2>1. u \in Tag /\ ROB!Age(u) = 1 /\ u # h
    <3>1. u = IF h = RobSize - 1 THEN 0 ELSE h + 1
      BY SuccWraps
    <3>2. RobSize > 1
      BY <1>0, <1>2, <1>5, Sizes DEF RobOK, RobShape
    <3>3. QED
      BY <3>1, <3>2, Sizes DEF Tag, ROB!Slot, ROB!Age
  <2>2. Live(u)
    BY <1>0, <1>2, <1>5, <2>1 DEF RobOK, ROB!WindowIsLive, Live, Tag
  <2>3. robEntries[u].info.pc = robEntries[h].info.pc + 4
    BY <1>2, <2>1, <2>2 DEF PcInv, OrderInv
  <2>4. robHead' = u /\ robEntries'[u] = robEntries[u] /\ robCount' # 0
    BY <1>1, <1>2, <1>5, <2>1 DEF ROB!commit
  <2>5. QED
    BY <1>3, <2>3, <2>4, ArchPcNext
<1>6. QED
  BY <1>4, <1>5

LEMMA ControlNext ==
  ASSUME PipelineInv, PcInv, TInv', PcInv', CommitBranch \/ CommitJump
  PROVE  ArchPc' = 4 * (Entry.result \div 4)
<1>0. RobOK /\ TInv /\ StallInv
  BY DEF PipelineInv
<1>1. ROB!commit /\ Redirect
  BY DEF CommitBranch, CommitJump, Committing
<1>2. iqBuffer' = << >> /\ iqPc' = Entry.result \div 4
  BY <1>1 DEF Redirect, IQ!seek
<1>3. FetchPc' = 4 * (Entry.result \div 4)
  <2>1. iqPc' \in Nat
    BY DEF TInv, IqT
  <2>2. QED
    BY <1>2, <2>1 DEF FetchPc
<1>4. robCount' = 0
  <2> PICK h \in Tag : h = robHead
    BY <1>0 DEF RobOK, RobShape
  <2>1. \A t \in Tag : Live(t) => t = h
    BY <1>0, ControlAlone
  <2>2. ROB!Age(h) = 0 /\ robCount' = robCount - 1 /\ robCount \in 0 .. RobSize /\ robCount > 0
    BY <1>0, <1>1, CommitEffect DEF RobOK, RobShape
  <2>3. robCount <= 1
    <3> SUFFICES ASSUME robCount > 1 PROVE FALSE
      BY <2>2, Sizes
    <3> PICK u : u = ROB!Succ(h)
      OBVIOUS
    <3>1. u \in Tag /\ ROB!Age(u) = 1 /\ u # h
      <4>1. u = IF h = RobSize - 1 THEN 0 ELSE h + 1
        BY SuccWraps
      <4>2. RobSize > 1
        BY <2>2, Sizes
      <4>3. QED
        BY <4>1, <4>2, Sizes DEF Tag, ROB!Slot, ROB!Age
    <3>2. Live(u)
      BY <1>0, <3>1 DEF RobOK, ROB!WindowIsLive, Live, Tag
    <3>3. QED
      BY <2>1, <3>1, <3>2
  <2>4. QED
    BY <2>2, <2>3, Sizes
<1>5. QED
  BY <1>3, <1>4, ArchPcNext

(* For a memory operation execute_op gives the byte address. *)
LEMMA AddressIs ==
  ASSUME NEW op \in Loads \cup Stores, NEW a, NEW b, NEW imm, NEW pc
  PROVE  execute_op(op, a, b, imm, pc) = Wrap(a + imm)
  BY DEF execute_op, Loads, Stores, Branches, FpArith, FpCvt

(* The head of the reorder buffer has the outcome of its instruction. *)
LEMMA HeadComputed ==
  ASSUME PipelineInv, PcInv, ValueInv, AnyCommit, ~ToLsb(Entry.info.op)
  PROVE  Entry.result = ISA!Outcome
<1> PICK h : h = robHead
  OBVIOUS
<1>1. /\ h \in Tag /\ Done(h) /\ ArchPc = Entry.info.pc /\ ISA!Current = InsOf(h)
      /\ ISA!Current.rs1 \in Reg \cup {NoReg} /\ ISA!Current.rs2 \in Reg \cup {NoReg}
      /\ \A r \in Reg \cup {NoReg} : \A v : Worth(h, r, v) => v = ISA!Operand(r)
  BY AtHead
<1>2. Computed(h)
  BY <1>1 DEF ValueInv, Results, Entry
<1>3. PICK a \in Word, b \in Word :
        /\ Worth(h, InsOf(h).rs1, a) /\ Worth(h, InsOf(h).rs2, b)
        /\ robEntries[h].result =
             execute_op(InsOf(h).op, a, b, InsOf(h).imm, robEntries[h].info.pc)
  BY <1>2 DEF Computed
<1>4. a = ISA!Operand(ISA!Current.rs1) /\ b = ISA!Operand(ISA!Current.rs2)
  BY <1>1, <1>3
<1>5. QED
  BY <1>1, <1>3, <1>4 DEF ISA!Outcome, Entry

(* A load has what the sequential machine would load. *)
LEMMA HeadLoaded ==
  ASSUME PipelineInv, PcInv, FetchInv, AnyCommit, is_load(Entry.info.op)
  PROVE  Entry.result = IF ISA!InMemory THEN mem[ISA!Outcome \div 4] ELSE 0
<1> PICK h : h = robHead
  OBVIOUS
<1>1. /\ h \in Tag /\ Done(h) /\ ISA!Current = InsOf(h) /\ Entry.info.op = ISA!Current.op
      /\ ISA!Current.rs1 \in Reg \cup {NoReg}
      /\ \A r \in Reg \cup {NoReg} : \A v : Worth(h, r, v) => v = ISA!Operand(r)
  BY AtHead
<1>2. PICK a \in Word : /\ Worth(h, InsOf(h).rs1, a)
                        /\ robEntries[h].result = LSB!ReadMem(Wrap(a + InsOf(h).imm))
  BY <1>1 DEF FetchInv, Fetched, Entry
<1>3. a = ISA!Operand(ISA!Current.rs1)
  BY <1>1, <1>2
<1>4. ISA!Outcome = Wrap(a + InsOf(h).imm)
  BY <1>1, <1>3, AddressIs DEF ISA!Outcome, is_load
<1>5. QED
  BY <1>2, <1>4 DEF ISA!InMemory, LSB!ReadMem, LSB!WordIndex, Entry

(* The store that retires is the one at the LSB head, and it has its       *)
(* address and its data.                                                   *)
LEMMA HeadStored ==
  ASSUME PipelineInv, PcInv, ValueInv, CommitStore
  PROVE  /\ lsbEntries[lsbHead].addr = ISA!Outcome
         /\ lsbEntries[lsbHead].vk = ISA!Operand(ISA!Current.rs2)
<1>0. RobOK /\ LsbShape /\ PlaceInv /\ AnyCommit
  BY DEF PipelineInv, TInv, LsbT, AnyCommit
<1> PICK h : h = robHead
  OBVIOUS
<1>1. /\ h \in Tag /\ ISA!Current = InsOf(h) /\ Entry.info.op = ISA!Current.op
      /\ ISA!Current.rs1 \in Reg \cup {NoReg} /\ ISA!Current.rs2 \in Reg \cup {NoReg}
      /\ \A r \in Reg \cup {NoReg} : \A v : Worth(h, r, v) => v = ISA!Operand(r)
  BY <1>0, AtHead
<1>2. ROB!head_ready /\ is_store(Entry.info.op)
  BY DEF CommitStore, Committing, ROB!commit
<1>3. LSB!can_commit_store /\ 0 \in LSB!Position /\ LSB!At(0).tag = h
  BY <1>0, <1>2, StoreAtHead
<1> PICK e : e = LSB!At(0)
  OBVIOUS
<1>4. e = lsbEntries[lsbHead]
  BY <1>0, PhysPos DEF LSB!At
<1>5. e.state = "DONE" /\ e.tag = h
  BY <1>3, <1>4 DEF LSB!can_commit_store
<1>6. LsbValue(e) /\ LsbWake(e)
  BY <1>3 DEF ValueInv, LsbValues, PipelineInv, WakeInv
<1>7. /\ Worth(h, InsOf(h).rs1, e.vj) /\ Worth(h, InsOf(h).rs2, e.vk)
      /\ e.addr = Wrap(e.vj + InsOf(h).imm)
  BY <1>5, <1>6 DEF LsbValue, LsbWake, Operands, Reads
<1>8. e.vj = ISA!Operand(ISA!Current.rs1) /\ e.vk = ISA!Operand(ISA!Current.rs2)
  BY <1>1, <1>7
<1>9. ISA!Outcome = Wrap(e.vj + InsOf(h).imm)
  BY <1>1, <1>2, <1>8, AddressIs DEF ISA!Outcome, is_store
<1>10. QED
  BY <1>4, <1>7, <1>8, <1>9

(* Every commit is a step of the sequential machine. *)
LEMMA CommitIsa ==
  ASSUME PipelineInv, PcInv, ValueInv, FetchInv, TInv', PcInv', AnyCommit
  PROVE  ISA!Step
<1>1. /\ ISA!Running /\ ArchPc = Entry.info.pc
      /\ Entry.info.op = ISA!Current.op /\ Entry.info.rd = ISA!Current.rd
  BY AtHead
<1>2. program' = program
  BY CommitIs DEF Committing
<1>3. Straight => ISA!Sequential
  BY StraightNext DEF ISA!Sequential
<1>4. CASE CommitHalt
  <2>1. Entry.info.op = "HALT" /\ halted' = TRUE /\ UNCHANGED <<rf, mem>>
    BY <1>4 DEF CommitHalt, archVars
  <2>2. ISA!Halt
    BY <1>1, <1>3, <1>4, <2>1 DEF ISA!Halt, Straight
  <2>3. QED
    BY <1>1, <1>2, <2>2 DEF ISA!Step
<1>5. CASE CommitBranch
  <2>1. is_branch(Entry.info.op) /\ UNCHANGED <<rf, mem, halted>>
    BY <1>5 DEF CommitBranch, archVars
  <2>2. ~ToLsb(Entry.info.op)
    BY <2>1 DEF ToLsb, is_branch, is_load, is_store, Branches, Loads, Stores
  <2>3. ISA!Redirect(ISA!Outcome)
    BY <1>5, <2>2, HeadComputed, ControlNext DEF ISA!Redirect, AnyCommit
  <2>4. ISA!Branch
    BY <1>1, <2>1, <2>3 DEF ISA!Branch
  <2>5. QED
    BY <1>1, <1>2, <2>4 DEF ISA!Step
<1>6. CASE CommitJump
  <2>1. /\ is_jump(Entry.info.op) /\ UNCHANGED <<mem, halted>>
        /\ RF!write(Entry.info.rd, Wrap(Entry.info.pc + 4))
    BY <1>6 DEF CommitJump
  <2>2. ~ToLsb(Entry.info.op)
    BY <2>1 DEF ToLsb, is_jump, is_load, is_store, Jumps, Loads, Stores
  <2>3. ISA!Redirect(ISA!Outcome)
    BY <1>6, <2>2, HeadComputed, ControlNext DEF ISA!Redirect, AnyCommit
  <2>4. ISA!WriteReg(ISA!Current.rd, Wrap(ArchPc + 4))
    BY <1>1, <2>1 DEF ISA!WriteReg, RF!write
  <2>5. ISA!Jump
    BY <1>1, <2>1, <2>3, <2>4 DEF ISA!Jump
  <2>6. QED
    BY <1>1, <1>2, <2>5 DEF ISA!Step
<1>7. CASE CommitStore
  <2>1. /\ is_store(Entry.info.op) /\ UNCHANGED <<rf, halted>> /\ LSB!commit_store
    BY <1>7 DEF CommitStore
  <2>2. /\ lsbEntries[lsbHead].addr = ISA!Outcome
        /\ lsbEntries[lsbHead].vk = ISA!Operand(ISA!Current.rs2)
    BY <1>7, HeadStored
  <2>3. mem' = IF ISA!InMemory
                 THEN [mem EXCEPT ![ISA!Outcome \div 4] = ISA!Operand(ISA!Current.rs2)]
                 ELSE mem
    BY <2>1, <2>2 DEF LSB!commit_store, LSB!WordIndex, ISA!InMemory
  <2>4. ISA!Store
    BY <1>1, <1>3, <1>7, <2>1, <2>3 DEF ISA!Store, Straight
  <2>5. QED
    BY <1>1, <1>2, <2>4 DEF ISA!Step
<1>8. CASE CommitResult
  <2>1. /\ Entry.info.op \notin {"HALT"} \cup Branches \cup Jumps \cup Stores
        /\ UNCHANGED <<mem, halted>> /\ RF!write(Entry.info.rd, Entry.result)
    BY <1>8 DEF CommitResult
  <2>2. CASE is_load(Entry.info.op)
    <3>1. Entry.result = IF ISA!InMemory THEN mem[ISA!Outcome \div 4] ELSE 0
      BY <2>2, HeadLoaded
    <3>2. ISA!WriteReg(ISA!Current.rd, IF ISA!InMemory THEN mem[ISA!Outcome \div 4] ELSE 0)
      BY <1>1, <2>1, <3>1 DEF ISA!WriteReg, RF!write
    <3>3. ISA!Load
      BY <1>1, <1>3, <1>8, <2>1, <2>2, <3>2 DEF ISA!Load, Straight
    <3>4. QED
      BY <1>1, <1>2, <3>3 DEF ISA!Step
  <2>3. CASE ~is_load(Entry.info.op)
    <3>1. ~ToLsb(Entry.info.op)
      BY <2>1, <2>3 DEF ToLsb, is_store
    <3>2. Entry.result = ISA!Outcome
      BY <3>1, HeadComputed
    <3>3. ISA!WriteReg(ISA!Current.rd, ISA!Outcome)
      BY <1>1, <2>1, <3>2 DEF ISA!WriteReg, RF!write
    <3>4. ISA!Compute
      BY <1>1, <1>3, <1>8, <2>1, <2>3, <3>3
         DEF ISA!Compute, Straight, is_branch, is_jump, is_store
    <3>5. QED
      BY <1>1, <1>2, <3>4 DEF ISA!Step
  <2>4. QED
    BY <2>2, <2>3
<1>9. QED
  BY <1>4, <1>5, <1>6, <1>7, <1>8 DEF AnyCommit

LEMMA LoadIsa ==
  ASSUME PipelineInv, PcInv, TInv', PcInv', LoadProgram
  PROVE  ISA!LoadProgram
<1>0. TInv
  BY DEF PipelineInv
<1>1. /\ phase = "parse" /\ UNCHANGED <<robVars, rf, mem, halted>> /\ prog # << >>
      /\ program' = prog /\ iqBuffer' = << >> /\ iqPc' = 0
  BY DEF LoadProgram, Returned, pipeVars, archVars, IQ!load_program
<1>2. program = << >> /\ robCount = 0 /\ iqBuffer = << >> /\ iqPc = 0
  BY <1>1 DEF PcInv, StartInv
<1>3. prog \in Seq(Decoded)
  <2>1. Good \subseteq Decoded
    BY DEF Good
  <2>2. prog \in Seq(Good)
    BY <1>0, <1>1 DEF TInv, ProgT, AsmOK
  <2>3. QED
    BY <2>1, <2>2, SeqMonotonic
<1>4. ArchPc = 0 /\ ArchPc' = 0
  BY <1>1, <1>2 DEF ArchPc, ROB!empty, IQ!can_dispatch, robVars
<1>5. QED
  BY <1>1, <1>2, <1>3, <1>4 DEF ISA!LoadProgram

(* Nothing else is seen from outside. *)
LEMMA OtherIsa ==
  ASSUME PipelineInv, PcInv, TInv', PcInv', AnyDispatch \/ Fetch \/ Idle
  PROVE  UNCHANGED ISA!vars
<1>0. RobOK /\ TInv
  BY DEF PipelineInv
<1>1. UNCHANGED <<program, rf, mem, halted>>
  <2>1. CASE AnyDispatch
    BY <2>1, DispatchIs DEF try_dispatch, archVars
  <2>2. CASE Fetch
    BY <2>2 DEF Fetch, archVars
  <2>3. CASE Idle
    BY <2>3, IdleSteps
  <2>4. QED
    BY <2>1, <2>2, <2>3
<1>2. ArchPc' = ArchPc
  <2>1. CASE AnyDispatch
    <3> PICK h \in Tag, g \in Tag : h = robTail /\ g = robHead
      BY <1>0 DEF RobOK, RobShape
    <3>1. /\ robEntries'[h].info = [op |-> IQ!peek.op, rd |-> IQ!peek.rd, pc |-> IQ!peek.pc]
          /\ \A t \in Tag \ {h} : robEntries'[t] = robEntries[t]
          /\ ROB!Age(h) = robCount
      BY <1>0, <2>1, DispatchEffect
    <3>2. /\ robHead' = robHead /\ robCount' = robCount + 1 /\ robCount \in Nat
          /\ IQ!can_dispatch
      <4>1. robCount \in Nat
        BY <1>0, Sizes DEF RobOK, RobShape
      <4>2. robHead' = robHead /\ robCount' = robCount + 1
        BY <2>1, DispatchIs DEF ROB!allocate
      <4>3. IQ!can_dispatch
        BY <2>1 DEF AnyDispatch, Dispatch, DispatchBranch
      <4>4. QED
        BY <4>1, <4>2, <4>3
    <3>3. IQ!peek.pc = FetchPc
      BY <1>0, <3>2, PeekIs
    <3>4. ROB!Age(g) = 0
      BY Sizes DEF ROB!Age, Tag, ROB!Slot
    <3>5. ArchPc' = robEntries'[g].info.pc
      BY <3>2, ArchPcNext
    <3>6. CASE robCount = 0
      <4>1. h = g
        BY <1>0, <3>1, <3>4, <3>6, AgeInjective DEF RobOK
      <4>2. QED
        BY <1>0, <3>1, <3>3, <3>5, <3>6, <4>1, ArchPcNow
    <3>7. CASE robCount # 0
      <4>1. h # g
        BY <3>1, <3>4, <3>7
      <4>2. QED
        BY <1>0, <3>1, <3>5, <3>7, <4>1, ArchPcNow DEF Entry
    <3>8. QED
      BY <3>6, <3>7
  <2>2. CASE Fetch
    <3>1. FetchPc' = FetchPc /\ UNCHANGED robVars
      BY <1>0, <2>2, FetchPcKept DEF Fetch
    <3>2. QED
      BY <1>0, <3>1, ArchPcNow, ArchPcNext DEF robVars, Entry
  <2>3. CASE Idle
    <3>1. robHead \in Tag
      BY <1>0 DEF RobOK, RobShape
    <3>2. /\ robEntries'[robHead].info = robEntries[robHead].info
          /\ robHead' = robHead /\ robCount' = robCount
      BY <1>0, <2>3, <3>1, IdleEntries
    <3>3. FetchPc' = FetchPc
      BY <2>3, IdleSteps DEF iqVars, FetchPc
    <3>4. QED
      BY <1>0, <3>2, <3>3, ArchPcNow, ArchPcNext DEF Entry
  <2>4. QED
    BY <2>1, <2>2, <2>3
<1>3. QED
  BY <1>1, <1>2 DEF ISA!vars

LEMMA IsaInit == Init => ISA!Init
<1> SUFFICES ASSUME Init PROVE ISA!Init
  OBVIOUS
<1>1. ArchPc = 0
  BY DEF Init, ArchPc, ROB!Init, ROB!empty, IQ!Init, IQ!can_dispatch
<1>2. QED
  BY <1>1 DEF Init, ISA!Init, RF!Init

LEMMA IsaStep ==
  PipelineInv /\ PcInv /\ ValueInv /\ FetchInv /\ TInv' /\ PcInv' /\ [Next]_vars =>
    [ISA!LoadProgram \/ ISA!Step]_ISA!vars
<1> SUFFICES ASSUME PipelineInv, PcInv, ValueInv, FetchInv, TInv', PcInv', [Next]_vars
             PROVE  ISA!LoadProgram \/ ISA!Step \/ UNCHANGED ISA!vars
  OBVIOUS
<1>1. AnyCommit \/ AnyDispatch \/ LoadProgram \/ Fetch \/ Idle
  BY StepKinds DEF AnyParse, AnyOther, Idle
<1>2. QED
  BY <1>1, CommitIsa, LoadIsa, OtherIsa

-----------------------------------------------------------------------------
(* The theorems.                                                           *)

(* In every reachable state the operands held in a station or in the LSB,  *)
(* the results the stations have computed and the values on the bus are    *)
(* those that sequential execution of the program gives: renaming, the bus *)
(* and execution out of order deliver the youngest older writer's value    *)
(* and no other (resolve_operand, the snoop loops, tick, broadcast), for   *)
(* every program, every size of the buffers and every latency.             *)
THEOREM ValuesKept == Spec => []ValueInv
<1>1. PipelineInv /\ PcInv /\ ValueInv /\ [Next]_vars => (PipelineInv /\ PcInv /\ ValueInv)'
  BY PipelineStep, PcStep, ValueStep
<1>2. Init => PipelineInv /\ PcInv /\ ValueInv
  BY PipelineInit, PcInit, ValueInit
<1>3. QED
  BY <1>1, <1>2, PTL DEF Spec

(* A finished load holds what the youngest older store to its word wrote,  *)
(* or what the memory held when there is none, provided the program's      *)
(* accesses agree (LoadStoreBuffer::tick: disambiguation and forwarding;   *)
(* commit_store).                                                          *)
THEOREM LoadsKept == Spec /\ []AccessesAgree => []LoadsSeeOlderStores
<1>1. PipelineInv /\ MemInv => LoadsSeeOlderStores
  BY MemMeans DEF PipelineInv, TInv, LsbT
<1>2. QED
  BY <1>1, PipelineInit, PipelineStep, MemInit, MemStep, PTL DEF Spec

(* The simulator implements the sequential machine: as seen in the         *)
(* register file, the memory, the address of the oldest instruction not    *)
(* yet retired and the halt flag, every cycle of the out-of-order pipeline *)
(* executes one instruction of the program in order, or none (sim.cpp,     *)
(* phases 1 to 7, against execute_op, CommitUnit::commit and               *)
(* commit_store), provided the program's accesses agree.                   *)
THEOREM SimImplementsIsa == Spec /\ []AccessesAgree => ImplementsIsa
<1>1. PipelineInv => TInv
  BY DEF PipelineInv
<1>2. Init => PipelineInv /\ PcInv /\ ValueInv /\ MemInv /\ FetchInv /\ ISA!Init
  BY PipelineInit, PcInit, ValueInit, MemInit, FetchInit, IsaInit
<1>3. /\ PipelineInv /\ PcInv /\ ValueInv /\ MemInv /\ FetchInv
      /\ AccessesAgree /\ AccessesAgree' /\ [Next]_vars
      => /\ (PipelineInv /\ PcInv /\ ValueInv /\ MemInv /\ FetchInv)'
         /\ [ISA!LoadProgram \/ ISA!Step]_ISA!vars
  <2> SUFFICES ASSUME PipelineInv, PcInv, ValueInv, MemInv, FetchInv,
                      AccessesAgree, AccessesAgree', [Next]_vars
               PROVE  /\ (PipelineInv /\ PcInv /\ ValueInv /\ MemInv /\ FetchInv)'
                      /\ [ISA!LoadProgram \/ ISA!Step]_ISA!vars
    OBVIOUS
  <2>1. PipelineInv' /\ PcInv' /\ ValueInv' /\ MemInv' /\ FetchInv'
    BY PipelineStep, PcStep, ValueStep, MemStep, FetchStep
  <2>2. TInv'
    BY <2>1 DEF PipelineInv
  <2>3. QED
    BY <2>1, <2>2, IsaStep
<1>4. QED
  BY <1>2, <1>3, PTL DEF Spec, ImplementsIsa, ISA!Spec

(* Accesses that keep to the alignment and to the memory: the byte address *)
(* is a multiple of the word size and names a word of the memory array.    *)
AlignedInside ==
  \A k \in LSB!Position :
    LSB!At(k).state # "WAITING" =>
      /\ LSB!At(k).addr % 4 = 0
      /\ LSB!WordIndex(LSB!At(k).addr) < MemWords

LEMMA AlignedAgree ==
  ASSUME LsbShape, AlignedInside
  PROVE  AccessesAgree
<1> SUFFICES ASSUME NEW k \in LSB!Position, NEW j \in SameWord(k),
                    LSB!At(k).state # "WAITING", LSB!At(j).state # "WAITING"
             PROVE  /\ LSB!At(j).addr = LSB!At(k).addr
                    /\ LSB!WordIndex(LSB!At(k).addr) < MemWords
  BY DEF AccessesAgree
<1>1. j \in LSB!Position /\ LSB!WordIndex(LSB!At(j).addr) = LSB!WordIndex(LSB!At(k).addr)
  BY DEF SameWord
<1>2. LSB!At(j).addr \in Nat /\ LSB!At(k).addr \in Nat
  BY <1>1, AtTyped DEF LsbEntry, Word
<1>3. \A a, b \in Nat : a % 4 = 0 /\ b % 4 = 0 /\ a \div 4 = b \div 4 => a = b
  OBVIOUS
<1>4. QED
  BY <1>1, <1>2, <1>3 DEF AlignedInside, LSB!WordIndex

(* A program whose loads and stores are aligned and inside the memory runs *)
(* on the out-of-order pipeline as it does one instruction at a time, and  *)
(* its loads see the older stores (LoadStoreBuffer::tick, commit_store).   *)
THEOREM AlignedImplementsIsa ==
  Spec /\ []AlignedInside => ImplementsIsa /\ []LoadsSeeOlderStores
<1>1. PipelineInv /\ AlignedInside => AccessesAgree
  BY AlignedAgree DEF PipelineInv, TInv, LsbT
<1>2. QED
  BY <1>1, PipelineInit, PipelineStep, SimImplementsIsa, LoadsKept, PTL DEF Spec
=============================================================================
