# Verification of the Tomasulo project

The repository holds one machine twice: an RV32IF-subset out-of-order core with
Tomasulo renaming, once as a cycle-level simulator in C++ (`sim/sim_soft`) and
once as SystemVerilog RTL (`hardware/`).  This directory holds TLA+ models of
it, the TLC runs that check them and TLAPS proofs.

    tlc -workers 2 -config rtl_pipeline.cfg MCRtl       # a model-checking run
    tlapm RtlRobProofs.tla                              # proofs

The paths below are relative to the repository's root; `sim_soft/` is
`sim/sim_soft/`, and RTL files are named without `hardware/`.

## 1. Inventory

### Software simulator (`sim_soft/`)

One thread runs a loop; an iteration is a clock cycle of seven phases: execute,
tell the ROB about stores, broadcast, snoop, commit, fetch and dispatch, clear
the bus.

| Component | State | Operations | Talks to |
|---|---|---|---|
| `main` (`sim.cpp`) | `halted`, `branch_in_flight`, `cycle`, memory | `parse_program`, the seven phases, `try_dispatch`, the final report | calls everything |
| `InstructionQueue` | program, fetch buffer, pc | `load_program`, `tick`, `dispatch`, `seek` | read by `try_dispatch`, redirected at commit |
| `ReorderBuffer` | circular buffer; the slot number is the rename tag | `allocate`, `write_result`, `commit`, `flush` | allocated at dispatch, written at broadcast, retired at commit |
| `RegisterRemappingTable` | register -> tag | `map`, `commit`, `flush` | read by `resolve_operand` |
| `RegisterFile` | 32 int + 32 float registers | `write_int`, `write_fp` | written at commit only |
| `ReservationStation` x 6 | slots with operands or the tags they wait for | `issue`, `snoop`, `tick`, `pop_result`, `flush` | issue from dispatch, result to bus and ROB |
| `LoadStoreBuffer` | circular buffer of memory operations in program order | `issue`, `snoop`, `tick`, `pop_load_result`, `commit_store`, `update_rob`, `flush` | reads memory in `tick`, writes it at commit |
| `CommonDataBus` | this cycle's results | `broadcast`, `flush` | snooped by stations and LSB |
| `CommitUnit` | the last commit record | `tick`, `log_cycle` | ROB head to register file, RAT, LSB, memory, next pc |
| `BufferStation` | a delay line of stages, pipelined or not | `accept`, `tick`, `pop_output` | pop, accept, tick is the sequence its header prescribes; `sim.cpp` builds none |
| `parse_program` | label table, two word counts | two passes over the source: labels, then decoding | once, before the loop; its result goes to `load_program` |

What is hard: everything is ordered by the phases, and a result is visible on
the bus for one cycle only; tags are reused as soon as a slot retires; results
come in another order than the program's; loads may pass stores; a jump's ROB
result is not the value of its register; buffers are at their limits all the
time; a branch offset is right only if two passes over the text count the same
lines.  The `flush` methods are there for a misprediction that never happens:
the simulator stalls fetch behind every branch.

### RTL (`hardware/`)

One clock; at an edge every register is written from the old values of all.

| Component | State | What an edge does | Talks to |
|---|---|---|---|
| `cpu.sv` fetch, `fetch/instr_mem.sv` | `fetch_pc`, `fetch_pc_d`, `fetch_valid`, the registered read port | next address, or the same again while the queue is full; redirected by a flush | pushes the queue |
| decode (`core/tomasulo_core.sv`), `fetch/instr_queue.sv` | circular queue | push, pop, flush | `dispatch.sv` |
| `core/dispatch.sv` | - | one instruction to its station, with operands from register file, ROB or bus | allocates the ROB, maps the RAT |
| `core/rat.sv`, `core/regfile.sv` | mapping and values by register | map, clear at commit, flush; write with same-cycle bypass | read by dispatch |
| `core/rob.sv`, `core/commit_unit.sv` | circular buffer; `rob_head_reg` is a second copy of head | bus port, branch port, allocation and commit, in this order; flush | retires to register file, RAT, LSB; raises flush |
| `execute/reservation_station.sv` x 6 | busy bits, entries | snoop, dispatch, issue of the lowest ready slot | units |
| `alu_unit.sv`, `branch_unit.sv` and their latches | an output register and a latch that waits for the bus | the output register is not flushed, the latch is | bus; the branch outcome goes to the ROB directly |
| `fp_ops/*` | pipelines of 2, 4 and 2 stages; a divider of 8 cycles | advance unless the last stage waits for the bus | bus |
| `execute/lsb/*` | circular buffer, one pending load, memory with a registered read port | head-only loads, stores at commit, notification of ready stores | bus, memory |
| `core/cdb.sv`, `arbiter.sv` | the last winner | round-robin among seven units, one result a cycle | snooped by everyone |
| `cpu.sv` loader | `loading`, request and data index | copies 1024 words from the program library, one cycle late | both memories, the core's reset |

What is hard: a result, a retirement and a dispatch of the same register or the
same slot meet at one edge; a flush meets results on their way to the bus, and
tags start again from 0 after it; branches finish through a port of their own
and once more over the bus; the queue fills while a word is on its way from the
synchronous memory; seven units starve each other at the bus; the loader may be
reset in the middle of a load.

### What makes a component correct

* reorder buffer: it is a bounded queue; no slot is overwritten while live;
* renaming: the table names the youngest unretired writer;
* wake-up: nobody waits for a result that has gone by;
* memory: a load sees the youngest older store to its word; stores reach memory
  in program order and only at commit;
* control: nothing behind an unresolved (software) or mispredicted (RTL) branch
  has an effect; fetch loses and repeats nothing;
* bus: one result per instruction, under its own tag, and none waits for ever;
* assembler: a branch offset leads to the instruction behind the label;
* the whole: seen through registers, memory and the oldest unretired pc, the
  machine executes the program sequentially, and gets to its end.

## 2. Modules

| Module | Models | State and actions |
|---|---|---|
| `Instruction` | `include/instruction.h`, `instruction.cpp`, `include/config.h` | opcodes, latency and pipelining tables, names, the shipped latencies and sizes; constants only |
| `Assembler` | `parse_program` and its helpers | `raw, pass, line, wpc, labels, prog`; one step per source line and pass |
| `RegisterFile`, `RegisterRemappingTable` | `regfile.cpp`, `register_remapping_table.cpp` | `rf`; `rat`; one action per method |
| `Words` | machine words | wrapping, signedness, bitwise operations; the width is a parameter |
| `ExecuteOp` | `execute_op` | pure; the LUI shift is a parameter |
| `ReorderBuffer` | `reorder_buffer.cpp` | `entries, head, tail, count`; one action per method |
| `RetireQueue` | (abstract) | a bounded queue: enter, complete, retire, discard |
| `BufferStation`, `FunctionalUnit` | `buffer_station.cpp`, its caller sequence | `stages`; pop, accept and tick in turn, beside a `ReorderBuffer` that others use too |
| `CommonDataBus` | `common_data_bus.cpp` | `cdb` |
| `ReservationStation` | `reservation_station.cpp` | `rs[station][slot]` |
| `LoadStoreBuffer` | `load_store_buffer.cpp` | `entries, head, tail, count`, shared `mem` |
| `InstructionQueue` | `instruction_queue.cpp` | `buffer, pc` |
| `SoftSim` | `main`, `try_dispatch`, `commit_unit.cpp`, `resolve_operand` | composes the above, from the source text to the report; `phase` is the place in `main` |
| `Isa` | (abstract) | loads a program, then one instruction per step |
| `SoftSimProps` | | the properties of `SoftSim`, and the refinement to `Isa` |
| `FunctionalUnitProofs`, `AssemblerProofs` | | theorems about the components: reorder buffer and functional unit; assembler |
| `SoftSimProofs` | | theorems: the invariants of `SoftSim` |
| `SoftSimRefinement` | | theorems: `SoftSim` implements `Isa` |
| `RtlPkg` | `pkg/rv32if_pkg.sv` | types, opcode classes, the snoop of an entry |
| `RtlDatapath` | combinational part of `alu_unit`, `branch_unit`, `load_store_buffer`, `data_mem` | pure; four byte lanes of `LaneBits` bits |
| `RtlFetch` | fetch in `cpu.sv`, `instr_mem`, `decode`, `instr_queue` | `imem, fetch, instr_raw, iq` |
| `RtlRename` | `rat`, `regfile` | `rat, regs` |
| `RtlRob` | `rob` | `entries, head, tail, count`; the ports are parameters |
| `RtlCdb` | `cdb`, `arbiter` | `last_grant` |
| `RtlStation` | `reservation_station` | `busy, slots`, by station |
| `RtlUnits` | units and latches | `alu, alu_cdb, br, br_d, br_cdb, pipe, div` |
| `RtlLsb` | `load_store_buffer`, `data_mem` | `lsb, load, dmem, mem_rd_data` |
| `RtlCore` | `tomasulo_core`, `dispatch`, `commit_unit`, halt latch | composes the above; the one action `Clock` is a clock edge |
| `RtlIsa` | (abstract) | one instruction per step; effects as `rv32if_pkg.sv` states them |
| `RtlProps` | | the properties of `RtlCore`, and the refinement to `RtlIsa` |
| `RtlCoreProofs` | | theorems: the invariants of `RtlCore` |
| `RtlRobSpec`, `RtlRobProofs` | `rob` alone | any values on its ports; theorems |
| `RtlArbiter`, `RtlArbiterProofs` | `cdb`, `arbiter` alone | requests of any kind; the bit-parallel circuit; theorems |
| `FpDivide` | `fp_div` with its datapath | the mantissa division, cycle by cycle |
| `RtlDivideBus` | `fp_div` on `cdb` | `FpDivide` as unit 4 of `RtlArbiter`, at one clock |
| `RtlLoader`, `RtlLoaderProofs` | loader of `cpu.sv` | `Reset`, `Load`, `Run` edges; the ROM `quartus/main_rom1.v`; theorems |
| `MC*` | | instances for TLC |

In the RTL modules a wire is an operator over the unprimed variables, a register
a variable, and each `...Clock` operator is the `always_ff` blocks of its file.
A register is one model value standing for the index and the `_fp` flag, `NoReg`
and `NoTag` are the -1 of the code.  A word is the natural number of its bits.
`count_` of a station is the number of its busy slots.  A loop whose iterations
can be told apart (one result, one dispatched instruction) is one step per
iteration; a loop over entries that do not influence each other is one step.
`assert` is a guard: a call that fails it ends the program, in the model it is
a deadlock, and TLC checks for deadlock in every run.  Where `resolve_operand`
leaves a value unset the model has 0, the value every released slot is reset to.
The float registers hold bit patterns: the conversions through `float` at commit
and at operand lookup keep them, NaN patterns included, on the SSE targets the
makefile builds for.

A source text is a sequence of lines and a line a sequence of lexemes: words,
registers, numbers, memory operands, label definitions, commas and the comment
sign.  `tokenize` cuts and filters them as the
code does.  `preg` skips the first letter of a register, so it is the operand's
place that makes it an integer or a float register, as in the code.  A label of
digits is read as a number (`stoi` is tried first), an unknown label gives offset
0, an unknown mnemonic is a NOP in its place, of two definitions of a label the
last counts.  When `parse_program` has returned its locals are reset in the
model, so that states differ only in what the program still holds.  Words whose
decimal form does not fit an `int`, and lines with operands missing, are not
among the texts (the code throws or reads past the tokens).

The log kept by `SoftSim` (`cuLog`) has the commit lines of `cu.log` in order: name,
pc and, if the instruction has a destination, register and value.  A branch's line
has no target.  The lines that say a cycle was idle carry no information and are
left out.  A cycle writes its line before it commits, so the commit of the last
cycle is not in the log, in the model as in the code.

Definitions named `X_Something` with the comment "Mutant" are deliberately wrong
variants of `X`; no specification uses them.  They document for each property a
bug it finds (`mutants` in `PROJECT.json`).

## 3. Runs

| Run | Bounds | Shows |
|---|---|---|
| `rob` | 4 slots, 2 infos, 2 values; a functional unit of depth 1 to 3, pipelined or not | every order of calls, wraps, full and empty; an operation the unit has accepted is in one stage until popped, its ROB entry waiting |
| `soft_pipeline` | texts: all 2 x 6^4 sequences of register or memory operations behind a late address and a late float, all 7^4 of control operations, all 8^4 of labels, branches to them and other lines, odd texts, 73 more programs; ROB 4, LSB 3, stations of 1 or 2, two per cycle; latencies down to 0 and 1 | from text to report the simulator is the sequential machine on the assembled program; the invariants that make it so; the log follows the program |
| `rtl_pipeline` | all 6^4 + 8^4 + 7^4 sequences of register, memory and control operations, all 7^3 of work behind a HALT that waits; ROB 4, queue 2, LSB 2, stations of 1 or 2 | the same for the RTL, with every buffer full |
| `rtl_shipped` | shipped sizes; 343 programs of 24 instructions, every opcode, a loop; fairness | every program gets to its HALT |
| `rtl_rob` | 4 slots, every port value that `BranchContract` allows | the buffer against any neighbour that reports branches only while they are in flight |
| `rtl_arbiter` | 7 units, every request pattern; one of them the divider, 9-bit mantissas in 3 cycles, two operands, flushed at any edge; fairness | circuit and fairness of the bus; the restoring division, and that its result keeps until it is served |
| `rtl_loader` | 4 words, 2 programs, 4 switch positions, reset at any edge | the loaded image |

Simulator and RTL are deterministic once the program is chosen; what TLC varies
is the program.  Four instructions are enough for two writers of a register with
a reader between and one behind them, and together with the instructions in
front of and behind them more than there are slots, so that slots wrap and are
reused.  Words have 8 bits (lanes of 2) so that arithmetic wraps and every lane
occurs.  `MaxCycles` (70) cuts off the programs that loop; the others take at
most 64 cycles, which `Completes` confirms.

Fairness is `WF_vars(Clock)` in `rtl_shipped` and `WF_arbVars(Next)`, for the edges
of the arbiter, in `rtl_arbiter`: the clock keeps ticking, and nothing else is assumed.  The
software loop needs none: its own bound ends it, and `Completes` says that the
bound is not what ended a program without backward branches.

Three limits of `ImplementsIsa` for the RTL.  HALT raises `halted` and execution
goes on in both machines, because that is what the code does (see below); the
programs with work behind a HALT check that it does so without losing any.  Jumps
in the programs write `x0` only: `doc_link` shows that the link is lost.  And a
broadcast of a branch that has retired may hit the next owner of its slot
(`doc_bus_tag`); it takes a full ROB of 16 behind a chain of divides, and in the
programs of the two passing runs it does not happen, so `ImplementsIsa` is a
statement about these programs, not about all.  For the invariants the proofs say
which programs (section 4, the RTL core).

### Where documents and code disagree

Five runs expect a violation; each checks what a document or comment says.

| Run | Document | Code |
|---|---|---|
| `doc_link` | a jump writes PC+4 (`rv32if_pkg.sv`) | the branch port finishes the entry before the bus brings PC+4; the bus write is dropped, the register gets 0 |
| `doc_bus_tag` | a bus tag names the completing instruction | the late broadcast of a branch that was not taken completes another instruction, with the branch target as its value |
| `doc_fp_divide` | `fd = fs1 / fs2` | the mantissas are divided as integers, so the quotient is 0 or 1 |
| `doc_alias` | a load waits for, or forwards from, an aliasing store (`docs/ISA.md`) | the simulator compares byte addresses and accesses words: a misaligned alias is missed |
| `doc_predict` | branches are predicted not taken: fetch goes on at PC+4, a taken branch flushes (`docs/ISA.md`, `docs/software-sim.md`) | the simulator fetches nothing from the dispatch of a branch to its commit (`StallsBehindBranch`); there is nothing to flush.  The RTL does what the document says |

`doc_alias` and `doc_predict` run with the shipped sizes and latencies of `config.h`
(`Shipped...` in `Instruction`).

Met while modelling, and not the subject of a run:

* RTL: nothing stops at HALT ("Stop simulation / pipeline drain"); function bits
  that opcodes 0x33 and 0x03 do not define give a NOP that writes `rd` ("no
  writeback"); `ROB_SIZE` below 16 lets the 4-bit pointers leave the array
  ("every module picks up the new value").
* Simulator: every unblocked load starts in a tick ("one memory access in flight
  at a time"), a load of latency 2 takes one cycle, all ready entries of a
  pipelined unit start at once ("throughput = 1 op/cycle"), a divide starts in
  the tick in which the previous one ends ("must wait 8 cycles"); `PIPE_MISC` is never used,
  and the LSB ignores `PIPE_INT_LS`; an instruction on the line of its label is dropped
  by both passes of the assembler; a label works wherever it is defined
  ("defined earlier", `sim.cpp`); `cu.log` is said to show what was written to the
  register file (`docs/software-sim.md`, `commit_unit.h`), but for JAL and JALR it has
  the target, so `LogFollowsProgram` makes no statement about values; and the commit
  of the last cycle, HALT among them, is not in it.

## 4. Proofs

`FunctionalUnitProofs` proves of `ReorderBuffer`, for every size and every set of instructions and
values (`SizeAssumption`: the size is a positive natural, which the constructor
asserts):

* `TypeCorrect`, `PositionsAlwaysAgree`, `WindowAlwaysLive`: the invariants of
  the run `rob`.  None is inductive alone.  `allocate` keeps the window only
  because the tail slot is idle, which needs tail to be count slots past head;
  that needs the ranges.  The inductive invariant is their conjunction `IInv`,
  with one lemma per operation.
* `BufferIsQueue`: the buffer implements `RetireQueue`, the queue being the
  live slots from head on.  The argument is about places: the k-th oldest entry
  lies k - 1 slots past head, going round (`PlaceWraps`), two positions are two
  slots (`PlaceInjective`), so `allocate` changes only the last, `write_result`
  only its own and `commit` shifts all by one.

It then composes a `BufferStation` of any depth, pipelined or not,
with such a reorder buffer, of any size, that other callers use as well:

* `UnitCorrect`: `UnitHoldsWhatItAccepted`.  The inductive invariant `UInv` adds to
  that of the reorder buffer the types of the stages and that in the part of the
  sequence where it matters the ends of the line are free: `accept` asserts an
  empty first stage, `tick` shifts everything and would lose an unpopped last one.
* `UnitIsACaller`: every step of the composition is a step of the reorder
  buffer's specification, so its theorems hold in it.

`AssemblerProofs` proves `TwoPassesAgree` for every source text: the address
the first pass gives a label is that of the instruction the second pass puts
behind its last definition.  The invariant `AInv` ties the word count of each
pass to the number of instruction lines in the part of the text it has read,
and the label table to those numbers; the passes agree because they skip the
same lines.  What a line decodes to plays no part.  The assumption is that a text is
a sequence of lines of lexemes.

`RtlRobProofs` proves `TypeCorrect`, `PositionsCorrect`, `WindowCorrect` and
`ResultsFinal` (`DoneIsFinal`) of the RTL's reorder buffer for
every set of instructions and values and every size, under two assumptions:

* `ROB_SIZE = TagSpan`, as shipped (16 = 2^4); without it the pointers leave the
  array;
* `BranchContract`, part of `RtlRobSpec`: a branch outcome comes while its branch
  is in flight, or for a slot that is no branch.  `rob.sv` does not test this
  itself, so `WindowIsLive` and `DoneIsFinal` of the buffer alone say nothing about a
  late outcome; in the whole core the contract is `BranchResolvesInFlight`, which
  `rtl_pipeline` checks and `RtlCoreProofs` proves.

The inductive invariant is again the conjunction of types, positions and window:
an edge may allocate, retire, finish by bus and finish by branch port at once,
and the slots concerned differ only because the tail slot is idle (`TailIdle`).
`EdgeLiveness` says for one slot what an edge does to it; the rest is arithmetic
on the pointers.

`RtlArbiterProofs` proves for every number of units that the last winner is a
unit (`TypeCorrect`) and that a unit passed over moves up (`RoundRobin`).  The
lemmas: `Rank` is injective and below `NUM_FU`, so the first requester exists
(well-founded minimum), is unique, and every other one comes after it.

`RtlLoaderProofs` proves `WordsInPlace` (`DataMatchesIndex`) and `CoreStartsRight`
(`CoreStartsOnImage`) for every memory size above 3, every number of programs and
every library of integers (`LoaderAssumption`).  Neither is inductive: the word
on the library's output is right because the request of the edge before was one
ahead of the data, and 0 before the first word (`OneAhead`); the results' place is
known at the end because each metadata word that has gone by was captured
(`MetaSeen`).  A reset starts both over while a write completes.

### The whole simulator

`SoftSimProofs` and `SoftSimRefinement` are about `SoftSim`, all of it, from the
source text to the report.  The theorems hold for every set of well-formed
source texts and so every program, every size of the reorder buffer, the LSB, the
stations, the queue and the memory, every table of latencies and every choice of
pipelined units.  The components that `SoftSim` composes (`ReservationStation`,
`LoadStoreBuffer`, `RegisterRemappingTable`, `Isa`) take what they use of the
others as parameters.

The assumptions on the constants, each checked by TLC on every instance:

* `SizesAssumption`: sizes are positive; `ConfigAssumption`: latencies are
  naturals, 0 included; `RegAssumption`, `RegisterNames`: `x0` is an integer
  register, `-1` is none, and a register name means a register of its file;
* `SourcesAssumption`: the lines of a text have the operands their mnemonic needs
  (on others the code throws or reads past the tokens); `ProgramsAssumption`: the
  byte addresses of a program fit a word, so that `pc + 4` does not wrap inside it;
* `FpuAssumption`: a float operation gives a bit pattern.  Nothing else is
  assumed of the arithmetic;
* `WordArithmetic`: powers of two are positive and the bitwise operations give
  words.  These are facts of arithmetic; the definitions are by exponentiation and
  by folds, and the provers reason about neither.

The inductive invariant is built in layers; each of them needs those above it.

| Layer | Says | Why it is needed | Theorem |
|---|---|---|---|
| `RobOK` | the window of the ROB is consistent | a tag means one instruction; `Age` orders them | `RobWindowKept` |
| `StallInv` | a branch in flight is the youngest; no dispatch while it is there | a redirect at commit then has nothing to undo | `StallKept` |
| `TInv` | all types; countdowns in range; opcode and slot match | indices and arithmetic everywhere below | `TypesKept` |
| `InfoInv`, `RatInv` | the table names a live writer, and no younger one exists | the conditional clear at commit keeps it only because tags are unique among live entries | `RenameKept` |
| `PlaceInv` | an unfinished instruction has a place, only one, under its tag; the LSB ascends in age | one result per entry; `commit_store` takes the head on trust | `PlacesKept`, `LsbOrderKept` |
| `WakeInv` | whoever waits, waits for an older unfinished entry still to be broadcast, or on the bus now | the reuse of a slot: a retired tag may be on the bus until the end of the cycle, but its slot is then the last one to be allocated again (`BusInv`) | `WakeupsKept` |

`PipelineInv` is the conjunction.  `UnitsKept` (`OneAtATimeUnpipelined`) needs only
the first and third.

`SoftSimRefinement` then gives the pipeline's contents a meaning:

* `PcInv`: the ROB holds consecutive instructions of the program, the fetch buffer
  goes on where it ends, unless a branch is to decide;
* `ValueInv`: an operand is what its register is *worth* at that instruction (the
  result of the youngest older writer in flight, else the register file), or it
  waits for exactly that writer; a computed result is `execute_op` of such operands;
  the bus carries the results of its tags.  The step that makes it inductive is
  `Stable`: what is worth something to an instruction in flight stays so while
  others issue, finish and retire (the retiring writer hands its result to the
  register file);
* `MemInv`: a load that has started has all older stores' addresses and its value
  agrees with the youngest older store to its word, or with memory;
* `FetchInv`: a finished load has the value memory has, and no store is left
  before it.

| Theorem | Says |
|---|---|
| `ValuesKept` | `ValueInv` holds always, without further hypotheses |
| `LoadsKept` | `LoadsSeeOlderStores`, as long as `AccessesAgree` |
| `SimImplementsIsa` | `ImplementsIsa`, as long as `AccessesAgree`: every step of the pipeline is a step of the sequential machine or invisible |
| `AlignedImplementsIsa` | both, for programs whose accesses are aligned and inside the memory |

`AccessesAgree` says that a load and an older store in the LSB that touch the same
word name it by the same byte address, and that it lies inside the memory.  The
hypothesis cannot be dropped: the code compares byte addresses and accesses words
(`doc_alias` is a program that violates it, and its load returns the wrong value),
and it forwards from a store that it drops at commit because its address is
outside.  It is no restriction on aligned programs (`AlignedAgree`).  TLC confirms
it, and `AlignedInside`, `PcInv`, `ValueInv`, `MemInv` and `FetchInv`, in every state
of the instance of `soft_pipeline`, where `ImplementsIsa` is checked without it.

### The RTL core

`RtlCoreProofs` is about `RtlCore`, the composition of all blocks of the core at one
clock.  The theorems hold for every program and every size of reorder buffer,
instruction queue, load/store buffer, stations and memories, every depth of the
pipelines and every latency of the divider.  The assumptions on the constants, each
checked by TLC on every instance:

* `CoreAssumption`: seven units share the bus, and `ROB_SIZE = TagSpan` (as shipped;
  otherwise the pointers leave the array); `IqAssumption`, `LsbAssumption`: the two
  queues have a power of two as size, as their pointers wrap by their width;
  `StationAssumption`, `UnitAssumption`: stations and pipelines are not empty;
* `ImageAssumption`: a program is a sequence of instruction words (`RawWord`: the
  fields of a word, with the fact from `decode` that function bits select a store or
  branch only under major opcodes that do not write a register);
* `LaneAssumption`, `LaneArithmetic`: a word is four byte lanes, with the laws of
  exponents for them, and a bitwise operation on words is a word: facts of
  arithmetic that the provers do not find by themselves.  `FpuAssumption`: a
  floating-point result is a word.  Nothing else is assumed of the arithmetic.

One action, `Clock`, writes every register at once, so the proof is not one step per
action but one lemma per register about what an edge does to it (`SlotEdge`,
`StationEdge`, `PipeEdge`, `LsbEdge`, `QueueEdgeFacts`, ...), and on top of these one
layer of the invariant after another:

| Layer | Says | Why it is needed | Theorem |
|---|---|---|---|
| `TInv` | types of all registers | indices, ports, arithmetic below | (in `QueuesAndLatches`) |
| `LsbShape`, `IqLine`, `LsbKind`, `LatchInv` | the two circular buffers are queues; the instruction queue and the word on the memory's port are consecutive words of the program; a unit's output register and its latch are not both full | a push and a pop of a full or an empty queue at one edge; a word that fetch repeats while the queue is full; no result is overwritten | `QueuesAndLatches` |
| `RobOK` | the window of the ROB, and `rob_head_reg` is its head | a tag means one instruction | `WindowInTheMachine` |
| `HeldInFlight`, `OnePlace`, `SomePlace` | the places of the machine (station slots, stages, LSB slots, registers) hold exactly the instructions in flight, each once, under its tag | the bus finishes the instruction it means | `InstructionsHaveOneOwner` |
| `LateBranch`, `Drained`, `Kinds` | a branch result on its way to the bus belongs to a branch that has finished; what survives a flush in `alu`, `br` and the latches is gone before the next dispatch; the opcode under a tag is the one that waits | the output registers are not flushed and tags start again from 0: the arbiter empties the latches just as fast as fetch refills the queue | `OutcomesFindTheirBranch`, `RegistersHaveTheirTypes` |
| `Renamed` | the table names the youngest unretired writer | retirement and dispatch of two writers of a register at one edge | `RenamingNamesYoungestWriter` |
| `Unlinked`, `Awaited`, `NotifiedReady` | whoever waits, waits for an older instruction in flight that will broadcast | an operand read at the edge at which its producer is on the bus or retires | `NoWakeUpIsLost` |
| `LsbLive`, `LsbOrder`, `StoresQueued`, `LoadFirst` | the LSB ascends in age, holds every unretired store, and the pending load is older than every such store | a store leaves at commit, a load before it | `MemoryIsAccessedInOrder` |
| `RobLine` | the ROB holds consecutive instructions and the queue goes on where it ends | a flush, a dispatch and a fetch stall at one edge | `MachineHoldsAStraightLine` |

The argument for the places is one of motion.  `To(p)` is where an edge takes what is at
`p`, `Leaving(p)` says that it leaves for the bus or the branch port, `NewPlace` is where
a dispatch puts an instruction.  `MovesOn` and `ComesFrom` say that these three are all
that happens; that no two instructions meet and none is lost then follows without
another case split.

Two hypotheses appear in these theorems, and both are about flaws of the code that a
run demonstrates:

* `NoTagReuse`, in all but `QueuesAndLatches`: no slot is dispatched to while the late
  result of the branch it held before still waits for the bus.  `doc_bus_tag` is a
  run in which it happens and the next owner of the slot is finished with the value
  of the branch.  The proofs show that this is the only way for a tag to get a second
  owner.  TLC finds the hypothesis true in every state of `rtl_pipeline`, and
  `JumpsNeverReuseTags` proves it of every program without conditional branches: a
  jump flushes the machine, its own late result included, when it retires.
  `JumpProgramsAreSafe` draws the conclusion.  The invariant behind it (`JumpsOnly`)
  says that the result in the latch is that of a finished jump still in its slot.
* `NoLinks`, in `NoWakeUpIsLost`: no jump writes a register other than `x0`.
  `doc_link` shows why: a jump is finished before its broadcast, so a reader may
  still wait for a producer that is done.  It holds of all programs of `rtl_pipeline`.

### Only model-checked

* liveness (`rtl_shipped`, `rtl_arbiter`) and `Completes`, which counts cycles: out
  of the prover's reach, or a statement about the texts of the instance;
* `AssemblesTheText` (what a text decodes to, by recursion over lines): induction
  over data; `LogFollowsProgram`, of the history of a run;
* `ImplementsIsa` of the RTL: its invariants are proved, the values in the pipeline
  are checked on the programs of the runs only;
* what `execute_op`, `Decode` and the datapaths compute, the arbiter's circuit
  (`CircuitGrantsFirst`), the divider (`PartialQuotient`, `IntegerQuotient`):
  arithmetic on bits.

## 5. Plan

1. (done) Software simulator; its reorder buffer proved a queue.
2. (done) RTL: the core against its sequential machine, ROB, arbiter, divider
   and loader alone; ROB and arbiter proved.
3. (done) The simulator from the source text to the report: assembler, commit log;
   `BufferStation`; loader, assembler and functional unit proved.
4. (done) TLAPS: the invariants of `SoftSim`, and its refinement of `Isa`.
5. (done) TLAPS: the invariants of the composed RTL.
6. TLAPS: the values in the RTL's pipeline, and with them `ImplementsIsa` for programs
   that meet `NoTagReuse` and `NoLinks`.
7. `execute_op` against `RtlDatapath`: both implementations compute the same
   results; the review mode.

## 6. Not modelled

Malformed source lines, the `dump` methods other than the commit log's (a
snapshot of a component at the start of a cycle; they change nothing), the `flush`
methods of reservation station and load/store buffer (no caller), the arithmetic of
`fp_add`, `fp_mul`, `fp_cvt` and `fp_round`
(`Fpu` is an arbitrary function of operation and operands; their pipelines are
modelled), the reset synchroniser, the review mode, the cycle counter and the
displays of `cpu.sv`, `program_lib_rom.sv` (not instantiated), the compliance
bench and generated synthesis files.
