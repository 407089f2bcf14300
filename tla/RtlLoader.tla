------------------------------ MODULE RtlLoader ------------------------------
(***************************************************************************)
(* The program loader of the board top level (cpu.sv): after a reset it    *)
(* copies the selected program, word by word, from the program library     *)
(* into the instruction and the data memory, while the core is held in     *)
(* reset.  The library is a memory whose address is registered and whose   *)
(* output is not (main_rom1.v): it shows the word asked for in the cycle   *)
(* before.                                                                 *)
(***************************************************************************)
EXTENDS Integers

CONSTANTS
  MEM_SIZE,        \* words of a program image; 1024
  NUM_PROGRAMS,    \* 44
  SwSpan,          \* values of the program switches; 64
  Library          \* [program -> [word index -> the word]]

Index == 0 .. MEM_SIZE - 1

ASSUME LoaderAssumption ==
  /\ MEM_SIZE \in Nat /\ MEM_SIZE > 3
  /\ \E k \in 2 .. 20 : MEM_SIZE = 2^k
  /\ SwSpan \in Nat \ {0} /\ NUM_PROGRAMS \in 1 .. SwSpan
  /\ Library \in [0 .. NUM_PROGRAMS - 1 -> [Index -> Int]]

META_BEGIN_WORD == MEM_SIZE - 3
META_END_WORD   == MEM_SIZE - 2
META_COUNT_WORD == MEM_SIZE - 1
LAST_WORD       == MEM_SIZE - 1

VARIABLES
  active_program,
  loading,
  load_req_word,     \* the word being asked for
  load_data_word,    \* the word whose contents are there
  load_data_valid,
  lib_word_data,     \* the output of the library
  imem, dmem,
  sig                \* [begin, end, count]: where the results will be

vars == <<active_program, loading, load_req_word, load_data_word,
          load_data_valid, lib_word_data, imem, dmem, sig>>

Unknown == -1     \* the contents of a word nobody has loaded

-----------------------------------------------------------------------------
clamp_program_sel(sw) == IF sw < NUM_PROGRAMS THEN sw ELSE 0

(* The library registers its address at every edge. *)
RomClock == lib_word_data' = Library[active_program][load_req_word]

load_wr_en == loading /\ load_data_valid

(* A reset does not hold the write that is under way. *)
WriteMemories ==
  IF load_wr_en
    THEN /\ imem' = [imem EXCEPT ![load_data_word] = lib_word_data]
         /\ dmem' = [dmem EXCEPT ![load_data_word] = lib_word_data]
    ELSE UNCHANGED <<imem, dmem>>

(* An edge with the reset down; the switches may have any position. *)
Reset(sw) ==
  /\ active_program' = clamp_program_sel(sw)
  /\ loading' = TRUE
  /\ load_req_word' = 0 /\ load_data_word' = 0
  /\ load_data_valid' = FALSE
  /\ sig' = [begin |-> 0, end |-> 0, count |-> 0]
  /\ RomClock
  /\ WriteMemories

Start ==
  /\ ~load_data_valid
  /\ load_data_valid' = TRUE
  /\ load_data_word' = 0 /\ load_req_word' = 1
  /\ UNCHANGED loading

(* Mutant: the loader stops before the last word is written. *)
Finish_Early ==
  /\ load_data_valid /\ load_data_word = LAST_WORD - 1
  /\ loading' = FALSE
  /\ load_data_valid' = FALSE
  /\ load_req_word' = 0 /\ load_data_word' = 0

Finish ==
  /\ load_data_valid /\ load_data_word = LAST_WORD
  /\ loading' = FALSE
  /\ load_data_valid' = FALSE
  /\ load_req_word' = 0 /\ load_data_word' = 0

(* Mutant: every other word is asked for. *)
NextRequest_Skips == (load_req_word + 2) % MEM_SIZE

(* The request stays at the last word while the loader finishes. *)
NextRequest == IF load_req_word # LAST_WORD THEN load_req_word + 1
                                            ELSE load_req_word

Continue ==
  /\ load_data_valid /\ load_data_word # LAST_WORD
  /\ load_data_word' = load_req_word
  /\ load_req_word' = NextRequest
  /\ UNCHANGED <<loading, load_data_valid>>

(* The bits of the word that index a memory: the lowest ADDR_W.            *)
IndexBits(data) == data % MEM_SIZE

Captured(word, old) ==
  IF load_data_valid /\ load_data_word = word THEN IndexBits(lib_word_data)
                                              ELSE old

Load ==
  /\ loading
  /\ Start \/ Finish \/ Continue
  /\ sig' = [begin |-> Captured(META_BEGIN_WORD, sig.begin),
             end   |-> Captured(META_END_WORD, sig.end),
             count |-> Captured(META_COUNT_WORD, sig.count)]
  /\ RomClock
  /\ WriteMemories
  /\ UNCHANGED active_program

(* The core runs; it may store to a word of the data memory. *)
Run ==
  /\ ~loading
  /\ dmem' \in {dmem} \cup {[dmem EXCEPT ![w] = Unknown] : w \in Index}
  /\ RomClock
  /\ UNCHANGED <<active_program, loading, load_req_word, load_data_word,
                 load_data_valid, imem, sig>>

(* Power-up: the first edge under reset has been taken. *)
Init ==
  /\ active_program \in 0 .. NUM_PROGRAMS - 1
  /\ loading = TRUE
  /\ load_req_word = 0 /\ load_data_word = 0 /\ load_data_valid = FALSE
  /\ lib_word_data = Unknown
  /\ imem = [w \in Index |-> Unknown] /\ dmem = [w \in Index |-> Unknown]
  /\ sig = [begin |-> 0, end |-> 0, count |-> 0]

Next == (\E sw \in 0 .. SwSpan - 1 : Reset(sw)) \/ Load \/ Run

Spec == Init /\ [][Next]_vars

-----------------------------------------------------------------------------
Image == Library[active_program]

(* The word on the library's output is the one the memories are about to   *)
(* be written with: requests run one word ahead of the data, through the   *)
(* first cycle, the last one, and a reset in the middle of a load that     *)
(* changes the program (cpu.sv Loader FSM).                                *)
DataMatchesIndex ==
  load_wr_en => /\ lib_word_data = Image[load_data_word]
                /\ \A w \in 0 .. load_data_word - 1 :
                     imem[w] = Image[w] /\ dmem[w] = Image[w]

(* When the core is released, both memories hold the whole selected        *)
(* program and the place of its results is known (cpu.sv core_rst_n,       *)
(* sig_begin_word ...).                                                    *)
CoreStartsOnImage ==
  [][loading /\ ~loading' =>
       /\ imem' = Image /\ dmem' = Image
       /\ sig' = [begin |-> IndexBits(Image[META_BEGIN_WORD]),
                  end   |-> IndexBits(Image[META_END_WORD]),
                  count |-> IndexBits(Image[META_COUNT_WORD])]]_vars
=============================================================================
