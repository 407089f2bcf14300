--------------------------- MODULE RtlLoaderProofs ---------------------------
(***************************************************************************)
(* The loader of cpu.sv, for every size of the memories, every number of   *)
(* programs and every library: the core is released on the whole image of  *)
(* the selected program, resets in the middle of a load included.          *)
(***************************************************************************)
EXTENDS RtlLoader, TLAPS

(* The facts about the constants that the proofs use. *)
LEMMA Sizes ==
  /\ MEM_SIZE \in Nat /\ MEM_SIZE > 3
  /\ NUM_PROGRAMS \in Nat \ {0} /\ SwSpan \in Nat \ {0}
  /\ Library \in [0 .. NUM_PROGRAMS - 1 -> [Index -> Int]]
  /\ 0 \in Index
  BY LoaderAssumption DEF Index

Types ==
  /\ active_program \in 0 .. NUM_PROGRAMS - 1
  /\ loading \in BOOLEAN /\ load_data_valid \in BOOLEAN
  /\ load_req_word \in Index /\ load_data_word \in Index
  /\ imem \in [Index -> Int] /\ dmem \in [Index -> Int]

(* Before the first word, and when the core runs, the request is for 0;    *)
(* then it is one word ahead of the data, and stays on the last word.      *)
OneAhead ==
  /\ load_data_valid => loading
  /\ ~load_data_valid => load_req_word = 0
  /\ load_data_valid =>
       load_req_word = IF load_data_word = LAST_WORD THEN LAST_WORD
                                                     ELSE load_data_word + 1

(* The metadata words that have gone by have been captured. *)
MetaSeen ==
  load_data_valid =>
    /\ load_data_word > META_BEGIN_WORD =>
         sig.begin = IndexBits(Image[META_BEGIN_WORD])
    /\ load_data_word > META_END_WORD =>
         sig.end = IndexBits(Image[META_END_WORD])

LInv == Types /\ OneAhead /\ DataMatchesIndex /\ MetaSeen

-----------------------------------------------------------------------------
(* The image of the selected program is a function on the words. *)
LEMMA ImageType ==
  ASSUME Types
  PROVE  Image \in [Index -> Int]
  BY Sizes DEF Types, Image

LEMMA InitLInv == Init => LInv
<1> SUFFICES ASSUME Init PROVE LInv
  OBVIOUS
<1>1. Types
  <2>1. loading \in BOOLEAN /\ load_data_valid \in BOOLEAN
    BY Zenon DEF Init
  <2>2. imem \in [Index -> Int] /\ dmem \in [Index -> Int]
    BY DEF Init, Unknown
  <2>3. QED
    BY <2>1, <2>2, Sizes DEF Init, Types
<1>2. OneAhead /\ DataMatchesIndex /\ MetaSeen
  BY DEF Init, OneAhead, DataMatchesIndex, MetaSeen, load_wr_en
<1>3. QED
  BY <1>1, <1>2 DEF LInv

(* A write keeps the memories' types and adds the word on the output. *)
LEMMA WriteStep ==
  ASSUME LInv, WriteMemories
  PROVE  /\ imem' \in [Index -> Int] /\ dmem' \in [Index -> Int]
         /\ load_wr_en => \A w \in 0 .. load_data_word :
                            imem'[w] = Image[w] /\ dmem'[w] = Image[w]
<1>1. CASE load_wr_en
  <2>1. /\ imem' = [imem EXCEPT ![load_data_word] = lib_word_data]
        /\ dmem' = [dmem EXCEPT ![load_data_word] = lib_word_data]
    BY <1>1 DEF WriteMemories
  <2>2. /\ lib_word_data = Image[load_data_word]
        /\ \A w \in 0 .. load_data_word - 1 :
             imem[w] = Image[w] /\ dmem[w] = Image[w]
    BY <1>1 DEF LInv, DataMatchesIndex
  <2>3. lib_word_data \in Int
    BY <2>2, ImageType DEF LInv, Types
  <2>4. /\ imem \in [Index -> Int] /\ dmem \in [Index -> Int]
        /\ load_data_word \in Index
    BY DEF LInv, Types
  <2>5. imem' \in [Index -> Int] /\ dmem' \in [Index -> Int]
    BY <2>1, <2>3, <2>4
  <2>6. ASSUME NEW w \in 0 .. load_data_word
        PROVE  imem'[w] = Image[w] /\ dmem'[w] = Image[w]
    <3>1. w \in Index /\ (w = load_data_word \/ w \in 0 .. load_data_word - 1)
      BY <2>4, Sizes DEF Index
    <3>2. QED
      BY <2>1, <2>2, <2>4, <3>1
  <2>7. QED
    BY <2>5, <2>6
<1>2. CASE ~load_wr_en
  BY <1>2 DEF WriteMemories, LInv, Types
<1>3. QED
  BY <1>1, <1>2

LEMMA ResetStep ==
  ASSUME LInv, NEW sw \in 0 .. SwSpan - 1, Reset(sw)
  PROVE  LInv'
<1>1. clamp_program_sel(sw) \in 0 .. NUM_PROGRAMS - 1
  BY Sizes DEF clamp_program_sel
<1>2. Types'
  <2>1. loading' \in BOOLEAN /\ load_data_valid' \in BOOLEAN
    BY Zenon DEF Reset
  <2>2. QED
    BY <1>1, <2>1, WriteStep, Sizes DEF Reset, Types
<1>3. OneAhead' /\ DataMatchesIndex' /\ MetaSeen'
  BY DEF Reset, OneAhead, DataMatchesIndex, MetaSeen, load_wr_en
<1>4. QED
  BY <1>2, <1>3 DEF LInv

LEMMA RunStep ==
  ASSUME LInv, Run
  PROVE  LInv'
<1>1. dmem' \in [Index -> Int]
  BY DEF Run, LInv, Types, Unknown
<1>2. ~load_data_valid
  BY DEF Run, LInv, OneAhead
<1>3. QED
  BY <1>1, <1>2 DEF Run, LInv, Types, OneAhead, DataMatchesIndex, MetaSeen,
                    load_wr_en

LEMMA StartStep ==
  ASSUME LInv, Load, Start
  PROVE  LInv'
<1>1. Types'
  BY WriteStep, Sizes DEF Load, Start, LInv, Types, Index
<1>2. OneAhead'
  BY Sizes DEF Load, Start, OneAhead, LAST_WORD
<1>3. DataMatchesIndex'
  BY Sizes DEF Load, Start, RomClock, LInv, OneAhead, DataMatchesIndex, Image
<1>4. MetaSeen'
  BY Sizes DEF Load, Start, MetaSeen, META_BEGIN_WORD, META_END_WORD
<1>5. QED
  BY <1>1, <1>2, <1>3, <1>4 DEF LInv

LEMMA FinishStep ==
  ASSUME LInv, Load, Finish
  PROVE  LInv'
<1>1. Types'
  <2>1. loading' \in BOOLEAN /\ load_data_valid' \in BOOLEAN
    BY Zenon DEF Finish
  <2>2. QED
    BY <2>1, WriteStep, Sizes DEF Load, Finish, LInv, Types
<1>2. OneAhead' /\ DataMatchesIndex' /\ MetaSeen'
  BY DEF Finish, OneAhead, DataMatchesIndex, MetaSeen, load_wr_en
<1>3. QED
  BY <1>1, <1>2 DEF LInv

LEMMA ContinueStep ==
  ASSUME LInv, Load, Continue
  PROVE  LInv'
<1>1. /\ load_data_valid /\ loading /\ load_data_word \in Index
      /\ load_req_word = load_data_word + 1 /\ load_req_word \in Index
  BY DEF Load, Continue, LInv, Types, OneAhead
<1>2. Types'
  BY <1>1, WriteStep, Sizes
     DEF Load, Continue, NextRequest, LAST_WORD, LInv, Types, Index
<1>3. OneAhead'
  BY <1>1, Sizes DEF Load, Continue, NextRequest, LAST_WORD, OneAhead, Index
<1>4. DataMatchesIndex'
  <2>1. lib_word_data' = Image[load_req_word]
    BY DEF Load, RomClock, Image
  <2>2. \A w \in 0 .. load_data_word :
          imem'[w] = Image[w] /\ dmem'[w] = Image[w]
    BY <1>1, WriteStep DEF Load, load_wr_en
  <2>3. load_data_word' = load_data_word + 1 /\ Image' = Image
    BY <1>1 DEF Load, Continue, Image
  <2>4. load_data_word' - 1 = load_data_word /\ load_data_word' = load_req_word
    BY <1>1, <2>3, Sizes DEF Index
  <2>5. QED
    BY <2>1, <2>2, <2>3, <2>4 DEF DataMatchesIndex
<1>5. MetaSeen'
  <2>1. lib_word_data = Image[load_data_word]
    BY <1>1 DEF LInv, DataMatchesIndex, load_wr_en
  <2>2. load_data_word' = load_data_word + 1 /\ Image' = Image
    BY <1>1 DEF Load, Continue, Image
  <2>3. /\ sig'.begin = Captured(META_BEGIN_WORD, sig.begin)
        /\ sig'.end = Captured(META_END_WORD, sig.end)
    BY DEF Load
  <2>4. load_data_word > META_BEGIN_WORD =>
          sig.begin = IndexBits(Image[META_BEGIN_WORD])
    BY <1>1 DEF LInv, MetaSeen
  <2>5. load_data_word > META_END_WORD =>
          sig.end = IndexBits(Image[META_END_WORD])
    BY <1>1 DEF LInv, MetaSeen
  <2>6. load_data_word + 1 > META_BEGIN_WORD =>
          sig'.begin = IndexBits(Image[META_BEGIN_WORD])
    BY <1>1, <2>1, <2>3, <2>4, Sizes DEF Captured, Index, META_BEGIN_WORD
  <2>7. load_data_word + 1 > META_END_WORD =>
          sig'.end = IndexBits(Image[META_END_WORD])
    BY <1>1, <2>1, <2>3, <2>5, Sizes DEF Captured, Index, META_END_WORD
  <2>8. QED
    BY <2>2, <2>6, <2>7 DEF MetaSeen, IndexBits, META_BEGIN_WORD, META_END_WORD
<1>6. QED
  BY <1>2, <1>3, <1>4, <1>5 DEF LInv

LEMMA NextLInv == LInv /\ [Next]_vars => LInv'
<1> SUFFICES ASSUME LInv, [Next]_vars PROVE LInv'
  OBVIOUS
<1>1. CASE Load
  BY <1>1, StartStep, FinishStep, ContinueStep DEF Load
<1>2. CASE UNCHANGED vars
  BY <1>2 DEF vars, LInv, Types, OneAhead, DataMatchesIndex, MetaSeen,
              load_wr_en, Image
<1>3. QED
  BY <1>1, <1>2, ResetStep, RunStep DEF Next

-----------------------------------------------------------------------------
(* A word that is being written is the selected program's word of that     *)
(* index, and all words before it are in place, for every library and      *)
(* every sequence of resets (cpu.sv Loader FSM).                           *)
THEOREM WordsInPlace == Spec => []DataMatchesIndex
<1>1. LInv => DataMatchesIndex
  BY DEF LInv
<1>2. QED
  BY <1>1, InitLInv, NextLInv, PTL DEF Spec

(* The last edge of a load completes the image and the metadata. *)
LEMMA Released ==
  ASSUME LInv, Load, Finish
  PROVE  /\ imem' = Image /\ dmem' = Image
         /\ sig' = [begin |-> IndexBits(Image[META_BEGIN_WORD]),
                    end   |-> IndexBits(Image[META_END_WORD]),
                    count |-> IndexBits(Image[META_COUNT_WORD])]
<1>1. load_wr_en /\ load_data_word = LAST_WORD
  BY DEF Load, Finish, load_wr_en
<1>2. imem' = Image /\ dmem' = Image
  <2>1. Image \in [Index -> Int]
    BY ImageType DEF LInv
  <2>2. \A w \in Index : imem'[w] = Image[w] /\ dmem'[w] = Image[w]
    BY <1>1, WriteStep DEF Load, Index, LAST_WORD
  <2>3. imem' \in [Index -> Int] /\ dmem' \in [Index -> Int]
    BY WriteStep DEF Load
  <2>4. QED
    BY <2>1, <2>2, <2>3
<1>3. lib_word_data = Image[META_COUNT_WORD]
  BY <1>1 DEF LInv, DataMatchesIndex, LAST_WORD, META_COUNT_WORD
<1>4. /\ sig.begin = IndexBits(Image[META_BEGIN_WORD])
      /\ sig.end = IndexBits(Image[META_END_WORD])
  BY <1>1, Sizes DEF LInv, MetaSeen, load_wr_en, LAST_WORD, META_BEGIN_WORD,
                     META_END_WORD
<1>5. /\ Captured(META_BEGIN_WORD, sig.begin) = sig.begin
      /\ Captured(META_END_WORD, sig.end) = sig.end
      /\ Captured(META_COUNT_WORD, sig.count) = IndexBits(lib_word_data)
  BY <1>1, Sizes DEF Captured, load_wr_en, LAST_WORD, META_BEGIN_WORD,
                     META_END_WORD, META_COUNT_WORD
<1>6. QED
  BY <1>2, <1>3, <1>4, <1>5 DEF Load

(* The core is released on the whole image of the selected program, with   *)
(* the place of its results known, for every size of the memories and      *)
(* every library (cpu.sv core_rst_n, sig_begin_word ...).                  *)
THEOREM CoreStartsRight == Spec => CoreStartsOnImage
<1> DEFINE Starts ==
      loading /\ ~loading' =>
        /\ imem' = Image /\ dmem' = Image
        /\ sig' = [begin |-> IndexBits(Image[META_BEGIN_WORD]),
                   end   |-> IndexBits(Image[META_END_WORD]),
                   count |-> IndexBits(Image[META_COUNT_WORD])]
<1>1. LInv /\ [Next]_vars => [Starts]_vars
  <2> SUFFICES ASSUME LInv, Next, loading, ~loading'
               PROVE  Load /\ Finish
    BY Released
  <2>1. Load
    BY DEF Next, Reset, Run
  <2>2. QED
    BY <2>1 DEF Load, Start, Continue
<1>2. QED
  BY <1>1, InitLInv, NextLInv, PTL DEF Spec, CoreStartsOnImage
=============================================================================
