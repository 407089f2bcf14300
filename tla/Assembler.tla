------------------------------- MODULE Assembler -------------------------------
(***************************************************************************)
(* parse_program of sim.cpp: two passes over the lines of the source, the  *)
(* first for the addresses of the labels, the second for the instructions; *)
(* one step per line.  A line is a sequence of lexemes; blanks are not     *)
(* represented.  A lexeme is a word (a mnemonic or a label used as a       *)
(* target), a register, a number, a memory operand imm(xN), a label        *)
(* definition (a word that ends in a colon), a comma, or a hash.           *)
(***************************************************************************)
EXTENDS Instruction, Sequences, FiniteSets

CONSTANTS
  Sources,    \* the files the simulator is given
  XReg, FReg, \* XReg[n] and FReg[n]: the registers xN and fN
  Stoi        \* std::stoi on the words that start with a digit; it throws on others

VARIABLES
  raw,        \* the lines of the file
  pass,       \* "labels", "decode", or "done" when parse_program has returned
  line,       \* the next line of the pass
  wpc,        \* instructions met in this pass
  labels,     \* label -> byte address
  prog        \* the instructions decoded so far

asmVars == <<raw, pass, line, wpc, labels, prog>>

-----------------------------------------------------------------------------
(* Where the comment starts, or the end of the line. *)
Cut(l) ==
  CHOOSE n \in 0 .. Len(l) :
    /\ \A k \in 1 .. n : l[k].kind # "hash"
    /\ n < Len(l) => l[n + 1].kind = "hash"

NotComma(x) == x.kind # "comma"

tokenize(l) == SelectSeq(SubSeq(l, 1, Cut(l)), NotComma)

DefinesLabel(toks)  == toks # << >> /\ toks[1].kind = "label"
IsInstruction(toks) == toks # << >> /\ toks[1].kind # "label"

(* preg drops the letter: the opcode says which file the index is for. *)
X(x) == XReg[x.index]
F(x) == FReg[x.index]

(* Mutant: the address is taken for an offset. *)
branch_offset_Absolute(x, lab, pc) ==
  IF x.kind = "num" THEN x.num
  ELSE IF x.word \in DOMAIN Stoi THEN Stoi[x.word]
  ELSE IF x.word \notin DOMAIN lab THEN 0
  ELSE lab[x.word]

(* A word that starts with a digit is a number before it is a label; an    *)
(* unknown label is offset 0.                                              *)
branch_offset(x, lab, pc) ==
  IF x.kind = "num" THEN x.num
  ELSE IF x.word \in DOMAIN Stoi THEN Stoi[x.word]
  ELSE IF x.word \notin DOMAIN lab THEN 0
  ELSE lab[x.word] - pc

(* The opcode a mnemonic is compared equal to; an unknown one leaves the   *)
(* default, NOP.                                                           *)
Mnemonic(word) ==
  CASE word = "FADD.S"   -> "FADD_S"
    [] word = "FSUB.S"   -> "FSUB_S"
    [] word = "FMUL.S"   -> "FMUL_S"
    [] word = "FDIV.S"   -> "FDIV_S"
    [] word = "FCVT.W.S" -> "FCVT_W_S"
    [] word = "FCVT.S.W" -> "FCVT_S_W"
    [] word \in Opcode \ (FpArith \cup FpCvt) -> word
    [] OTHER             -> "NOP"

(* The instruction of one line, at byte address pc, with these labels. *)
Decode(t, lab, pc) ==
  LET op == Mnemonic(t[1].word)
      Fields(rd, rs1, rs2, imm) ==
        [op |-> op, rd |-> rd, rs1 |-> rs1, rs2 |-> rs2, imm |-> imm]
  IN  CASE op \in IntRType   -> Fields(X(t[2]), X(t[3]), X(t[4]), 0)
        [] op \in IntIType \ {"LUI"} -> Fields(X(t[2]), X(t[3]), NoReg, t[4].num)
        [] op = "LUI"        -> Fields(X(t[2]), NoReg, NoReg, t[3].num)
        [] op = "LW"         -> Fields(X(t[2]), X(t[3]), NoReg, t[3].num)
        [] op = "FLW"        -> Fields(F(t[2]), X(t[3]), NoReg, t[3].num)
        [] op = "SW"         -> Fields(NoReg, X(t[3]), X(t[2]), t[3].num)
        [] op = "FSW"        -> Fields(NoReg, X(t[3]), F(t[2]), t[3].num)
        [] op \in Branches   -> Fields(NoReg, X(t[2]), X(t[3]), branch_offset(t[4], lab, pc))
        [] op = "JAL"        -> Fields(X(t[2]), NoReg, NoReg, branch_offset(t[3], lab, pc))
        [] op = "JALR" /\ t[3].kind = "mem" -> Fields(X(t[2]), X(t[3]), NoReg, t[3].num)
        [] op = "JALR" /\ t[3].kind = "reg" -> Fields(X(t[2]), X(t[3]), NoReg, t[4].num)
        [] op \in FpArith    -> Fields(F(t[2]), F(t[3]), F(t[4]), 0)
        [] op = "FCVT_W_S"   -> Fields(X(t[2]), F(t[3]), NoReg, 0)
        [] op = "FCVT_S_W"   -> Fields(F(t[2]), X(t[3]), NoReg, 0)
        [] OTHER             -> Fields(NoReg, NoReg, NoReg, 0)

-----------------------------------------------------------------------------
(* Operands by opcode: what the code indexes without looking.  A line      *)
(* with fewer operands, or with one that is not a number where stoi        *)
(* expects one, is outside what parse_program handles.                     *)
Formats(op) ==
  CASE op \in IntRType               -> {<<"x", "x", "x">>}
    [] op \in IntIType \ {"LUI"}     -> {<<"x", "x", "num">>}
    [] op = "LUI"                    -> {<<"x", "num">>}
    [] op \in {"LW", "SW"}           -> {<<"x", "mem">>}
    [] op \in {"FLW", "FSW"}         -> {<<"f", "mem">>}
    [] op \in Branches               -> {<<"x", "x", "num">>, <<"x", "x", "word">>}
    [] op = "JAL"                    -> {<<"x", "num">>, <<"x", "word">>}
    [] op = "JALR"                   -> {<<"x", "mem">>, <<"x", "x", "num">>}
    [] op \in FpArith                -> {<<"f", "f", "f">>}
    [] op = "FCVT_W_S"               -> {<<"x", "f">>}
    [] op = "FCVT_S_W"               -> {<<"f", "x">>}
    [] OTHER                         -> {}

Form(x) == IF x.kind = "reg" THEN x.file ELSE x.kind

Lexeme ==
  [kind : {"word", "label"}, word : STRING]
    \cup [kind : {"reg"}, file : {"x"}, index : DOMAIN XReg]
    \cup [kind : {"reg"}, file : {"f"}, index : DOMAIN FReg]
    \cup [kind : {"num"}, num : Int]
    \cup [kind : {"mem"}, num : Int, index : DOMAIN XReg]
    \cup [kind : {"comma", "hash"}]

WellFormed(t) ==
  /\ t \in Seq(Lexeme)
  /\ IsInstruction(t) /\ Mnemonic(t[1].word) \notin {"NOP", "HALT"} =>
       \E f \in Formats(Mnemonic(t[1].word)) :
         Len(t) = Len(f) + 1 /\ \A k \in 1 .. Len(f) : Form(t[k + 1]) = f[k]

ASSUME SourcesAssumption ==
  /\ Sources \subseteq Seq(Seq(Lexeme))
  /\ \A s \in Sources : \A k \in DOMAIN s : WellFormed(tokenize(s[k]))

ASSUME RegisterNames ==
  /\ XReg \in [DOMAIN XReg -> IntReg] /\ XReg[0] = X0
  /\ FReg \in [DOMAIN FReg -> FpReg]
  /\ Stoi \in [DOMAIN Stoi -> Int]

-----------------------------------------------------------------------------
AsmInit ==
  /\ raw \in Sources
  /\ pass = "labels" /\ line = 1 /\ wpc = 0
  /\ labels = << >>
  /\ prog = << >>

Tokens == tokenize(raw[line])

(* The body of either loop on the next line. *)
AtLine(p) ==
  /\ pass = p
  /\ line <= Len(raw)
  /\ line' = line + 1
  /\ UNCHANGED <<raw, pass>>

(* First pass.  A line that starts with a label is only that: what follows *)
(* the label on the line is dropped.  A later definition replaces an       *)
(* earlier one.                                                            *)
DefineLabel ==
  /\ AtLine("labels")
  /\ DefinesLabel(Tokens)
  /\ labels' = [l \in DOMAIN labels \cup {Tokens[1].word} |->
                  IF l = Tokens[1].word THEN wpc * 4 ELSE labels[l]]
  /\ UNCHANGED <<wpc, prog>>

CountInstruction ==
  /\ AtLine("labels")
  /\ IsInstruction(Tokens)
  /\ wpc' = wpc + 1
  /\ UNCHANGED <<labels, prog>>

EndOfLabels ==
  /\ pass = "labels"
  /\ line > Len(raw)
  /\ pass' = "decode" /\ line' = 1 /\ wpc' = 0
  /\ UNCHANGED <<raw, labels, prog>>

(* Second pass. *)
DecodeInstruction ==
  /\ AtLine("decode")
  /\ IsInstruction(Tokens)
  /\ prog' = Append(prog, Decode(Tokens, labels, wpc * 4))
  /\ wpc' = wpc + 1
  /\ UNCHANGED labels

EndOfFile ==
  /\ pass = "decode"
  /\ line > Len(raw)
  /\ pass' = "done"
  /\ UNCHANGED <<raw, line, wpc, labels, prog>>

(* Either pass: a line with nothing on it, and a label in the second pass. *)
SkipLine ==
  /\ \/ AtLine("labels") /\ Tokens = << >>
     \/ AtLine("decode") /\ ~IsInstruction(Tokens)
  /\ UNCHANGED <<wpc, labels, prog>>

AsmNext ==
  \/ DefineLabel \/ CountInstruction \/ EndOfLabels
  \/ DecodeInstruction \/ EndOfFile \/ SkipLine

AsmSpec == AsmInit /\ [][AsmNext]_asmVars

-----------------------------------------------------------------------------
Instructions(n) == {i \in 1 .. n : IsInstruction(tokenize(raw[i]))}

(* The byte address an instruction or a label on line n has. *)
AddressOf(n) == 4 * Cardinality(Instructions(n - 1))

Definitions(l) ==
  {i \in DOMAIN raw :
     DefinesLabel(tokenize(raw[i])) /\ tokenize(raw[i])[1].word = l}

LastDefinition(l) ==
  CHOOSE i \in Definitions(l) : \A j \in Definitions(l) : j <= i

Known(word) == \E op \in Opcode : opcode_name(op) = word

(* The registers of a line and of an instruction, in the order in which    *)
(* the assembly language writes them.                                      *)
RegistersOf(t) ==
  LET ops == SelectSeq(t, LAMBDA x : x.kind \in {"reg", "mem"})
  IN  [k \in DOMAIN ops |->
         IF ops[k].kind = "reg" /\ ops[k].file = "f" THEN F(ops[k]) ELSE X(ops[k])]

Written(d) ==
  SelectSeq(IF is_store(d.op) THEN <<d.rs2, d.rs1>> ELSE <<d.rd, d.rs1, d.rs2>>,
            LAMBDA r : r # NoReg)

(* The number a line means: a literal, or how far away its label is. *)
Numbers(t) == {k \in DOMAIN t : t[k].kind \in {"num", "mem"}}
Targets(t) ==
  {k \in 2 .. Len(t) : t[k].kind = "word" /\ t[k].word \notin DOMAIN Stoi
                         /\ Definitions(t[k].word) # {}}

(* The program is the text: instruction k is the k-th line that is not     *)
(* blank, comment or label, with that line's mnemonic (as opcode_name      *)
(* prints it), its registers in their roles, and its number; a label       *)
(* stands for the first instruction after its last definition, although    *)
(* the two passes count the lines separately; and an unknown mnemonic      *)
(* keeps its place as a NOP (parse_program).                               *)
AssemblesTheText ==
  pass = "done" =>
    /\ Len(prog) = Cardinality(Instructions(Len(raw)))
    /\ \A i \in Instructions(Len(raw)) :
         LET t == tokenize(raw[i])
             d == prog[AddressOf(i) \div 4 + 1]
         IN  IF ~Known(t[1].word) THEN d.op = "NOP" ELSE
             /\ opcode_name(d.op) = t[1].word
             /\ Written(d) = RegistersOf(t)
             /\ \A k \in Numbers(t) : d.imm = t[k].num
             /\ \A k \in Targets(t) :
                  d.imm = AddressOf(LastDefinition(t[k].word)) - AddressOf(i)
=============================================================================
