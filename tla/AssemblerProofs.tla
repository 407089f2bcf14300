--------------------------- MODULE AssemblerProofs ---------------------------
(***************************************************************************)
(* The two passes of parse_program agree on every source text: the address *)
(* the first one gives a label is that of the instruction the second one   *)
(* puts there.  Each pass counts the instructions it meets; the proof      *)
(* relates both counts to the text.                                        *)
(***************************************************************************)
EXTENDS Assembler, FiniteSetTheorems, SequenceTheorems, TLAPS

Count(n) == Cardinality(Instructions(n))

InstructionAt(i) == IsInstruction(tokenize(raw[i]))
LabelAt(i)       == DefinesLabel(tokenize(raw[i]))
NameAt(i)        == tokenize(raw[i])[1].word

(* d is the last definition of l on the lines before n. *)
LastBefore(l, d, n) ==
  /\ d \in 1 .. n - 1 /\ LabelAt(d) /\ NameAt(d) = l
  /\ \A e \in d + 1 .. n - 1 : LabelAt(e) => NameAt(e) # l

(* The map holds the labels of the lines before n, each with the number of *)
(* instructions before its last definition.                                *)
LabelsUpTo(n) ==
  /\ \A i \in 1 .. n - 1 : LabelAt(i) => NameAt(i) \in DOMAIN labels
  /\ \A l \in DOMAIN labels :
       \E d \in 1 .. n - 1 : LastBefore(l, d, n) /\ labels[l] = 4 * Count(d - 1)

(* The instructions of the lines before n are in their places. *)
DecodedUpTo(n) ==
  /\ prog \in Seq({Decode(tokenize(raw[i]), labels, 4 * Count(i - 1)) : i \in 1 .. Len(raw)})
  /\ Len(prog) = Count(n - 1)
  /\ \A i \in 1 .. n - 1 : InstructionAt(i) =>
       prog[Count(i - 1) + 1] = Decode(tokenize(raw[i]), labels, 4 * Count(i - 1))

(* The inductive invariant. *)
AInv ==
  /\ Len(raw) \in Nat
  /\ pass \in {"labels", "decode", "done"}
  /\ line \in 1 .. Len(raw) + 1
  /\ wpc = Count(line - 1)
  /\ pass = "labels" => LabelsUpTo(line) /\ prog = << >>
  /\ pass # "labels" => LabelsUpTo(Len(raw) + 1) /\ DecodedUpTo(line)
  /\ pass = "done" => line = Len(raw) + 1

-----------------------------------------------------------------------------
(* There are finitely many instruction lines. *)
LEMMA CountNat ==
  ASSUME NEW n \in Int
  PROVE  IsFiniteSet(Instructions(n)) /\ Count(n) \in Nat
<1>1. IsFiniteSet(1 .. n)
  BY FS_Interval
<1>2. IsFiniteSet(Instructions(n))
  BY <1>1, FS_Subset DEF Instructions
<1>3. QED
  BY <1>2, FS_CardinalityType DEF Count

(* No instruction comes before the first line. *)
LEMMA CountZero == Count(0) = 0
<1>1. Instructions(0) = {}
  BY DEF Instructions
<1>2. QED
  BY <1>1, FS_EmptySet DEF Count

(* A line adds one to the count when it is an instruction. *)
LEMMA CountStep ==
  ASSUME NEW n \in Nat \ {0}
  PROVE  Count(n) = IF InstructionAt(n) THEN Count(n - 1) + 1 ELSE Count(n - 1)
<1>1. IsFiniteSet(Instructions(n - 1)) /\ n \notin Instructions(n - 1)
  BY CountNat DEF Instructions
<1>2. CASE InstructionAt(n)
  <2>1. Instructions(n) = Instructions(n - 1) \cup {n}
    BY <1>2 DEF Instructions, InstructionAt
  <2>2. QED
    BY <1>1, <1>2, <2>1, FS_AddElement DEF Count
<1>3. CASE ~InstructionAt(n)
  <2>1. Instructions(n) = Instructions(n - 1)
    BY <1>3 DEF Instructions, InstructionAt
  <2>2. QED
    BY <1>3, <2>1 DEF Count
<1>4. QED
  BY <1>2, <1>3

(* The count does not fall from one line to a later one. *)
LEMMA CountMono ==
  ASSUME NEW m \in Int, NEW n \in Int, m <= n
  PROVE  Count(m) <= Count(n)
<1>1. Instructions(m) \subseteq Instructions(n)
  BY DEF Instructions
<1>2. QED
  BY <1>1, CountNat, FS_Subset DEF Count

(* What is said of the text alone stays when the text does. *)
LEMMA TextStays ==
  ASSUME raw' = raw
  PROVE  /\ \A n : Count(n)' = Count(n)
         /\ \A i : (InstructionAt(i)' <=> InstructionAt(i)) /\ (LabelAt(i)' <=> LabelAt(i))
         /\ \A i : NameAt(i)' = NameAt(i)
         /\ \A l, d, n : LastBefore(l, d, n)' <=> LastBefore(l, d, n)
<1>1. \A n : Count(n)' = Count(n)
  BY DEF Count, Instructions
<1>2. /\ \A i : (InstructionAt(i)' <=> InstructionAt(i)) /\ (LabelAt(i)' <=> LabelAt(i))
      /\ \A i : NameAt(i)' = NameAt(i)
  BY DEF InstructionAt, LabelAt, NameAt
<1>3. \A l, d, n : LastBefore(l, d, n)' <=> LastBefore(l, d, n)
  BY <1>2 DEF LastBefore
<1>4. QED
  BY <1>1, <1>2, <1>3

-----------------------------------------------------------------------------
(* Both passes start before the first line with nothing counted. *)
LEMMA InitAInv == AsmInit => AInv
<1> SUFFICES ASSUME AsmInit
             PROVE  AInv
  OBVIOUS
<1>1. Len(raw) \in Nat
  BY SourcesAssumption DEF AsmInit
<1>2. wpc = Count(line - 1)
  BY CountZero DEF AsmInit
<1>3. LabelsUpTo(line)
  BY DEF AsmInit, LabelsUpTo
<1>4. QED
  BY <1>1, <1>2, <1>3 DEF AInv, AsmInit

(* A label takes the count so far, and is the last definition so far. *)
LEMMA DefineLabelAInv ==
  ASSUME AInv, DefineLabel
  PROVE  AInv'
<1> DEFINE name == NameAt(line)
<1>1. /\ pass = "labels" /\ pass' = pass /\ raw' = raw /\ wpc' = wpc /\ prog' = prog
      /\ line \in 1 .. Len(raw) /\ line' = line + 1
      /\ LabelAt(line)
      /\ labels' = [l \in DOMAIN labels \cup {name} |->
                      IF l = name THEN wpc * 4 ELSE labels[l]]
  BY DEF DefineLabel, AtLine, AInv, Tokens, NameAt, LabelAt
<1>2. ~InstructionAt(line)
  BY <1>1 DEF LabelAt, InstructionAt, DefinesLabel, IsInstruction
<1>3. wpc' = Count(line - 1)'
  BY <1>1, <1>2, CountStep, TextStays DEF AInv
<1>4. LabelsUpTo(line)'
  <2>1. ASSUME NEW i \in 1 .. line' - 1, LabelAt(i)'
        PROVE  NameAt(i)' \in DOMAIN labels'
    BY <1>1, <2>1, TextStays DEF AInv, LabelsUpTo
  <2>2. ASSUME NEW l \in DOMAIN labels'
        PROVE  \E d \in 1 .. line' - 1 :
                 LastBefore(l, d, line)' /\ labels'[l] = 4 * Count(d - 1)'
    <3>1. CASE l = name
      <4>1. LastBefore(l, line, line + 1)
        BY <1>1, <3>1 DEF LastBefore
      <4>2. labels'[l] = 4 * Count(line - 1)
        BY <1>1, <3>1, CountNat DEF AInv
      <4>3. QED
        BY <1>1, <4>1, <4>2, TextStays
    <3>2. CASE l # name
      <4>1. l \in DOMAIN labels /\ labels'[l] = labels[l]
        BY <1>1, <2>2, <3>2
      <4>2. PICK d \in 1 .. line - 1 :
              LastBefore(l, d, line) /\ labels[l] = 4 * Count(d - 1)
        BY <1>1, <4>1 DEF AInv, LabelsUpTo
      <4>3. LastBefore(l, d, line + 1)
        BY <1>1, <3>2, <4>2 DEF LastBefore
      <4>4. QED
        BY <1>1, <4>1, <4>2, <4>3, TextStays
    <3>3. QED
      BY <3>1, <3>2
  <2>3. QED
    BY <2>1, <2>2 DEF LabelsUpTo
<1>5. QED
  BY <1>1, <1>3, <1>4 DEF AInv

(* A line that defines no label leaves the map right for one line more. *)
LEMMA LabelsStay ==
  ASSUME AInv, pass = "labels", line \in 1 .. Len(raw), ~LabelAt(line),
         raw' = raw, labels' = labels, line' = line + 1
  PROVE  LabelsUpTo(line)'
<1>1. ASSUME NEW i \in 1 .. line' - 1, LabelAt(i)'
      PROVE  NameAt(i)' \in DOMAIN labels'
  BY <1>1, TextStays DEF AInv, LabelsUpTo
<1>2. ASSUME NEW l \in DOMAIN labels'
      PROVE  \E d \in 1 .. line' - 1 :
               LastBefore(l, d, line)' /\ labels'[l] = 4 * Count(d - 1)'
  <2>1. PICK d \in 1 .. line - 1 :
          LastBefore(l, d, line) /\ labels[l] = 4 * Count(d - 1)
    BY <1>2 DEF AInv, LabelsUpTo
  <2>2. LastBefore(l, d, line + 1)
    BY <2>1 DEF LastBefore
  <2>3. QED
    BY <2>1, <2>2, TextStays
<1>3. QED
  BY <1>1, <1>2 DEF LabelsUpTo

(* The first pass counts an instruction. *)
LEMMA CountInstructionAInv ==
  ASSUME AInv, CountInstruction
  PROVE  AInv'
<1>1. /\ pass = "labels" /\ pass' = pass /\ raw' = raw /\ wpc' = wpc + 1 /\ prog' = prog
      /\ line \in 1 .. Len(raw) /\ line' = line + 1 /\ labels' = labels
      /\ InstructionAt(line)
  BY DEF CountInstruction, AtLine, AInv, Tokens, InstructionAt
<1>2. ~LabelAt(line)
  BY <1>1 DEF LabelAt, InstructionAt, DefinesLabel, IsInstruction
<1>3. wpc' = Count(line - 1)'
  BY <1>1, CountStep, TextStays DEF AInv
<1>4. LabelsUpTo(line)'
  BY <1>1, <1>2, LabelsStay
<1>5. QED
  BY <1>1, <1>3, <1>4 DEF AInv

(* The second pass starts over with an empty program. *)
LEMMA EndOfLabelsAInv ==
  ASSUME AInv, EndOfLabels
  PROVE  AInv'
<1>1. /\ pass = "labels" /\ pass' = "decode" /\ raw' = raw /\ wpc' = 0
      /\ prog' = << >> /\ labels' = labels
      /\ line = Len(raw) + 1 /\ line' = 1
  BY DEF EndOfLabels, AInv
<1>2. wpc' = Count(line - 1)'
  BY <1>1, CountZero, TextStays
<1>3. LabelsUpTo(Len(raw) + 1)'
  BY <1>1, TextStays DEF AInv, LabelsUpTo
<1>4. DecodedUpTo(line)'
  BY <1>1, CountZero, TextStays DEF DecodedUpTo
<1>5. QED
  BY <1>1, <1>2, <1>3, <1>4 DEF AInv

(* What the decoded program is stays when text, labels and program do.     *)
LEMMA LabelsAndTextStay ==
  ASSUME AInv, pass # "labels", raw' = raw, labels' = labels
  PROVE  LabelsUpTo(Len(raw) + 1)'
  BY TextStays DEF AInv, LabelsUpTo

(* The instruction of a line goes where the labels expect it. *)
LEMMA DecodeInstructionAInv ==
  ASSUME AInv, DecodeInstruction
  PROVE  AInv'
<1> DEFINE new == Decode(tokenize(raw[line]), labels, 4 * Count(line - 1))
           All == {Decode(tokenize(raw[i]), labels, 4 * Count(i - 1)) : i \in 1 .. Len(raw)}
<1>1. /\ pass = "decode" /\ pass' = pass /\ raw' = raw /\ wpc' = wpc + 1
      /\ labels' = labels
      /\ line \in 1 .. Len(raw) /\ line' = line + 1
      /\ InstructionAt(line)
      /\ prog' = Append(prog, Decode(tokenize(raw[line]), labels, wpc * 4))
  BY DEF DecodeInstruction, AtLine, AInv, Tokens, InstructionAt
<1>2. wpc = Count(line - 1) /\ wpc \in Nat /\ Len(raw) \in Nat
  BY CountNat DEF AInv
<1>3. wpc * 4 = 4 * Count(line - 1)
  BY <1>2
<1>4. prog' = Append(prog, new)
  BY <1>1, <1>3
<1>5. wpc' = Count(line - 1)'
  BY <1>1, <1>2, CountStep, TextStays
<1>6. prog \in Seq(All) /\ Len(prog) = wpc /\ new \in All
  BY <1>1, <1>2 DEF AInv, DecodedUpTo
<1>7. /\ prog' \in Seq(All) /\ Len(prog') = wpc + 1 /\ prog'[wpc + 1] = new
      /\ \A k \in 1 .. wpc : prog'[k] = prog[k]
  <2> HIDE DEF new, All
  <2>1. QED
    BY <1>4, <1>6, AppendProperties
<1>8. DecodedUpTo(line)'
  <2>1. prog' \in Seq({Decode(tokenize(raw'[i]), labels', 4 * Count(i - 1)') : i \in 1 .. Len(raw')})
    BY <1>1, <1>7, TextStays
  <2>2. Len(prog') = Count(line - 1)'
    BY <1>1, <1>5, <1>7
  <2>3. ASSUME NEW i \in 1 .. line' - 1, InstructionAt(i)'
        PROVE  prog'[Count(i - 1)' + 1] = Decode(tokenize(raw'[i]), labels', 4 * Count(i - 1)')
    <3>1. InstructionAt(i) /\ Count(i - 1)' = Count(i - 1) /\ i \in Nat \ {0}
      BY <1>1, <2>3, TextStays
    <3>2. CASE i = line
      BY <1>1, <1>2, <1>7, <3>1, <3>2
    <3>3. CASE i # line
      <4>1. i \in 1 .. line - 1
        BY <1>1, <2>3, <3>3
      <4>2. Count(i - 1) + 1 = Count(i)
        BY <3>1, CountStep
      <4>3. Count(i - 1) + 1 \in 1 .. wpc
        <5>1. i \in Int /\ line - 1 \in Int /\ i <= line - 1 /\ i - 1 \in Int
          BY <1>1, <4>1
        <5>2. Count(i) <= Count(line - 1) /\ Count(i - 1) \in Nat
          BY <5>1, CountMono, CountNat
        <5>3. QED
          BY <1>2, <4>2, <5>2
      <4>4. prog[Count(i - 1) + 1] = Decode(tokenize(raw[i]), labels, 4 * Count(i - 1))
        BY <1>1, <3>1, <4>1 DEF AInv, DecodedUpTo
      <4>5. QED
        BY <1>1, <1>7, <3>1, <4>3, <4>4
    <3>4. QED
      BY <3>2, <3>3
  <2>4. QED
    BY <2>1, <2>2, <2>3 DEF DecodedUpTo
<1>9. LabelsUpTo(Len(raw) + 1)'
  BY <1>1, LabelsAndTextStay
<1>10. QED
  BY <1>1, <1>2, <1>5, <1>8, <1>9 DEF AInv

(* A line without an instruction changes no count. *)
LEMMA SkipLineAInv ==
  ASSUME AInv, SkipLine
  PROVE  AInv'
<1>1. /\ pass' = pass /\ raw' = raw /\ wpc' = wpc /\ labels' = labels /\ prog' = prog
      /\ line \in 1 .. Len(raw) /\ line' = line + 1
      /\ \/ pass = "labels" /\ ~LabelAt(line)
         \/ pass = "decode"
      /\ ~InstructionAt(line)
  BY DEF SkipLine, AtLine, AInv, Tokens, InstructionAt, LabelAt, IsInstruction, DefinesLabel
<1>2. Count(line) = Count(line - 1) /\ wpc' = Count(line - 1)'
  BY <1>1, CountStep, TextStays DEF AInv
<1>3. CASE pass = "labels"
  <2>1. LabelsUpTo(line)'
    BY <1>1, <1>3, LabelsStay
  <2>2. QED
    BY <1>1, <1>2, <1>3, <2>1 DEF AInv
<1>4. CASE pass = "decode"
  <2>1. DecodedUpTo(line)'
    BY <1>1, <1>2, <1>4, TextStays DEF AInv, DecodedUpTo
  <2>2. QED
    BY <1>1, <1>2, <1>4, <2>1, LabelsAndTextStay DEF AInv
<1>5. QED
  BY <1>1, <1>3, <1>4

(* No step of either pass breaks the invariant. *)
LEMMA NextAInv == AInv /\ [AsmNext]_asmVars => AInv'
<1> SUFFICES ASSUME AInv, [AsmNext]_asmVars
             PROVE  AInv'
  OBVIOUS
<1>1. CASE DefineLabel
  BY <1>1, DefineLabelAInv
<1>2. CASE CountInstruction
  BY <1>2, CountInstructionAInv
<1>3. CASE EndOfLabels
  BY <1>3, EndOfLabelsAInv
<1>4. CASE DecodeInstruction
  BY <1>4, DecodeInstructionAInv
<1>5. CASE SkipLine
  BY <1>5, SkipLineAInv
<1>6. CASE EndOfFile \/ UNCHANGED asmVars
  <2>1. /\ raw' = raw /\ line' = line /\ wpc' = wpc /\ labels' = labels /\ prog' = prog
        /\ \/ pass' = pass
           \/ pass = "decode" /\ pass' = "done" /\ line = Len(raw) + 1
    BY <1>6 DEF EndOfFile, asmVars, AInv
  <2>2. wpc' = Count(line - 1)'
    BY <2>1, TextStays DEF AInv
  <2>3. pass = "labels" => LabelsUpTo(line)'
    BY <2>1, TextStays DEF AInv, LabelsUpTo
  <2>4. pass # "labels" => DecodedUpTo(line)'
    BY <2>1, TextStays DEF AInv, DecodedUpTo
  <2>5. QED
    BY <2>1, <2>2, <2>3, <2>4, LabelsAndTextStay DEF AInv
<1>7. QED
  BY <1>1, <1>2, <1>3, <1>4, <1>5, <1>6 DEF AsmNext

-----------------------------------------------------------------------------
(* When parse_program returns, every label of the text is in the map with  *)
(* the address of the line of its last definition, and the instruction of  *)
(* every line is in the program at that line's address.                    *)
PassesAgree ==
  pass = "done" =>
    /\ \A i \in 1 .. Len(raw) : LabelAt(i) => NameAt(i) \in DOMAIN labels
    /\ \A l \in DOMAIN labels : \E d \in 1 .. Len(raw) :
         LastBefore(l, d, Len(raw) + 1) /\ labels[l] = AddressOf(d)
    /\ Len(prog) = Cardinality(Instructions(Len(raw)))
    /\ \A i \in 1 .. Len(raw) : InstructionAt(i) =>
         prog[AddressOf(i) \div 4 + 1] = Decode(tokenize(raw[i]), labels, AddressOf(i))

(* For every source text, the two passes of parse_program agree: a label   *)
(* stands for the instruction that follows its last definition.            *)
THEOREM TwoPassesAgree == AsmSpec => []PassesAgree
<1>1. AInv => PassesAgree
  <2> SUFFICES ASSUME AInv, pass = "done"
               PROVE  PassesAgree
    BY DEF PassesAgree
  <2>1. /\ line = Len(raw) + 1 /\ Len(raw) \in Nat
        /\ LabelsUpTo(Len(raw) + 1) /\ DecodedUpTo(Len(raw) + 1)
    BY DEF AInv
  <2>2. \A d \in 1 .. Len(raw) :
          AddressOf(d) = 4 * Count(d - 1) /\ AddressOf(d) \div 4 = Count(d - 1)
    <3> SUFFICES ASSUME NEW d \in 1 .. Len(raw)
                 PROVE  AddressOf(d) = 4 * Count(d - 1) /\ AddressOf(d) \div 4 = Count(d - 1)
      OBVIOUS
    <3>1. d - 1 \in Int
      BY <2>1
    <3>2. Count(d - 1) \in Nat
      BY <3>1, CountNat
    <3>3. QED
      BY <3>2 DEF AddressOf, Count
  <2>3. 1 .. (Len(raw) + 1) - 1 = 1 .. Len(raw) /\ (Len(raw) + 1) - 1 = Len(raw)
    BY <2>1
  <2>4. QED
    BY <2>1, <2>2, <2>3 DEF PassesAgree, LabelsUpTo, DecodedUpTo, Count
<1>2. QED
  BY <1>1, InitAInv, NextAInv, PTL DEF AsmSpec
=============================================================================
