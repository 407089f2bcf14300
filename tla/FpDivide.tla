------------------------------ MODULE FpDivide -------------------------------
(***************************************************************************)
(* The divide unit of the RTL (fp_div.sv) with its datapath: a restoring   *)
(* division of mantissas, StepBits quotient bits a cycle, the first of     *)
(* them in the cycle of issue.  MantBits is 24 in the code, ExpBits 8.     *)
(***************************************************************************)
EXTENDS Integers

CONSTANTS
  MantBits,    \* width of a mantissa with its leading 1
  ExpBits,
  Operands     \* the floats that are divided: [sign, exp, frac]

StepBits == 3
Last     == MantBits \div StepBits - 2     \* the last value of s_cnt; 6
Bias     == 2^(ExpBits - 1) - 1
MaxExp   == 2^ExpBits - 2
MaxFrac  == 2^(MantBits - 1) - 1
ExpSpan  == 2^(ExpBits + 2)                \* s_exp has two more bits
Mantissa(x) == 2^(MantBits - 1) + x.frac

ASSUME DivideAssumption ==
  /\ MantBits \in {StepBits * k : k \in 2 .. 8} /\ ExpBits \in Nat \ {0, 1}
  /\ Operands \subseteq [sign : 0 .. 1, exp : 0 .. MaxExp + 1, frac : 0 .. MaxFrac]

VARIABLES
  state,       \* IDLE, DIVIDE or DONE
  cnt,         \* s_cnt
  sign, exp,   \* s_sign, s_exp
  dv,          \* divisor
  p, s, q,     \* partial remainder, dividend bits left, quotient so far
  arg          \* the operands of the division in progress (history)

divVars == <<state, cnt, sign, exp, dv, p, s, q, arg>>

-----------------------------------------------------------------------------
(* One quotient bit: r = [p, s, q].  Everything is cut to MantBits bits.   *)
BitStep(r, d) ==
  LET shifted == (2 * r.p + r.s \div 2^(MantBits - 1)) % 2^MantBits
      fits    == shifted >= d
  IN [p |-> IF fits THEN shifted - d ELSE shifted,
      s |-> (2 * r.s) % 2^MantBits,
      q |-> (2 * r.q + (IF fits THEN 1 ELSE 0)) % 2^MantBits]

(* Mutant: the last of the three bits is left out. *)
div3_step_Short(r, d) == BitStep(BitStep(r, d), d)

div3_step(r, d) == BitStep(BitStep(BitStep(r, d), d), d)

TooSmall(e) == e \div 2^(ExpBits + 1) = 1 \/ e = 0

(* c_result: the packed result. *)
c_result ==
  IF TooSmall(exp) THEN [sign |-> 0, exp |-> 0, frac |-> 0]
  ELSE IF exp > MaxExp THEN [sign |-> sign, exp |-> MaxExp, frac |-> MaxFrac]
  ELSE IF q >= 2^(MantBits - 1)
    THEN [sign |-> sign, exp |-> exp, frac |-> q - 2^(MantBits - 1)]
  ELSE IF exp > 1
    THEN [sign |-> sign, exp |-> exp - 1, frac |-> (2 * q) % 2^(MantBits - 1)]
  ELSE [sign |-> 0, exp |-> 0, frac |-> 0]

-----------------------------------------------------------------------------
Registers(r) == p' = r.p /\ s' = r.s /\ q' = r.q

Reset ==
  /\ state = "IDLE" /\ cnt = 0 /\ sign = 0 /\ exp = 0 /\ dv = 0
  /\ p = 0 /\ s = 0 /\ q = 0 /\ arg = <<>>

Flush ==
  /\ state' = "IDLE" /\ cnt' = 0 /\ sign' = 0 /\ exp' = 0 /\ dv' = 0
  /\ p' = 0 /\ s' = 0 /\ q' = 0 /\ arg' = <<>>

(* The station issues only while fu_ready_o. *)
Issue(a, b) ==
  /\ state = "IDLE"
  /\ state' = "DIVIDE" /\ cnt' = 0
  /\ sign' = (a.sign + b.sign) % 2
  /\ exp' = (a.exp - b.exp + Bias) % ExpSpan
  /\ dv' = Mantissa(b)
  /\ Registers(div3_step([p |-> 0, s |-> Mantissa(a), q |-> 0], Mantissa(b)))
  /\ arg' = <<a, b>>

(* Mutant: the count ends one short, and the last three bits are missing. *)
Divide_Short ==
  /\ state = "DIVIDE"
  /\ Registers(div3_step([p |-> p, s |-> s, q |-> q], dv))
  /\ IF cnt = Last - 1 THEN state' = "DONE" /\ cnt' = cnt
                       ELSE state' = state /\ cnt' = cnt + 1
  /\ UNCHANGED <<sign, exp, dv, arg>>

Divide ==
  /\ state = "DIVIDE"
  /\ Registers(div3_step([p |-> p, s |-> s, q |-> q], dv))
  /\ IF cnt = Last THEN state' = "DONE" /\ cnt' = cnt
                   ELSE state' = state /\ cnt' = cnt + 1
  /\ UNCHANGED <<sign, exp, dv, arg>>

(* The result is on cdb_result_o until the bus takes it. *)
Done(cdb_grant) ==
  /\ state = "DONE"
  /\ state' = IF cdb_grant THEN "IDLE" ELSE "DONE"
  /\ UNCHANGED <<cnt, sign, exp, dv, p, s, q, arg>>

Idle ==
  /\ state = "IDLE"
  /\ UNCHANGED divVars

DivideClock(cdb_grant) ==
  \/ Idle
  \/ \E a, b \in Operands : Issue(a, b)
  \/ Divide
  \/ Done(cdb_grant)

-----------------------------------------------------------------------------
(* The dividend bits that have been brought down. *)
Used == Mantissa(arg[1]) \div 2^(MantBits - StepBits * (cnt + 1))

(* Restoring division: after every cycle the quotient bits and the partial *)
(* remainder are those of the dividend bits used so far, and the remainder *)
(* is less than the divisor (fp_div.sv div3_step).                         *)
PartialQuotient ==
  state = "DIVIDE" => q * dv + p = Used /\ p < dv

(* As long as the result waits for the bus it is that of the operands that *)
(* were issued, and all bits of the dividend have been used (fp_div.sv     *)
(* s_cnt, state DONE).                                                     *)
IntegerQuotient ==
  state = "DONE" =>
    q = Mantissa(arg[1]) \div Mantissa(arg[2]) /\ s = 0

(* The quotient truncated to MantBits bits and normalised, 0 below the     *)
(* range of the exponent and the largest float above it.                   *)
Quotient(a, b) ==
  LET small == Mantissa(a) < Mantissa(b)
      m == (Mantissa(a) * 2^(MantBits - (IF small THEN 0 ELSE 1)))
             \div Mantissa(b)
      e == a.exp - b.exp + Bias - (IF small THEN 1 ELSE 0)
      sgn == (a.sign + b.sign) % 2
  IN IF e <= 0 THEN [sign |-> 0, exp |-> 0, frac |-> 0]
     ELSE IF e > MaxExp THEN [sign |-> sgn, exp |-> MaxExp, frac |-> MaxFrac]
     ELSE [sign |-> sgn, exp |-> e, frac |-> m - 2^(MantBits - 1)]

(* "fd = fs1 / fs2" (rv32if_pkg.sv OP_FDIV_S). *)
Divides == state = "DONE" => c_result = Quotient(arg[1], arg[2])
=============================================================================
