-------------------------- MODULE RtlArbiterProofs ---------------------------
(***************************************************************************)
(* The round-robin order of the common data bus, for every number of       *)
(* functional units: a unit that is passed over gets strictly nearer to    *)
(* the front with every grant.                                             *)
(***************************************************************************)
EXTENDS RtlArbiter, WellFoundedInduction, TLAPS

(* The unit after the last winner is a unit, and a rank counts places. *)
LEMMA RankRange ==
  ASSUME last_grant \in Fu, NEW i \in Fu
  PROVE  base \in Fu /\ Rank(i) \in Fu
  BY FuAssumption DEF Fu, base, Rank

(* Two units have different ranks. *)
LEMMA RankInjective ==
  ASSUME last_grant \in Fu, NEW i \in Fu, NEW j \in Fu, Rank(i) = Rank(j)
  PROVE  i = j
  BY FuAssumption DEF Fu, base, Rank

(* The grant is a requester, and no requester comes before it. *)
LEMMA GrantIsFirst ==
  ASSUME TypeOK, req # {}
  PROVE  /\ Grant(req) \in req
         /\ \A j \in req : Rank(Grant(req)) <= Rank(j)
<1> DEFINE R == {Rank(i) : i \in req}
<1>1. R \subseteq Nat
  BY RankRange, FuAssumption DEF TypeOK, Fu
<1>2. R # {}
  OBVIOUS
<1>3. PICK r \in R : \A s \in R : ~(<<s, r>> \in OpToRel(<, Nat))
  BY <1>1, <1>2, NatLessThanWellFounded, WFMin, Zenon
<1>4. \A s \in R : r <= s
  <2> HIDE DEF R
  <2> SUFFICES ASSUME NEW s \in R, ~(r <= s) PROVE FALSE
    OBVIOUS
  <2>1. r \in Nat /\ s \in Nat
    BY <1>1
  <2>2. s < r
    BY <2>1
  <2>3. <<s, r>> \in OpToRel(<, Nat)
    BY <2>1, <2>2, Zenon DEF OpToRel
  <2>4. QED
    BY <1>3, <2>3
<1>5. \E i \in req : \A j \in req : Rank(i) <= Rank(j)
  BY <1>4
<1>6. QED
  BY <1>5 DEF Grant

(* The last winner stays a unit. *)
LEMMA TypeStep ==
  ASSUME TypeOK, [Next]_arbVars
  PROVE  TypeOK'
<1>1. CASE Arbitrate
  BY <1>1, GrantIsFirst DEF Arbitrate, CdbClock, TypeOK
<1>2. CASE Flushed
  BY <1>2, GrantIsFirst DEF Flushed, CdbClock, TypeOK
<1>3. CASE UNCHANGED arbVars
  BY <1>3 DEF arbVars, TypeOK
<1>4. QED
  BY <1>1, <1>2, <1>3 DEF Next

(* The one-hot vector last_grant always names one of the NUM_FU units      *)
(* (cdb.sv last_grant).                                                    *)
THEOREM TypeCorrect == Spec => []TypeOK
<1>1. Init => TypeOK
  BY FuAssumption DEF Init, CdbInit, TypeOK, Fu
<1>2. TypeOK /\ [Next]_arbVars => TypeOK'
  BY TypeStep
<1>3. QED
  BY <1>1, <1>2, PTL DEF Spec

(* When g is served, the unit i moves up by one more than g was ahead. *)
LEMMA MovesUp ==
  ASSUME TypeOK, NEW g \in Fu, NEW i \in Fu, Rank(g) < Rank(i), last_grant' = g
  PROVE  Rank(i)' < Rank(i)
<1>1. base' = IF g = NUM_FU - 1 THEN 0 ELSE g + 1
  BY DEF base
<1>2. Rank(i)' = IF i >= base' THEN i - base' ELSE i - base' + NUM_FU
  BY DEF Rank
<1>3. QED
  BY <1>1, <1>2, FuAssumption DEF TypeOK, Fu, base, Rank

(* No unit is starved: with every grant to another one, a unit that waits  *)
(* comes strictly nearer to the front, so it waits for at most NUM_FU - 1  *)
(* grants (cdb.sv base, arbiter.sv).                                       *)
THEOREM RoundRobin == Spec => PassedOverMovesUp
<1> DEFINE MoveUp == \A i \in req \ Served(req) : Rank(i)' < Rank(i)
<1>1. TypeOK /\ [Next]_arbVars => [MoveUp]_arbVars
  <2> SUFFICES ASSUME TypeOK, Next, NEW i \in req \ Served(req)
               PROVE  Rank(i)' < Rank(i)
    OBVIOUS
  <2> DEFINE g == Grant(req)
  <2>1. g \in req /\ Rank(g) <= Rank(i)
    BY GrantIsFirst
  <2>2. g # i /\ g \in Fu /\ i \in Fu
    BY <2>1 DEF Served, TypeOK
  <2>3. Rank(g) < Rank(i)
    BY <2>1, <2>2, RankInjective, RankRange, FuAssumption DEF TypeOK, Fu
  <2>4. last_grant' = g
    BY DEF Next, Arbitrate, Flushed, CdbClock
  <2> HIDE DEF g
  <2>5. QED
    BY <2>2, <2>3, <2>4, MovesUp
<1>2. QED
  BY <1>1, TypeCorrect, PTL DEF Spec, PassedOverMovesUp
=============================================================================
