----------------------------- MODULE RtlStation ------------------------------
(***************************************************************************)
(* The reservation stations of the RTL (reservation_station.sv), one per   *)
(* functional unit class except memory.                                    *)
(***************************************************************************)
EXTENDS RtlPkg

CONSTANT RS_SIZE    \* slots by station: 6, 2, 3, 2, 2, 2

Station == {"alu", "br", "fp_add", "fp_mul", "fp_div", "fp_cvt"}

ASSUME StationAssumption == RS_SIZE \in [Station -> Nat \ {0}]

VARIABLES
  busy,     \* by station, the set of occupied slots
  slots     \* by station and slot, an rs_entry_t

stationVars == <<busy, slots>>

Slots(s) == 0 .. RS_SIZE[s] - 1

rs_full_o(s) == busy[s] = Slots(s)

ready_vec(s) == {i \in busy[s] : BothReady(slots[s][i])}

(* The priority chains: the lowest slot wins, the last one is the default. *)
Lowest(s, set) == IF set = {} THEN RS_SIZE[s] - 1 ELSE Min(set)

issue_idx(s)     == Lowest(s, ready_vec(s))
dispatch_idx(s)  == Lowest(s, Slots(s) \ busy[s])
issue_entry_o(s) == slots[s][issue_idx(s)]

issue_valid_o(s, fu_ready) == ready_vec(s) # {} /\ fu_ready

StationInit ==
  /\ busy = [s \in Station |-> {}]
  /\ slots = [s \in Station |-> [i \in Slots(s) |-> ZeroRsEntry]]

NextSlot(s, i, disp, entry, cdb) ==
  IF disp /\ i = dispatch_idx(s) THEN entry
  ELSE IF i \in busy[s] THEN Snooped(slots[s][i], cdb)
  ELSE slots[s][i]

(* target is the station the dispatch unit writes entry to, if any; ready  *)
(* are the stations whose functional unit accepts an instruction.          *)
StationClock(flush, target, entry, cdb, ready) ==
  LET disp(s)  == s = target /\ ~rs_full_o(s)
      issue(s) == issue_valid_o(s, s \in ready)
  IN \/ /\ flush
        /\ busy' = [s \in Station |-> {}]
        /\ slots' = [s \in Station |-> [i \in Slots(s) |-> ZeroRsEntry]]
     \/ /\ ~flush
        /\ busy' = [s \in Station |->
             (busy[s] \cup (IF disp(s) THEN {dispatch_idx(s)} ELSE {}))
               \ (IF issue(s) THEN {issue_idx(s)} ELSE {})]
        /\ slots' = [s \in Station |-> [i \in Slots(s) |->
             NextSlot(s, i, disp(s), entry, cdb)]]
=============================================================================
