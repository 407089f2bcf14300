----------------------------- MODULE RetireQueue -----------------------------
(***************************************************************************)
(* What the reorder buffer promises: a bounded queue of instructions in    *)
(* program order, completed in any order and retired from the front.       *)
(***************************************************************************)
EXTENDS Naturals, Sequences

CONSTANTS Size, Info, Value, NoValue

VARIABLE queue   \* oldest first: [state, info, result]

Enter(info) ==
  /\ Len(queue) < Size
  /\ queue' = Append(queue, [state |-> "IN_FLIGHT", info |-> info,
                             result |-> NoValue])

Complete(k, value) ==
  /\ queue[k].state = "IN_FLIGHT"
  /\ queue' = [queue EXCEPT ![k] =
                 [state |-> "DONE", info |-> @.info, result |-> value]]

Retire ==
  /\ queue # << >>
  /\ Head(queue).state = "DONE"
  /\ queue' = Tail(queue)

Discard == queue' = << >>

Init == queue = << >>

Next ==
  \/ \E info \in Info : Enter(info)
  \/ \E k \in DOMAIN queue, value \in Value : Complete(k, value)
  \/ Retire
  \/ Discard

Spec == Init /\ [][Next]_queue
=============================================================================
