----------------------------- MODULE MCRtlLoader ------------------------------
(* Two programs of four words, all different, and four switch positions. *)
EXTENDS RtlLoader

MCLibrary == [p \in 0 .. NUM_PROGRAMS - 1 |-> [w \in Index |-> 11 * p + w]]
=============================================================================
