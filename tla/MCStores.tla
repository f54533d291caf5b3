----------------------------- MODULE MCStores -----------------------------
(* Three processes on the stores. *)
EXTENDS Stores, TLC

CONSTANTS p1, p2, p3

\* Two outcomes that are short of each threshold of the ladder.
Near == { [n |-> 2, good |-> 2], [n |-> 9, good |-> 7], [n |-> 18, good |-> 15] }

\* Processes are told apart by nothing but what they do.
Alike == Permutations(Process)
=============================================================================
