-------------------------- MODULE MCInPlaceUpgrade --------------------------
(* Small instances of InPlaceUpgrade for TLC. *)
EXTENDS InPlaceUpgrade, TLC

CONSTANTS n1, n2, n3, A, B, C

Once == <<A, B>>
Twice == <<A, B, C>>
Back == <<A, B, A>>

One == [percent |-> FALSE, value |-> 1, replicas |-> 2]
Two == [percent |-> FALSE, value |-> 2, replicas |-> 3]
Half == [percent |-> TRUE, value |-> 50, replicas |-> 3]

Symmetry == Permutations(Nodes)
=============================================================================
