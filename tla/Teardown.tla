------------------------------- MODULE Teardown -------------------------------
(***************************************************************************)
(* What the deletion of a hosted cluster promises, whoever does the work:  *)
(* once it is requested its parts go away one by one, no part before the   *)
(* parts that need it, and in the end nothing is left.                     *)
(***************************************************************************)
CONSTANTS Parts,   \* the parts of a hosted cluster
          Needs    \* Needs[p]: the parts that p must outlive

VARIABLES requested,   \* the deletion is requested
          gone         \* the parts that are gone

vars == <<requested, gone>>

Init ==
    /\ requested = FALSE
    /\ gone \in SUBSET Parts
    /\ \A p \in gone : Needs[p] \subseteq gone

Request ==
    /\ ~ requested
    /\ requested' = TRUE
    /\ UNCHANGED gone

Remove(p) ==
    /\ requested
    /\ p \notin gone
    /\ Needs[p] \subseteq gone
    /\ gone' = gone \cup {p}
    /\ UNCHANGED requested

Next == Request \/ \E p \in Parts : Remove(p)

\* The order in which the parts go.
InOrder == Init /\ [][Next]_vars

Completes == requested ~> gone = Parts

Spec == InOrder /\ Completes
=============================================================================
