-------------------------- MODULE MCIgnitionTokens --------------------------
EXTENDS IgnitionTokens
CONSTANTS r1, r2   \* replicas of the ignition server

\* One replica that restarts, and two that rotate and expire the same Secret.
Single == [replicas |-> {r1}, platform |-> "AWS", time |-> 10, roles |-> 2, restarts |-> 1]
Pair == [replicas |-> {r1, r2}, platform |-> "other", time |-> 8, roles |-> 1, restarts |-> 0]
SingleAndPair == {Single, Pair}

\* One replica and a NodePool that never changes.
Still == {[Single EXCEPT !.time = 6, !.roles = 0, !.restarts = 0]}
=============================================================================
