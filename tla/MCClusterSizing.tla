--------------------------- MODULE MCClusterSizing ---------------------------
EXTENDS ClusterSizing
CONSTANTS c1, c2, c3   \* clusters

TwoClasses == <<[from |-> 0, to |-> 1], [from |-> 2, to |-> 9]>>

\* A cluster with one NodePool of n replicas.
Nodes(n) == [halted |-> FALSE, override |-> None, autoscaling |-> FALSE, recommended |-> None,
             hccoReports |-> FALSE, hcp |-> Missing, kas |-> TRUE,
             pools |-> <<[autoscaled |-> FALSE, spec |-> n, status |-> 0]>>]
Autoscaled(n, kas) == [Nodes(0) EXCEPT !.kas = kas,
    !.pools = <<[autoscaled |-> TRUE, spec |-> 0, status |-> n], [autoscaled |-> FALSE, spec |-> 1, status |-> 0]>>]
Reported(n) == [Nodes(0) EXCEPT !.hccoReports = TRUE, !.hcp = n]

Small == Nodes(1)
ByCount == {Nodes(1), Nodes(2)}
\* Every source of a size, known and unknown names, a count that cannot be
\* trusted, and a cluster left alone.
AllInputs == {Nodes(1), Reported(2), Autoscaled(1, FALSE), [Nodes(1) EXCEPT !.halted = TRUE],
              [Nodes(1) EXCEPT !.override = 2], [Nodes(1) EXCEPT !.override = 7],
              [Nodes(2) EXCEPT !.autoscaling = TRUE],
              [Nodes(1) EXCEPT !.autoscaling = TRUE, !.recommended = 2]}
=============================================================================
