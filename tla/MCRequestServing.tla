-------------------------- MODULE MCRequestServing --------------------------
EXTENDS RequestServing

Fleet(pairs, sizes, pool, clusters, deleted, resized, shrunk, faulty) ==
    [pairs |-> pairs, sizes |-> sizes, clusters |-> clusters, deleted |-> deleted,
     resizes |-> resized, shrinks |-> shrunk, faults |-> faulty,
     wanted |-> [s \in {sizes[i] : i \in DOMAIN sizes} |-> IF s = "small" THEN pool ELSE 0]]

\* Two clusters compete for two pairs, one of which a placeholder keeps warm.
Competition == Fleet({1, 2}, <<"small">>, 1, {"c1", "c2"}, {}, 0, FALSE, 0)

\* One cluster is resized within its pair, and one pass fails or one Node is lost.
Resizing == Fleet({1}, <<"small", "large">>, 0, {"c1"}, {}, 1, FALSE, 1)

\* A second cluster waits for the only pair, which the first may give up at any time.
Succession == Fleet({1}, <<"small">>, 1, {"c1", "c2"}, {"c1"}, 0, FALSE, 0)

\* A cluster comes and goes while its placeholders are given up, with one fault.
Shrinking == Fleet({1}, <<"small">>, 1, {"c1"}, {"c1"}, 0, TRUE, 1)

FourFleets == {Competition, Resizing, Succession, Shrinking}
=============================================================================
