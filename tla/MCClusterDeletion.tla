-------------------------- MODULE MCClusterDeletion --------------------------
EXTENDS ClusterDeletion
CONSTANTS n1, n2   \* NodePools
OneNodePool == {n1}
TwoNodePools == {n1, n2}
=============================================================================
