SPECIFICATION FairSpec
CONSTANTS
    n1 = n1  n2 = n2  n3 = n3
    A = A  B = B  C = C
    Nodes = {n1, n2}
    History <- Twice
    MaxUnavailable <- One
    StaleReads = FALSE
    MaxAborts = 1
    MaxDegrades = 0
    NoHash = NoHash
INVARIANTS TypeOK  CompleteMeansUpgraded
PROPERTIES DrainedBeforeUpdate  PodStaysWhileUpdating UpgradeCompletes
