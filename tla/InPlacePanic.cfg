SPECIFICATION FairSpec
CONSTANTS
    n1 = n1  n2 = n2  n3 = n3
    A = A  B = B  C = C
    Nodes = {n1, n2, n3}
    History <- Once
    MaxUnavailable <- Two
    StaleReads = FALSE
    MaxAborts = 0
    MaxDegrades = 0
    NoHash = NoHash
PROPERTY UpgradeCompletes
