SPECIFICATION Spec
CONSTANTS
    n1 = n1  n2 = n2  n3 = n3
    A = A  B = B  C = C
    Nodes = {n1, n2}
    History <- Once
    MaxUnavailable <- Two
    StaleReads = TRUE
    MaxAborts = 0
    MaxDegrades = 1
    NoHash = NoHash
SYMMETRY Symmetry
PROPERTY CompletionSound
