SPECIFICATION FairSpec
CONSTANTS
    c1 = c1  c2 = c2  c3 = c3
    Clusters = {c1, c2}
    NewClusters = {c1}
    Classes <- TwoClasses
    StartInput <- Small
    Inputs <- AllInputs
    Limit = 1  Window = 2
    Increase = 1  Decrease = 1
    Resync = 3
    StaleReads = TRUE
    MaxChanges = 2  MaxRestarts = 1

INVARIANTS LabelNotForgotten 
PROPERTIES SizeApplied
