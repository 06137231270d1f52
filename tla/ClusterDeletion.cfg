SPECIFICATION FairSpec
CONSTANTS
    n1 = n1  n2 = n2
    NodePools <- OneNodePool
    MaxCleanupFailures = 2
    DestroyGrace = TRUE
    MaxFaults = 1
   
PROPERTIES  ImplementsTeardown TeardownCompletes
CHECK_DEADLOCK FALSE
