SPECIFICATION FairSpec
CONSTANTS
    s1 = s1  s2 = s2
    Subnets <- TwoSubnets
    MaxServices = 2  MaxEndpoints = 2
    MaxFaults = 1
INVARIANT OneEndpoint
PROPERTIES ServiceFinalizerGuards EndpointFinalizerGuards Connected DeletionCompletes
CHECK_DEADLOCK FALSE
