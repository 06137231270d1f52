SPECIFICATION FairSpec
CONSTANTS
    r1 = r1  r2 = r2
    Half = 3  Grace = 2
    MaxTokens = 8  MaxFailures = 1
    Deployments <- SingleAndPair
  
PROPERTIES ActiveTokenRestored OutdatedTokenRevoked
CHECK_DEADLOCK FALSE
