SPECIFICATION FairSpec
CONSTANTS
    Fleets <- FourFleets
INVARIANT LabelIsRecorded
PROPERTIES ServingNodesKept Served Released PlaceholdersYield
CHECK_DEADLOCK FALSE
