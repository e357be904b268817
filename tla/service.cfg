SPECIFICATION FairSpec
CONSTANTS
    a1 = a1
    a2 = a2
    a3 = a3
    Apps <- ThreeApps
    Overlap = TRUE
    MaxFailures = 1
    MaxKills = 1
INVARIANTS
    TypeOK
    StopNotHeldBySelf
    TogetherLeaveNothing
PROPERTIES
    CleanRunLeavesNothing
    DeletionCompletes
