SPECIFICATION Spec
CONSTANTS
    a1 = a1
    a2 = a2
    a3 = a3
    Apps <- TwoApps
    Overlap = FALSE
    MaxFailures = 0
    MaxKills = 1
PROPERTY ReinstallSucceeds
