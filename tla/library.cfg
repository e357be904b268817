SPECIFICATION FairSpec
CONSTANTS
    f1 = f1
    f2 = f2
    f3 = f3
    Files <- ThreeFiles
    MaxClients = 2
    LongMax = 127
INVARIANTS
    TypeOK
    ClientLimit
    CountAccounts
    ListIntegrity
    ToldOnce
    CallbacksOver
PROPERTIES
    ReleaseTerminates
    RequestsEnd
    ImplementsSlots
