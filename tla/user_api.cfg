SPECIFICATION Spec
CONSTANTS
    t1 = t1
    t2 = t2
    t3 = t3
    Threads <- ThreeThreads
    MaxCalls = 2
    NameLengths = {7, 40, 41, 42}
    Null = Null
SYMMETRY Symmetric
INVARIANTS
    TypeOK
    NoNullCall
    OneVerdict
    HandleIffSuccess
    OpenedNameExists
