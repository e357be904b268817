SPECIFICATION Spec
CONSTANTS
    Factor = 3
    LowRange = 16
    Delays = {0, 1, 2, 5, 6}
    Absolute = {0, 4}
    MaxLag = 2
    MaxTime = 24
INVARIANTS
    TypeOK
    TimeoutNotEarly
    NoDrift
