SPECIFICATION Spec
CONSTANTS
    r1 = r1
    r2 = r2
    Requests <- TwoRequests
    NameLengths = {7, 40, 41, 42, 45, 46}
INVARIANT FailureKeepsNoDevice
