SPECIFICATION Spec
CONSTANTS
    i1 = i1
    i2 = i2
    t1 = t1
    t2 = t2
    Irps <- TwoIrps
    Threads <- TwoThreads
    Lengths = {0, 1}
    Cancellable <- NoIrp
    HasTimeout = {TRUE, FALSE}
    ReleaseWhileOpen = FALSE
    None = None
SYMMETRY Symmetric
INVARIANT NoLostWakeup
