SPECIFICATION Spec
CONSTANTS
    i1 = i1
    i2 = i2
    t1 = t1
    t2 = t2
    Irps <- TwoIrps
    Threads <- TwoThreads
    Lengths = {0, 1}
    Cancellable <- TwoIrps
    HasTimeout = {TRUE}
    ReleaseWhileOpen = FALSE
    None = None
SYMMETRY Symmetric
INVARIANTS
    CompletedOnce
    QueueIntegrity
    NoStrandedIrp
    NoUseAfterFree
    SendOutcome
    WakeupsKept
PROPERTY ImplementsChannel
