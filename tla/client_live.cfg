SPECIFICATION FairSpec
CONSTANTS
    i1 = i1
    i2 = i2
    t1 = t1
    t2 = t2
    Irps <- OneIrp
    Threads <- TwoThreads
    Lengths = {1}
    Cancellable <- OneIrp
    HasTimeout = {TRUE, FALSE}
    ReleaseWhileOpen = FALSE
    None = None
PROPERTIES
    CleanupTerminates
    CancelCompletes
    TimedSendReturns
