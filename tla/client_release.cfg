SPECIFICATION FairSpec
CONSTANTS
    i1 = i1
    i2 = i2
    t1 = t1
    t2 = t2
    Irps <- TwoIrps
    Threads <- OneThread
    Lengths = {1}
    Cancellable <- OneIrp
    HasTimeout = {TRUE, FALSE}
    ReleaseWhileOpen = TRUE
    None = None
INVARIANTS
    IInv
    NotifyQuiescent
    NotificationsAccounted
PROPERTIES
    ReleaseTerminates
    AgreesWithLibrary
