---------------------------- MODULE NdfCommLibrary ----------------------------
(***************************************************************************)
(* The connections of the kernel library as a whole: how a file object of  *)
(* the message device gets a client (IRP_MJ_CREATE), loses it              *)
(* (IRP_MJ_CLEANUP, IRP_MJ_CLOSE), and what NdfCommRelease does to the     *)
(* clients it finds.  The state is NdfCommGlobals: the rundown reference,  *)
(* the counter ActiveClientsCount with its limit, and ClientList.  What    *)
(* happens on one connection between these events is in NdfCommClient; a   *)
(* file object stands for its client here, and the inside of               *)
(* NdfCommDisconnectClient is the one step from "drain" to the next.       *)
(***************************************************************************)
EXTENDS Integers, Sequences, FiniteSets, SequencesExt, Rundown

CONSTANTS
    Files,       \* the file objects, each opened once
    MaxClients,  \* MaxClientsCount
    LongMax      \* the greatest LONG

ASSUME FilesAssumption == IsFiniteSet(Files)
ASSUME MaxClientsAssumption == LongMax \in Nat /\ MaxClients \in 1..LongMax

VARIABLES
    filePc,         \* progress of the requests of a file object
    outcome,        \* how its IRP_MJ_CREATE ended
    told,           \* calls of DisconnectNotifyCallback for its client
    broken,         \* the clients whose CONNECTION_BROKEN_BIT is set
    activeClients,  \* NdfCommGlobals.ActiveClientsCount
    clientList,     \* NdfCommGlobals.ClientList
    libRundown,     \* NdfCommGlobals.LibraryRundownProtect
    releasePc,      \* progress of NdfCommRelease
    cursor          \* its position in the list

fileVars == <<filePc, outcome, told, broken>>
globals == <<activeClients, clientList, libRundown>>
vars == <<fileVars, globals, releasePc, cursor>>

Init ==
    /\ filePc = [f \in Files |-> "idle"]
    /\ outcome = [f \in Files |-> "none"]
    /\ told = [f \in Files |-> 0]
    /\ broken = {}
    /\ activeClients = 0
    /\ clientList = <<>>
    /\ libRundown = ExInitializeRundownProtection
    /\ releasePc = "idle"
    /\ cursor = 1

-----------------------------------------------------------------------------
Goto(f, label) == filePc' = [filePc EXCEPT ![f] = label]
End(f, result) == outcome' = [outcome EXCEPT ![f] = result]
Tell(f) == told' = [told EXCEPT ![f] = @ + 1]

\* InterlockedIncrement on a LONG.
Increment(n) == IF n = LongMax THEN -LongMax - 1 ELSE n + 1

\* FAULT: the count before the increment is compared.
WithinLimitBefore(n) == n - 1 =< MaxClients

\* The test of the count that InterlockedIncrement returned.
WithinLimit(n) == n =< MaxClients

\* FAULT: the lock is not released.
ListFreeBefore == releasePc \in {"idle", "wait", "lock"}

\* The list lock is free unless NdfCommpDisconnectAllClients goes through it.
ListFree == releasePc \notin {"disconnect", "drain", "notify", "unlock"}

\* FAULT: the first entry is removed, whichever it is.
RemoveHead(l, f) == Tail(l)

\* NdfCommConcurentListRemove.
ListRemove(l, f) == RemoveAt(l, CHOOSE k \in DOMAIN l : l[k] = f)

-----------------------------------------------------------------------------
(***************************************************************************)
(* NdfCommpProcessCreateRequest.  Once the device is deleted nothing is    *)
(* opened any more.                                                        *)
(***************************************************************************)
MayCreate(f) == filePc[f] = "idle" /\ releasePc # "done"

\* The extended attribute is missing or has another name.
CreateInvalid(f) ==
    /\ MayCreate(f)
    /\ End(f, "invalid")
    /\ Goto(f, "failed")
    /\ UNCHANGED <<told, broken, globals, releasePc, cursor>>

CreateRefused(f) ==
    /\ MayCreate(f) /\ ~CanAcquire(libRundown)
    /\ End(f, "refused")
    /\ Goto(f, "failed")
    /\ UNCHANGED <<told, broken, globals, releasePc, cursor>>

CreateEnter(f) ==
    /\ MayCreate(f) /\ CanAcquire(libRundown)
    /\ libRundown' = ExAcquireRundownProtection(libRundown)
    /\ Goto(f, "count")
    /\ UNCHANGED <<outcome, told, broken, activeClients, clientList,
                   releasePc, cursor>>

CreateAdmitted(f) ==
    /\ filePc[f] = "count" /\ WithinLimit(Increment(activeClients))
    /\ activeClients' = Increment(activeClients)
    /\ Goto(f, "make")
    /\ UNCHANGED <<outcome, told, broken, clientList, libRundown, releasePc,
                   cursor>>

\* Over the limit: the increment is not taken back.
CreateLimit(f) ==
    /\ filePc[f] = "count" /\ ~WithinLimit(Increment(activeClients))
    /\ activeClients' = Increment(activeClients)
    /\ End(f, "limit")
    /\ Goto(f, "leave")
    /\ UNCHANGED <<told, broken, clientList, libRundown, releasePc, cursor>>

\* NdfCommCreateClient; when it fails the increment is not taken back either.
CreateNoMemory(f) ==
    /\ filePc[f] = "make"
    /\ End(f, "nomemory")
    /\ Goto(f, "leave")
    /\ UNCHANGED <<told, broken, globals, releasePc, cursor>>

CreateClient(f) ==
    /\ filePc[f] = "make"
    /\ Goto(f, "connect")
    /\ UNCHANGED <<outcome, told, broken, globals, releasePc, cursor>>

\* ConnectNotifyCallback runs in "connect".  When it fails the client is freed.
ConnectRejected(f) ==
    /\ filePc[f] = "connect"
    /\ End(f, "rejected")
    /\ Goto(f, "uncount")
    /\ UNCHANGED <<told, broken, globals, releasePc, cursor>>

\* FAULT: the count is not taken back on this path either.
UncountForgotten(f) ==
    /\ filePc[f] = "uncount"
    /\ Goto(f, "leave")
    /\ UNCHANGED <<outcome, told, broken, globals, releasePc, cursor>>

CreateUncount(f) ==
    /\ filePc[f] = "uncount"
    /\ activeClients' = activeClients - 1
    /\ Goto(f, "leave")
    /\ UNCHANGED <<outcome, told, broken, clientList, libRundown, releasePc,
                   cursor>>

ConnectAccepted(f) ==
    /\ filePc[f] = "connect"
    /\ Goto(f, "add")
    /\ UNCHANGED <<outcome, told, broken, globals, releasePc, cursor>>

\* FileObject->FsContext and the list.
CreateAdd(f) ==
    /\ filePc[f] = "add" /\ ListFree
    /\ clientList' = Append(clientList, f)
    /\ End(f, "connected")
    /\ Goto(f, "leave")
    /\ UNCHANGED <<told, broken, activeClients, libRundown, releasePc, cursor>>

CreateLeave(f) ==
    /\ filePc[f] = "leave"
    /\ libRundown' = ExReleaseRundownProtection(libRundown)
    /\ Goto(f, IF outcome[f] = "connected" THEN "open" ELSE "failed")
    /\ UNCHANGED <<outcome, told, broken, activeClients, clientList,
                   releasePc, cursor>>

-----------------------------------------------------------------------------
(***************************************************************************)
(* NdfCommpProcessCleanupRequest and NdfCommpProcessCloseRequest.          *)
(***************************************************************************)
StartCleanup(f) ==
    /\ filePc[f] = "open"
    /\ Goto(f, "disconnect")
    /\ UNCHANGED <<outcome, told, broken, globals, releasePc, cursor>>

\* NdfCommDisconnectClient: who sets the bit drains the client, the other one
\* does not wait for that.
CleanupDisconnect(f) ==
    /\ filePc[f] = "disconnect"
    /\ broken' = broken \cup {f}
    /\ Goto(f, IF f \in broken THEN "notify" ELSE "drain")
    /\ UNCHANGED <<outcome, told, globals, releasePc, cursor>>

CleanupDrained(f) ==
    /\ filePc[f] = "drain"
    /\ Goto(f, "notify")
    /\ UNCHANGED <<outcome, told, broken, globals, releasePc, cursor>>

CleanupNotify(f) ==
    /\ filePc[f] = "notify" /\ CanAcquire(libRundown)
    /\ libRundown' = ExAcquireRundownProtection(libRundown)
    /\ Tell(f)
    /\ Goto(f, "notifying")
    /\ UNCHANGED <<outcome, broken, activeClients, clientList, releasePc,
                   cursor>>

CleanupNotified(f) ==
    /\ filePc[f] = "notifying"
    /\ libRundown' = ExReleaseRundownProtection(libRundown)
    /\ Goto(f, "told")
    /\ UNCHANGED <<outcome, told, broken, activeClients, clientList,
                   releasePc, cursor>>

\* FAULT: the callback is left out for a client that is already disconnected.
SkipNotifyWhenBroken(f) ==
    /\ filePc[f] = "notify" /\ f \in broken
    /\ Goto(f, "told")
    /\ UNCHANGED <<outcome, told, broken, globals, releasePc, cursor>>

\* The library is being released: the callback is left out.
CleanupSkipNotify(f) ==
    /\ filePc[f] = "notify" /\ ~CanAcquire(libRundown)
    /\ Goto(f, "told")
    /\ UNCHANGED <<outcome, told, broken, globals, releasePc, cursor>>

CleanupUncount(f) ==
    /\ filePc[f] = "told"
    /\ activeClients' = activeClients - 1
    /\ Goto(f, "cleaned")
    /\ UNCHANGED <<outcome, told, broken, clientList, libRundown, releasePc,
                   cursor>>

CloseRequest(f) ==
    /\ filePc[f] = "cleaned" /\ ListFree
    /\ clientList' = ListRemove(clientList, f)
    /\ Goto(f, "closed")
    /\ UNCHANGED <<outcome, told, broken, activeClients, libRundown,
                   releasePc, cursor>>

-----------------------------------------------------------------------------
(***************************************************************************)
(* NdfCommRelease.                                                         *)
(***************************************************************************)
StartRelease ==
    /\ releasePc = "idle"
    /\ libRundown' = BeginRundown(libRundown)
    /\ releasePc' = "wait"
    /\ UNCHANGED <<fileVars, activeClients, clientList, cursor>>

LibraryRundownDone ==
    /\ releasePc = "wait" /\ RundownReleased(libRundown)
    /\ releasePc' = "lock"
    /\ UNCHANGED <<fileVars, globals, cursor>>

\* NdfCommpDisconnectAllClients.
LockClientList ==
    /\ releasePc = "lock"
    /\ releasePc' = IF clientList = <<>> THEN "unlock" ELSE "disconnect"
    /\ UNCHANGED <<fileVars, globals, cursor>>

ReleaseDisconnect ==
    /\ releasePc = "disconnect"
    /\ broken' = broken \cup {clientList[cursor]}
    /\ releasePc' = IF clientList[cursor] \in broken THEN "notify" ELSE "drain"
    /\ UNCHANGED <<filePc, outcome, told, globals, cursor>>

ReleaseDrained ==
    /\ releasePc = "drain"
    /\ releasePc' = "notify"
    /\ UNCHANGED <<fileVars, globals, cursor>>

ReleaseNotify ==
    /\ releasePc = "notify"
    /\ Tell(clientList[cursor])
    /\ releasePc' = IF cursor = Len(clientList) THEN "unlock" ELSE "disconnect"
    /\ cursor' = cursor + 1
    /\ UNCHANGED <<filePc, outcome, broken, globals>>

\* The symbolic link and the device are deleted; the clients stay in the list.
UnlockClientList ==
    /\ releasePc = "unlock"
    /\ releasePc' = "done"
    /\ cursor' = 1
    /\ UNCHANGED <<fileVars, globals>>

-----------------------------------------------------------------------------
CreateStep(f) ==
    CreateAdmitted(f) \/ CreateLimit(f) \/ CreateNoMemory(f)
        \/ CreateClient(f) \/ ConnectRejected(f) \/ CreateUncount(f)
        \/ ConnectAccepted(f) \/ CreateAdd(f) \/ CreateLeave(f)
Create(f) == CreateInvalid(f) \/ CreateRefused(f) \/ CreateEnter(f)
CleanupStep(f) ==
    CleanupDisconnect(f) \/ CleanupDrained(f) \/ CleanupNotify(f)
        \/ CleanupNotified(f) \/ CleanupSkipNotify(f) \/ CleanupUncount(f)
        \/ CloseRequest(f)
ReleaseStep ==
    LibraryRundownDone \/ LockClientList \/ ReleaseDisconnect
        \/ ReleaseDrained \/ ReleaseNotify \/ UnlockClientList

\* Nothing is open, nothing is being opened, the library is released.
Terminated ==
    /\ releasePc = "done"
    /\ \A f \in Files : filePc[f] \in {"idle", "failed", "closed"}
    /\ UNCHANGED vars

Next ==
    \/ \E f \in Files :
          Create(f) \/ CreateStep(f) \/ StartCleanup(f) \/ CleanupStep(f)
    \/ StartRelease \/ ReleaseStep
    \/ Terminated

Spec == Init /\ [][Next]_vars

-----------------------------------------------------------------------------
(***************************************************************************)
(* Safety.                                                                 *)
(***************************************************************************)
InCreate == {"count", "make", "connect", "uncount", "add", "leave"}
InCleanup == {"disconnect", "drain", "notify", "notifying", "told"}
ReleasePc == {"idle", "wait", "lock", "disconnect", "drain", "notify",
              "unlock", "done"}

\* The types of the variables.
TypeOK ==
    /\ filePc \in [Files -> {"idle", "failed", "open", "cleaned", "closed"}
                            \cup InCreate \cup InCleanup]
    /\ outcome \in [Files -> {"none", "invalid", "refused", "limit",
                              "nomemory", "rejected", "connected"}]
    /\ told \in [Files -> Nat]
    /\ broken \subseteq Files
    /\ activeClients \in (-LongMax - 1)..LongMax
    /\ clientList \in Seq(Files)
    /\ libRundown \in RundownRef
    /\ releasePc \in ReleasePc
    /\ cursor \in Nat \ {0}

\* The clients that hold a place among the MaxClients, and the opens that took
\* one and kept it though they failed.
Connected(f) == outcome[f] = "connected" /\ filePc[f] \notin {"cleaned", "closed"}
Admitted(f) == filePc[f] \in {"make", "connect", "uncount", "add"} \/ Connected(f)
Leaked(f) == outcome[f] \in {"limit", "nomemory"}

\* Never more than MaxClients clients are being made or connected at a time,
\* however the opens, closes and failures interleave.
ClientLimit == Cardinality({f \in Files : Admitted(f)}) =< MaxClients

\* ActiveClientsCount is the number of places taken, those of failed opens
\* included: each path through the handlers counts up and down as it should,
\* and the two asserted decrements never go below zero.
CountAccounts ==
    activeClients = Cardinality({f \in Files : Admitted(f) \/ Leaked(f)})

\* ClientList holds every client from the end of its create request until its
\* close request, once each, whichever of them NdfCommRelease goes through.
Listed(f) == outcome[f] = "connected" /\ filePc[f] # "closed"
ListIntegrity ==
    /\ ToSet(clientList) = {f \in Files : Listed(f)}
    /\ \A j, k \in DOMAIN clientList : clientList[j] = clientList[k] => j = k

\* A client is freed only after the driver was told, exactly once, that it is
\* gone, as long as the library is not being released; nobody is ever told of
\* a client the driver did not accept.
ToldOnce ==
    /\ releasePc = "idle" =>
           \A f \in Files : filePc[f] \in {"cleaned", "closed"} => told[f] = 1
    /\ \A f \in Files : told[f] > 0 => outcome[f] = "connected"

\* When NdfCommRelease is past its wait, and so when it returns and the driver
\* goes away, no ConnectNotify callback and no DisconnectNotify callback of a
\* cleanup request is running, nor will one start.
CallbacksOver ==
    releasePc \notin {"idle", "wait"} =>
        \A f \in Files : filePc[f] \notin InCreate \cup {"notifying"}

\* An open is refused for the limit only while MaxClients others hold a place:
\* STATUS_CONNECTION_COUNT_LIMIT says what ActiveClientsCount is named for.
RefusedOnlyWhenFull ==
    [][\A f \in Files :
          outcome[f] = "none" /\ outcome'[f] = "limit" =>
              Cardinality({g \in Files : Admitted(g)}) >= MaxClients]_vars

-----------------------------------------------------------------------------
(***************************************************************************)
(* Liveness: handlers that have begun go on and the driver's callbacks     *)
(* return; nobody has to open, to close or to release.                     *)
(***************************************************************************)
Fairness ==
    /\ \A f \in Files : WF_vars(CreateStep(f)) /\ WF_vars(CleanupStep(f))
    /\ WF_vars(ReleaseStep)
FairSpec == Spec /\ Fairness

\* NdfCommRelease returns: no handler keeps the library's rundown reference,
\* and nobody it waits for waits for the list lock it holds.
ReleaseTerminates == releasePc = "wait" ~> releasePc = "done"

\* An open is always answered and a close always finished, with the library
\* released in the middle or not.
RequestsEnd ==
    \A f \in Files :
        /\ filePc[f] = "count" ~> filePc[f] \in {"open", "failed", "closed"}
        /\ filePc[f] = "disconnect" ~> filePc[f] = "closed"

-----------------------------------------------------------------------------
(***************************************************************************)
(* Refinement.                                                             *)
(***************************************************************************)
Slots == INSTANCE ClientSlots WITH
    Clients <- Files,
    Limit <- MaxClients,
    holders <- {f \in Files : Admitted(f)},
    lost <- {f \in Files : Leaked(f)},
    members <- ToSet(clientList),
    open <- releasePc \in {"idle", "wait"}

\* The library keeps the books of its slots as the abstract specification
\* says: a place is taken only while one is free, an open is refused for the
\* limit only when none is, counting those that failed opens took with them,
\* and NdfCommRelease is past its wait only when no create request is on its
\* way in, after which none gets in.
ImplementsSlots == Slots!Spec
=============================================================================
