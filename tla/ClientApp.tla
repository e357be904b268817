------------------------------- MODULE ClientApp -------------------------------
(***************************************************************************)
(* The client application: main, StartLegacyDriver and StopLegacyDriver,   *)
(* with the functions of WinSvcSup.cpp they call.  Processes that run it   *)
(* meet at the service control manager.  An action is one call to the      *)
(* manager or to the driver, with what the process does until its next     *)
(* one.  Any call may fail; a process may be killed between two of them.   *)
(***************************************************************************)
EXTENDS Naturals, FiniteSets, ServiceManager

CONSTANTS
    Apps,         \* the processes, each runs once
    Overlap,      \* may two of them run at the same time?
    MaxFailures,  \* bound on the calls that fail for no reason of the model
    MaxKills      \* bound on the processes that are killed

ASSUME AppsAssumption == IsFiniteSet(Apps) /\ Overlap \in BOOLEAN
ASSUME MishapsAssumption == MaxFailures \in Nat /\ MaxKills \in Nat

VARIABLES
    svc,       \* the entry of the driver's service
    pc,        \* the next call of a process
    phase,     \* is it in StartLegacyDriver or in StopLegacyDriver?
    clean,     \* has no call failed on it, and nobody else run beside it?
    failures,
    kills

vars == <<svc, pc, phase, clean, failures, kills>>

NotStarted == {"idle"}
Over == {"ended", "killed"}
Running(a) == pc[a] \notin NotStarted \cup Over

Init ==
    /\ svc = NoEntry(Apps)
    /\ pc = [a \in Apps |-> "idle"]
    /\ phase = [a \in Apps |-> "install"]
    /\ clean = [a \in Apps |-> TRUE]
    /\ failures = 0
    /\ kills = 0

-----------------------------------------------------------------------------
Goto(a, label) == pc' = [pc EXCEPT ![a] = label]
Keep == UNCHANGED <<phase, clean, failures, kills>>

\* A call of process a fails, and main goes on at label.
Fail(a, label) ==
    /\ failures < MaxFailures
    /\ failures' = failures + 1
    /\ clean' = [clean EXCEPT ![a] = FALSE]
    /\ Goto(a, label)
    /\ UNCHANGED <<phase, kills>>

Launch(a) ==
    /\ pc[a] = "idle"
    /\ Overlap \/ \A b \in Apps : ~Running(b)
    /\ Goto(a, "privileges")
    /\ clean' = [b \in Apps |->
                    clean[b] /\ (b = a => \A c \in Apps : ~Running(c))
                             /\ (b # a => ~Running(b))]
    /\ UNCHANGED <<svc, phase, failures, kills>>

AdjustPrivileges(a) ==
    /\ pc[a] = "privileges"
    /\ UNCHANGED svc
    /\ \/ Goto(a, "isrunning") /\ Keep
       \/ Fail(a, "exit")

-----------------------------------------------------------------------------
(***************************************************************************)
(* WinSvcIsRunning.  Its callers look at whether it could ask at all, not  *)
(* at the answer: they take any failure for "not installed".               *)
(***************************************************************************)
NotInstalled(a) == IF phase[a] = "install" THEN "path" ELSE "exit"

IsRunningOpen(a) ==
    /\ pc[a] = "isrunning"
    /\ \/ /\ svc.registered
          /\ svc' = HandleOpened(svc, a)
          /\ Goto(a, "query") /\ Keep
       \/ /\ ~svc.registered
          /\ Goto(a, NotInstalled(a)) /\ UNCHANGED svc /\ Keep
       \/ Fail(a, NotInstalled(a)) /\ UNCHANGED svc

IsRunningQuery(a) ==
    /\ pc[a] = "query"
    /\ UNCHANGED svc
    /\ \/ Goto(a, "answered") /\ Keep
       \/ Fail(a, "unanswered")

IsRunningClose(a) ==
    /\ svc' = HandleClosed(svc, a)
    /\ \/ pc[a] = "answered" /\ Goto(a, "delete")
       \/ pc[a] = "unanswered" /\ Goto(a, NotInstalled(a))
    /\ Keep

-----------------------------------------------------------------------------
(***************************************************************************)
(* WinSvcDelete.  It never closes the handle it opens.                     *)
(***************************************************************************)
Deleted(a) == IF phase[a] = "install" THEN "path" ELSE "exit"
NotDeleted(a) == IF phase[a] = "install" THEN "pause" ELSE "exit"

DeleteOpen(a) ==
    /\ pc[a] = "delete"
    /\ \/ /\ svc.registered
          /\ svc' = HandleOpened(svc, a)
          /\ Goto(a, "control") /\ Keep
       \/ /\ ~svc.registered
          /\ Goto(a, NotDeleted(a)) /\ UNCHANGED svc /\ Keep
       \/ Fail(a, NotDeleted(a)) /\ UNCHANGED svc

\* FAULT: a service that is stopped already is not deleted.
ControlStopOnly(a) ==
    /\ pc[a] = "control"
    /\ \/ /\ svc.driver = "running"
          /\ svc' = Stopped(svc)
          /\ Goto(a, "mark") /\ Keep
       \/ /\ svc.driver # "running"
          /\ Goto(a, NotDeleted(a)) /\ UNCHANGED svc /\ Keep
       \/ Fail(a, NotDeleted(a)) /\ UNCHANGED svc

\* FAULT: a driver that is told to stop is not deleted.
ControlStopKeepsEntry(a) ==
    /\ pc[a] = "control"
    /\ \/ /\ svc.driver = "running"
          /\ svc' = Stopped(svc)
          /\ Goto(a, NotDeleted(a)) /\ Keep
       \/ /\ svc.driver = "stopped"
          /\ Goto(a, "mark") /\ UNCHANGED svc /\ Keep
       \/ /\ svc.driver = "stopping"
          /\ Goto(a, NotDeleted(a)) /\ UNCHANGED svc /\ Keep
       \/ /\ \E label \in {"mark", NotDeleted(a)} : Fail(a, label)
          /\ UNCHANGED svc

\* ControlService(SERVICE_CONTROL_STOP).  When it fails because the service is
\* not running, svcStatus tells its state; when it fails for another reason,
\* svcStatus is read as it is, uninitialised.
ControlStop(a) ==
    /\ pc[a] = "control"
    /\ \/ /\ svc.driver = "running"
          /\ svc' = Stopped(svc)
          /\ Goto(a, "mark") /\ Keep
       \/ /\ svc.driver = "stopped"
          /\ Goto(a, "mark") /\ UNCHANGED svc /\ Keep
       \/ /\ svc.driver = "stopping"
          /\ Goto(a, NotDeleted(a)) /\ UNCHANGED svc /\ Keep
       \/ /\ \E label \in {"mark", NotDeleted(a)} : Fail(a, label)
          /\ UNCHANGED svc

\* FAULT: WinSvcDelete waits until the entry is gone, with its handle open.
DeleteMarkWaits(a) ==
    /\ pc[a] = "mark"
    /\ \/ /\ ~svc.marked /\ svc.registered
          /\ svc' = Marked(svc)
          /\ UNCHANGED pc /\ Keep
       \/ /\ svc.marked
          /\ UNCHANGED vars
       \/ /\ ~svc.registered
          /\ Goto(a, Deleted(a)) /\ UNCHANGED svc /\ Keep

\* DeleteService fails for an entry that is marked already.
DeleteMark(a) ==
    /\ pc[a] = "mark"
    /\ \/ /\ ~svc.marked
          /\ svc' = Marked(svc)
          /\ Goto(a, Deleted(a)) /\ Keep
       \/ /\ svc.marked
          /\ Goto(a, NotDeleted(a)) /\ UNCHANGED svc /\ Keep
       \/ Fail(a, NotDeleted(a)) /\ UNCHANGED svc

-----------------------------------------------------------------------------
(***************************************************************************)
(* StartLegacyDriver: the path of the driver's file, WinSvcCreate and      *)
(* WinSvcStart, which leaves its handle open too.                          *)
(***************************************************************************)
BuildPath(a) ==
    /\ pc[a] = "path"
    /\ UNCHANGED svc
    /\ \/ Goto(a, "create") /\ Keep
       \/ Fail(a, "pause")

CreateService(a) ==
    /\ pc[a] = "create"
    /\ \/ /\ ~svc.registered
          /\ svc' = HandleOpened(Registered(svc), a)
          /\ Goto(a, "created") /\ Keep
       \/ /\ svc.registered
          /\ Goto(a, "pause") /\ UNCHANGED svc /\ Keep
       \/ Fail(a, "pause") /\ UNCHANGED svc

\* FAULT: the handle is closed twice.
CreateCloseTwice(a) ==
    /\ pc[a] = "created"
    /\ svc' = HandleClosed(HandleClosed(svc, a), a)
    /\ Goto(a, "open") /\ Keep

CreateClose(a) ==
    /\ pc[a] = "created"
    /\ svc' = HandleClosed(svc, a)
    /\ Goto(a, "open") /\ Keep

StartOpen(a) ==
    /\ pc[a] = "open"
    /\ \/ /\ svc.registered
          /\ svc' = HandleOpened(svc, a)
          /\ Goto(a, "start") /\ Keep
       \/ /\ ~svc.registered
          /\ Goto(a, "pause") /\ UNCHANGED svc /\ Keep
       \/ Fail(a, "pause") /\ UNCHANGED svc

StartService(a) ==
    /\ pc[a] = "start"
    /\ \/ /\ MayStart(svc)
          /\ svc' = Started(svc)
          /\ Goto(a, "connect") /\ Keep
       \/ /\ ~MayStart(svc)
          /\ Goto(a, "pause") /\ UNCHANGED svc /\ Keep
       \/ Fail(a, "pause") /\ UNCHANGED svc

-----------------------------------------------------------------------------
(***************************************************************************)
(* main: the connection, of which the driver admits one, the exchange of   *)
(* messages, and the end.                                                  *)
(***************************************************************************)
\* NdfCommConnectClient of the driver, for at most one client.  An open that is
\* refused, or whose client cannot be allocated, keeps the place it counted
\* until the driver is loaded again.
MayConnect == svc.driver = "running" /\ svc.files = {} /\ ~svc.full
PlaceTaken == svc.driver = "running" /\ svc' = PlaceKept(svc)

Connect(a) ==
    /\ pc[a] = "connect"
    /\ \/ /\ MayConnect
          /\ svc' = FileOpened(svc, a)
          /\ Goto(a, "talk") /\ Keep
       \/ /\ ~MayConnect
          /\ PlaceTaken \/ (svc.driver # "running" /\ UNCHANGED svc)
          /\ Goto(a, "pause") /\ Keep
       \/ Fail(a, "pause") /\ (PlaceTaken \/ UNCHANGED svc)

\* A get-message request, a send, and a look at whether the first was
\* answered; whatever they return main goes on.
Talk(a) ==
    /\ pc[a] = "talk"
    /\ Goto(a, "pause") /\ UNCHANGED svc /\ Keep

\* FAULT: the connection is left to the end of the process.
PauseKeepsConnection(a) ==
    /\ pc[a] = "pause"
    /\ phase' = [phase EXCEPT ![a] = "remove"]
    /\ Goto(a, "isrunning")
    /\ UNCHANGED <<svc, clean, failures, kills>>

\* The user presses a key; the connection is closed before the driver is
\* stopped.
Pause(a) ==
    /\ pc[a] = "pause"
    /\ svc' = IF a \in svc.files THEN FileClosed(svc, a) ELSE svc
    /\ phase' = [phase EXCEPT ![a] = "remove"]
    /\ Goto(a, "isrunning")
    /\ UNCHANGED <<clean, failures, kills>>

Exit(a) ==
    /\ pc[a] = "exit"
    /\ svc' = ProcessGone(svc, a)
    /\ Goto(a, "ended") /\ Keep

Kill(a) ==
    /\ Running(a) /\ kills < MaxKills
    /\ svc' = ProcessGone(svc, a)
    /\ kills' = kills + 1
    /\ Goto(a, "killed")
    /\ UNCHANGED <<phase, clean, failures>>

-----------------------------------------------------------------------------
WinSvcIsRunning(a) ==
    IsRunningOpen(a) \/ IsRunningQuery(a) \/ IsRunningClose(a)
WinSvcDelete(a) == DeleteOpen(a) \/ ControlStop(a) \/ DeleteMark(a)
StartLegacyDriver(a) ==
    BuildPath(a) \/ CreateService(a) \/ CreateClose(a) \/ StartOpen(a)
        \/ StartService(a)
Main(a) ==
    AdjustPrivileges(a) \/ WinSvcIsRunning(a) \/ WinSvcDelete(a)
        \/ StartLegacyDriver(a) \/ Connect(a) \/ Talk(a) \/ Pause(a) \/ Exit(a)

Terminated ==
    /\ \A a \in Apps : ~Running(a)
    /\ UNCHANGED vars

Next ==
    \/ \E a \in Apps : Launch(a) \/ Main(a) \/ Kill(a)
    \/ Terminated

Spec == Init /\ [][Next]_vars

\* A process that was started goes on to its end, the user presses the key;
\* nobody has to start or to kill one.
Fairness == \A a \in Apps : WF_vars(Main(a))
FairSpec == Spec /\ Fairness

-----------------------------------------------------------------------------
\* The types of the variables.
TypeOK ==
    /\ svc \in Entry(Apps)
    /\ pc \in [Apps -> {"idle", "privileges", "isrunning", "query", "answered",
                        "unanswered", "delete", "control", "mark", "path",
                        "create", "created", "open", "start", "connect",
                        "talk", "pause", "exit", "ended", "killed"}]
    /\ phase \in [Apps -> {"install", "remove"}]
    /\ clean \in [Apps -> BOOLEAN]
    /\ failures \in 0 .. MaxFailures
    /\ kills \in 0 .. MaxKills

\* A process never holds up the unloading of the driver with a connection of
\* its own: when the driver waits to be unloaded, it waits for a process that
\* has still to come to the end of its pause, where it closes its connection.
StopNotHeldBySelf ==
    svc.driver = "stopping" =>
        \E a \in svc.files : Running(a) /\ phase[a] = "install"

\* One undisturbed run of the application, however earlier ones ended (killed
\* between any two calls, or in each other's way), leaves no service entry and
\* no loaded driver behind when its process is gone.
CleanRunLeavesNothing ==
    [][\A a \in Apps :
          pc[a] = "exit" /\ pc'[a] = "ended" /\ clean[a] =>
              ~svc'.registered /\ svc'.driver = "stopped"]_vars

\* Processes that get into each other's way, with no call failing and none
\* killed, leave nothing behind either, when the last one has ended.
TogetherLeaveNothing ==
    (failures = 0 /\ kills = 0 /\ \A a \in Apps : ~Running(a)) =>
        ~svc.registered /\ svc.driver = "stopped"

\* What is marked for deletion is deleted, if no call fails and no process is
\* killed: the handles that WinSvcDelete and WinSvcStart leave open put it off
\* to the end of the processes, not for ever.
DeletionCompletes ==
    (svc.marked /\ failures = 0 /\ kills = 0) ~>
        (~svc.marked \/ failures > 0 \/ kills > 0)

\* "The driver already installed. Reinstalling...": in an undisturbed run the
\* installation that follows the deletion succeeds.
ReinstallSucceeds ==
    [][\A a \in Apps :
          pc[a] = "create" /\ pc'[a] = "pause" => ~clean[a]]_vars
=============================================================================
