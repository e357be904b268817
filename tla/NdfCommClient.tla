---------------------------- MODULE NdfCommClient ----------------------------
(***************************************************************************)
(* One connection of the kernel library: the NDFCOMM_CLIENT object, its    *)
(* queue of pended NDFCOMM_GET_MESSAGE requests (a cancel-safe queue,      *)
(* IO_CSQ), and the threads that meet there:                               *)
(*                                                                         *)
(*   - user threads that issue a get-message request (an IRP),             *)
(*   - whoever cancels such a request,                                     *)
(*   - threads that send a message to the user (NdfCommSendMessage): the   *)
(*     driver's own threads, and user threads inside the MessageNotify     *)
(*     callback of their own NDFCOMM_SEND_MESSAGE request,                 *)
(*   - the IRP_MJ_CLEANUP and IRP_MJ_CLOSE handlers of the file object,    *)
(*   - NdfCommRelease, which disconnects every client.                     *)
(*                                                                         *)
(* The connection exists from the first state on: NdfCommLibrary models    *)
(* how it is made.  An action is the code between two points where another *)
(* thread's steps can be told apart; a section of code under the queue     *)
(* lock is one action unless the semaphore or the rundown reference shows  *)
(* its middle to others.                                                   *)
(***************************************************************************)
EXTENDS Naturals, Sequences, FiniteSets, SequencesExt, Rundown

CONSTANTS
    Irps,              \* the get-message requests the user issues, each once
    Threads,           \* the threads that send, each one message
    Lengths,           \* the lengths of output buffers and of messages
    Cancellable,       \* the requests that someone may cancel
    HasTimeout,        \* what there is: sends with a timeout, without one
    ReleaseWhileOpen,  \* may NdfCommRelease run while the file is open?
    None

ASSUME FiniteAssumption == IsFiniteSet(Irps) /\ IsFiniteSet(Threads)
ASSUME LengthsAssumption == Lengths \subseteq Nat
ASSUME CancellableAssumption == Cancellable \subseteq Irps
ASSUME NoneAssumption == None \notin Irps \cup Threads
ASSUME TimeoutAssumption == HasTimeout \subseteq BOOLEAN
ASSUME ReleaseAssumption == ReleaseWhileOpen \in BOOLEAN

VARIABLES
    \* the requests
    irpPc,          \* progress of a request through the library
    irpLen,         \* its Parameters.DeviceIoControl.OutputBufferLength
    cancel,         \* Irp->Cancel
    cancelRoutine,  \* is Irp->CancelRoutine set?
    cancelPc,       \* progress of the cancellation of a queued request
    completions,    \* how often IoCompleteRequest was called for it
    irpStatus,      \* the status it was last completed with
    irpMsg,         \* the thread whose message was copied into it
    \* NDFCOMM_PENDED_IRP_QUEUE
    queue,          \* IrpList
    semaphore,      \* Semaphore
    queueLock,      \* IrpList.Lock: the request whose insertion holds it
    \* the sending threads
    pc,
    msgLen,         \* InputBufferLength of the message
    timed,          \* was a Timeout given?
    held,           \* the request taken from the queue
    status,         \* the status NdfCommSendMessage returns
    inCallback,     \* inside the MessageNotify callback?
    \* the rest of NDFCOMM_CLIENT
    client,         \* RundownProtect
    disconnectEvent,
    broken,         \* NDFCOMM_CLIENT_STATE_CONNECTION_BROKEN_BIT of State
    \* the library and the driver
    libRundown,     \* NdfCommGlobals.LibraryRundownProtect
    notified,       \* calls of DisconnectNotifyCallback for this client
    disc            \* progress of the two callers of NdfCommDisconnectClient

irpVars == <<irpPc, irpLen, cancel, cancelRoutine, cancelPc, completions,
             irpStatus, irpMsg>>
queueVars == <<queue, semaphore, queueLock>>
threadVars == <<pc, msgLen, timed, held, status, inCallback>>
discVars == <<disconnectEvent, broken, libRundown, notified, disc>>
vars == <<irpVars, queueVars, threadVars, client, discVars>>

-----------------------------------------------------------------------------
Disconnectors == {"cleanup", "release"}

\* The program counters inside NdfCommDisconnectClient.
InDisconnect == {"signal", "begin", "wait", "drain"}
CleanupPc == {"idle", "disconnect", "notify", "notifying", "told", "cleaned",
              "closed"} \cup InDisconnect
ReleasePc == {"idle", "libwait", "lock", "disconnect", "notify", "notifying",
              "unlock", "done"} \cup InDisconnect
\* The program counters inside NdfCommSendMessage, after the acquisition.
InSend == {"wait", "dequeue", "complete", "leave"}

Cleaning == disc["cleanup"] # "idle"
Closed == disc["cleanup"] = "closed"

\* The list lock of NdfCommGlobals.ClientList is held by NdfCommRelease.
ListLocked ==
    disc["release"] \in InDisconnect \cup {"disconnect", "notify", "notifying",
                                          "unlock"}

Init ==
    /\ irpPc = [i \in Irps |-> "idle"]
    /\ irpLen = [i \in Irps |-> 0]
    /\ cancel = [i \in Irps |-> FALSE]
    /\ cancelRoutine = [i \in Irps |-> FALSE]
    /\ cancelPc = [i \in Irps |-> "none"]
    /\ completions = [i \in Irps |-> 0]
    /\ irpStatus = [i \in Irps |-> "pending"]
    /\ irpMsg = [i \in Irps |-> None]
    /\ queue = <<>>
    /\ semaphore = 0
    /\ queueLock = None
    /\ pc = [t \in Threads |-> "idle"]
    /\ msgLen = [t \in Threads |-> 0]
    /\ timed = [t \in Threads |-> FALSE]
    /\ held = [t \in Threads |-> None]
    /\ status = [t \in Threads |-> "none"]
    /\ inCallback = [t \in Threads |-> FALSE]
    /\ client = ExInitializeRundownProtection
    /\ disconnectEvent = FALSE
    /\ broken = FALSE
    /\ libRundown = ExInitializeRundownProtection
    /\ notified = 0
    /\ disc = [d \in Disconnectors |-> "idle"]

-----------------------------------------------------------------------------
(***************************************************************************)
(* Requests: NdfCommpEnqueueGetMessageIrp, that is IoCsqInsertIrpEx with   *)
(* the library's callbacks.                                                *)
(***************************************************************************)
\* FAULT: NdfCommpRemoveIrp leaves the request in the list.
StayLinked(q, i) == q

\* NdfCommpRemoveIrp: unlink a request wherever it is in the list.
Unlink(q, i) ==
    IF i \in ToSet(q)
    THEN RemoveAt(q, CHOOSE k \in DOMAIN q : q[k] = i)
    ELSE q

\* NdfCommCompleteIrp on a get-message request.
Complete(i, st) ==
    /\ completions' = [completions EXCEPT ![i] = @ + 1]
    /\ irpStatus' = [irpStatus EXCEPT ![i] = st]

\* DeviceIoControl(NDFCOMM_GET_MESSAGE) with a buffer of length n; the handle
\* is still open, so IRP_MJ_CLEANUP has not been sent.
Issue(i, n) ==
    /\ irpPc[i] = "idle" /\ ~Cleaning
    /\ irpPc' = [irpPc EXCEPT ![i] = "insert"]
    /\ irpLen' = [irpLen EXCEPT ![i] = n]
    /\ UNCHANGED <<cancel, cancelRoutine, cancelPc, completions, irpStatus,
                   irpMsg, queueVars, threadVars, client, discVars>>

\* Under the queue lock NdfCommpInsertIrp acquires the client ...
InsertAcquire(i) ==
    /\ irpPc[i] = "insert" /\ queueLock = None
    /\ CanAcquire(client)
    /\ client' = ExAcquireRundownProtection(client)
    /\ queueLock' = i
    /\ irpPc' = [irpPc EXCEPT ![i] = "locked"]
    /\ UNCHANGED <<irpLen, cancel, cancelRoutine, cancelPc, completions,
                   irpStatus, irpMsg, queue, semaphore, threadVars, discVars>>

\* ... or fails with STATUS_PORT_DISCONNECTED, with which the dispatch
\* routine completes the request.
InsertRefused(i) ==
    /\ irpPc[i] = "insert" /\ queueLock = None
    /\ ~CanAcquire(client)
    /\ irpPc' = [irpPc EXCEPT ![i] = "refused"]
    /\ Complete(i, "disconnected")
    /\ UNCHANGED <<irpLen, cancel, cancelRoutine, cancelPc, irpMsg, queueVars,
                   threadVars, client, discVars>>

\* FAULT: the insertion does not release the semaphore.
InsertAddSilent(i) ==
    /\ irpPc[i] = "locked"
    /\ queue' = Append(queue, i)
    /\ client' = ExReleaseRundownProtection(client)
    /\ irpPc' = [irpPc EXCEPT ![i] = "added"]
    /\ UNCHANGED <<irpLen, cancel, cancelRoutine, cancelPc, completions,
                   irpStatus, irpMsg, semaphore, queueLock, threadVars,
                   discVars>>

\* It appends the request, releases the semaphore and the client.
InsertAdd(i) ==
    /\ irpPc[i] = "locked"
    /\ queue' = Append(queue, i)
    /\ semaphore' = semaphore + 1
    /\ client' = ExReleaseRundownProtection(client)
    /\ irpPc' = [irpPc EXCEPT ![i] = "added"]
    /\ UNCHANGED <<irpLen, cancel, cancelRoutine, cancelPc, completions,
                   irpStatus, irpMsg, queueLock, threadVars, discVars>>

\* IoCsqInsertIrpEx sets the cancel routine.  A request that was cancelled
\* before that is taken out again and completed here.
InsertFinish(i) ==
    /\ irpPc[i] = "added"
    /\ queueLock' = None
    /\ irpPc' = [irpPc EXCEPT ![i] = "pended"]
    /\ IF cancel[i]
       THEN /\ queue' = Unlink(queue, i)
            /\ cancelPc' = [cancelPc EXCEPT ![i] = "complete"]
            /\ UNCHANGED cancelRoutine
       ELSE /\ cancelRoutine' = [cancelRoutine EXCEPT ![i] = TRUE]
            /\ UNCHANGED <<queue, cancelPc>>
    /\ UNCHANGED <<irpLen, cancel, completions, irpStatus, irpMsg, semaphore,
                   threadVars, client, discVars>>

\* IoCancelIrp: sets Irp->Cancel and calls the cancel routine, if there is
\* one, after taking it out of the request.
CancelIrp(i) ==
    /\ i \in Cancellable
    /\ ~cancel[i] /\ irpPc[i] # "idle" /\ completions[i] = 0
    /\ cancel' = [cancel EXCEPT ![i] = TRUE]
    /\ IF cancelRoutine[i]
       THEN /\ cancelRoutine' = [cancelRoutine EXCEPT ![i] = FALSE]
            /\ cancelPc' = [cancelPc EXCEPT ![i] = "remove"]
       ELSE UNCHANGED <<cancelRoutine, cancelPc>>
    /\ UNCHANGED <<irpPc, irpLen, completions, irpStatus, irpMsg, queueVars,
                   threadVars, client, discVars>>

\* The cancel routine of the cancel-safe queue removes the request ...
CancelRemove(i) ==
    /\ cancelPc[i] = "remove" /\ queueLock = None
    /\ queue' = Unlink(queue, i)
    /\ cancelPc' = [cancelPc EXCEPT ![i] = "complete"]
    /\ UNCHANGED <<irpPc, irpLen, cancel, cancelRoutine, completions,
                   irpStatus, irpMsg, semaphore, queueLock, threadVars, client,
                   discVars>>

\* FAULT: the wait for a unit of the semaphore has no zero timeout.
CompleteCanceledIrpWaits(i) ==
    /\ cancelPc[i] = "complete" /\ semaphore > 0
    /\ semaphore' = semaphore - 1
    /\ cancelPc' = [cancelPc EXCEPT ![i] = "done"]
    /\ Complete(i, "cancelled")
    /\ UNCHANGED <<irpPc, irpLen, cancel, cancelRoutine, irpMsg, queue,
                   queueLock, threadVars, client, discVars>>

\* ... and, the lock released, NdfCommpCompleteCanceledIrp takes one unit of
\* the semaphore if there is one (a wait with a zero timeout) and completes.
CompleteCanceledIrp(i) ==
    /\ cancelPc[i] = "complete"
    /\ semaphore' = IF semaphore > 0 THEN semaphore - 1 ELSE 0
    /\ cancelPc' = [cancelPc EXCEPT ![i] = "done"]
    /\ Complete(i, "cancelled")
    /\ UNCHANGED <<irpPc, irpLen, cancel, cancelRoutine, irpMsg, queue,
                   queueLock, threadVars, client, discVars>>

\* FAULTS: the length of the buffer, or the cancel routine, is not looked at.
SuitableAnyLength(i, n) == cancelRoutine[i]
SuitableCancelled(i, n) == irpLen[i] >= n

\* NdfCommpGetNextIrp inside IoCsqRemoveNextIrp: i is the first queued request
\* with a large enough buffer whose cancel routine could be taken out.
Suitable(i, n) == cancelRoutine[i] /\ irpLen[i] >= n
IsNextIrp(i, n) ==
    \E k \in 1 .. Len(queue) :
        /\ queue[k] = i /\ Suitable(i, n)
        /\ \A j \in 1 .. (k - 1) : ~Suitable(queue[j], n)
NoNextIrp(n) == \A i \in ToSet(queue) : ~Suitable(i, n)

-----------------------------------------------------------------------------
(***************************************************************************)
(* Messages: NdfCommSendMessage, and NdfCommpDeliverMessageToKm around it. *)
(***************************************************************************)
\* DeviceIoControl(NDFCOMM_SEND_MESSAGE) on a handle that is still open.
UserSend(t) ==
    /\ pc[t] = "idle" /\ ~Cleaning
    /\ pc' = [pc EXCEPT ![t] = "deliver"]
    /\ UNCHANGED <<irpVars, queueVars, msgLen, timed, held, status,
                   inCallback, client, discVars>>

\* NdfCommpDeliverMessageToKm acquires the client and calls MessageNotify ...
DeliverEnter(t) ==
    /\ pc[t] = "deliver" /\ CanAcquire(client)
    /\ client' = ExAcquireRundownProtection(client)
    /\ inCallback' = [inCallback EXCEPT ![t] = TRUE]
    /\ pc' = [pc EXCEPT ![t] = "callback"]
    /\ UNCHANGED <<irpVars, queueVars, msgLen, timed, held, status, discVars>>

\* ... or returns STATUS_PORT_DISCONNECTED.
DeliverRefused(t) ==
    /\ pc[t] = "deliver" /\ ~CanAcquire(client)
    /\ pc' = [pc EXCEPT ![t] = "done"]
    /\ UNCHANGED <<irpVars, queueVars, msgLen, timed, held, status,
                   inCallback, client, discVars>>

\* Before that it refuses a message that is empty or that cannot be read.
DeliverInvalid(t) ==
    /\ pc[t] = "deliver"
    /\ pc' = [pc EXCEPT ![t] = "done"]
    /\ UNCHANGED <<irpVars, queueVars, msgLen, timed, held, status,
                   inCallback, client, discVars>>

\* The callback returns, with or without having sent a message itself.
CallbackReturn(t) ==
    /\ pc[t] \in {"callback", "returned"}
    /\ client' = ExReleaseRundownProtection(client)
    /\ inCallback' = [inCallback EXCEPT ![t] = FALSE]
    /\ pc' = [pc EXCEPT ![t] = "done"]
    /\ UNCHANGED <<irpVars, queueVars, msgLen, timed, held, status, discVars>>

\* Who may call NdfCommSendMessage: the callback, and a thread of the driver
\* until the driver has been told that the client is gone.  What the driver
\* does between its decision to call and the acquisition is its own business:
\* the client may be disconnected, or freed, in that time.
MaySend(t) == pc[t] = "callback" \/ (pc[t] = "idle" /\ notified = 0)
SendCall(t) ==
    /\ MaySend(t)
    /\ pc' = [pc EXCEPT ![t] = "called"]
    /\ UNCHANGED <<irpVars, queueVars, msgLen, timed, held, status,
                   inCallback, client, discVars>>

\* The driver's part: its DisconnectNotify callback returns when the calls its
\* own threads made before are past the acquisition.  The library has no means
\* to wait for them.
DriverCallsOver == \A t \in Threads : pc[t] = "called" => inCallback[t]

Returned(t) == IF inCallback[t] THEN "returned" ELSE "done"

\* The acquisition of a client that was freed has no defined outcome: the model
\* ends there for the thread, and NoUseAfterFree says when it comes to that.
Acquiring(t) == pc[t] = "called" /\ ~Closed

\* NdfCommSendMessage acquires the client, once for the whole call ...
SendEnter(t, n, hasTimeout) ==
    /\ Acquiring(t) /\ CanAcquire(client)
    /\ client' = ExAcquireRundownProtection(client)
    /\ pc' = [pc EXCEPT ![t] = "wait"]
    /\ msgLen' = [msgLen EXCEPT ![t] = n]
    /\ timed' = [timed EXCEPT ![t] = hasTimeout]
    /\ UNCHANGED <<irpVars, queueVars, held, status, inCallback, discVars>>

\* ... or returns STATUS_PORT_DISCONNECTED.
SendRefused(t) ==
    /\ Acquiring(t) /\ ~CanAcquire(client)
    /\ pc' = [pc EXCEPT ![t] = Returned(t)]
    /\ status' = [status EXCEPT ![t] = "disconnected"]
    /\ UNCHANGED <<irpVars, queueVars, msgLen, timed, held, inCallback,
                   client, discVars>>

\* KeWaitForMultipleObjects.  The disconnect event has the lower index and
\* wins over the semaphore ...
WaitDisconnected(t) ==
    /\ pc[t] = "wait" /\ disconnectEvent
    /\ pc' = [pc EXCEPT ![t] = "leave"]
    /\ status' = [status EXCEPT ![t] = "disconnected"]
    /\ UNCHANGED <<irpVars, queueVars, msgLen, timed, held, inCallback,
                   client, discVars>>

\* ... the semaphore gives up one unit ...
WaitSemaphore(t) ==
    /\ pc[t] = "wait" /\ ~disconnectEvent /\ semaphore > 0
    /\ semaphore' = semaphore - 1
    /\ pc' = [pc EXCEPT ![t] = "dequeue"]
    /\ UNCHANGED <<irpVars, queue, queueLock, msgLen, timed, held, status,
                   inCallback, client, discVars>>

\* FAULT: STATUS_TIMEOUT is not tested.
WaitTimeoutIgnored(t) ==
    /\ pc[t] = "wait" /\ ~disconnectEvent /\ semaphore = 0 /\ timed[t]
    /\ pc' = [pc EXCEPT ![t] = "dequeue"]
    /\ UNCHANGED <<irpVars, queueVars, msgLen, timed, held, status,
                   inCallback, client, discVars>>

\* ... and a signalled object wins over a timeout that has passed.
WaitTimeout(t) ==
    /\ pc[t] = "wait" /\ ~disconnectEvent /\ semaphore = 0 /\ timed[t]
    /\ pc' = [pc EXCEPT ![t] = "leave"]
    /\ status' = [status EXCEPT ![t] = "timeout"]
    /\ UNCHANGED <<irpVars, queueVars, msgLen, timed, held, inCallback,
                   client, discVars>>

\* The wait is alertable.  STATUS_ALERTED is none of the two values the code
\* tests, so it goes on to the queue without having taken a unit.
WaitAlerted(t) ==
    /\ pc[t] = "wait" /\ ~disconnectEvent /\ semaphore = 0
    /\ pc' = [pc EXCEPT ![t] = "dequeue"]
    /\ UNCHANGED <<irpVars, queueVars, msgLen, timed, held, status,
                   inCallback, client, discVars>>

\* IoCsqRemoveNextIrp finds a request that the message fits ...
SendDequeue(t, i) ==
    /\ pc[t] = "dequeue" /\ queueLock = None
    /\ IsNextIrp(i, msgLen[t])
    /\ cancelRoutine' = [cancelRoutine EXCEPT ![i] = FALSE]
    /\ queue' = Unlink(queue, i)
    /\ held' = [held EXCEPT ![t] = i]
    /\ pc' = [pc EXCEPT ![t] = "complete"]
    /\ UNCHANGED <<irpPc, irpLen, cancel, cancelPc, completions, irpStatus,
                   irpMsg, semaphore, queueLock, msgLen, timed, status,
                   inCallback, client, discVars>>

\* ... or none, and the thread waits again: the unit it took is gone.
SendRetry(t) ==
    /\ pc[t] = "dequeue" /\ queueLock = None
    /\ NoNextIrp(msgLen[t])
    /\ pc' = [pc EXCEPT ![t] = "wait"]
    /\ UNCHANGED <<irpVars, queueVars, msgLen, timed, held, status,
                   inCallback, client, discVars>>

\* The message is copied and the request completed.  A request without a
\* system buffer (no room for output, and no input either) makes
\* NdfCommpGetUserBuffer fail: that is logged and returned, yet the request is
\* completed with success.
CopyStatus(i) ==
    IF irpLen[i] = 0 THEN {"success", "unsuccessful"} ELSE {"success"}
SendComplete(t) ==
    /\ pc[t] = "complete"
    /\ Complete(held[t], "success")
    /\ irpMsg' = [irpMsg EXCEPT ![held[t]] = t]
    /\ \E st \in CopyStatus(held[t]) : status' = [status EXCEPT ![t] = st]
    /\ pc' = [pc EXCEPT ![t] = "leave"]
    /\ UNCHANGED <<irpPc, irpLen, cancel, cancelRoutine, cancelPc, queueVars,
                   msgLen, timed, held, inCallback, client, discVars>>

\* NdfCommSendMessage releases the client and returns.
SendLeave(t) ==
    /\ pc[t] = "leave"
    /\ client' = ExReleaseRundownProtection(client)
    /\ held' = [held EXCEPT ![t] = None]
    /\ timed' = [timed EXCEPT ![t] = FALSE]
    /\ pc' = [pc EXCEPT ![t] = Returned(t)]
    /\ UNCHANGED <<irpVars, queueVars, msgLen, status, inCallback, discVars>>

-----------------------------------------------------------------------------
(***************************************************************************)
(* NdfCommDisconnectClient, called by the cleanup handler and by           *)
(* NdfCommRelease; both go on to the DisconnectNotify callback.            *)
(***************************************************************************)
Goto(d, label) == disc' = [disc EXCEPT ![d] = label]

\* FAULT: the bit is set but its old value not looked at.
CheckDisconnectedAlways(d) ==
    /\ disc[d] = "disconnect"
    /\ broken' = TRUE
    /\ Goto(d, "signal")
    /\ UNCHANGED <<irpVars, queueVars, threadVars, client, disconnectEvent,
                   libRundown, notified>>

\* InterlockedBitTestAndSet on State: the second caller skips the rest.
CheckDisconnected(d) ==
    /\ disc[d] = "disconnect"
    /\ broken' = TRUE
    /\ Goto(d, IF broken THEN "notify" ELSE "signal")
    /\ UNCHANGED <<irpVars, queueVars, threadVars, client, disconnectEvent,
                   libRundown, notified>>

\* FAULT: the disconnect event is not set.
SignalNothing(d) ==
    /\ disc[d] = "signal"
    /\ Goto(d, "begin")
    /\ UNCHANGED <<irpVars, queueVars, threadVars, client, disconnectEvent,
                   broken, libRundown, notified>>

\* KeSetEvent wakes the senders that sleep on the client.
SignalDisconnect(d) ==
    /\ disc[d] = "signal"
    /\ disconnectEvent' = TRUE
    /\ Goto(d, "begin")
    /\ UNCHANGED <<irpVars, queueVars, threadVars, client, broken, libRundown,
                   notified>>

\* ExWaitForRundownProtectionRelease: from here on nobody gets in ...
BeginClientRundown(d) ==
    /\ disc[d] = "begin"
    /\ client' = BeginRundown(client)
    /\ Goto(d, "wait")
    /\ UNCHANGED <<irpVars, queueVars, threadVars, disconnectEvent, broken,
                   libRundown, notified>>

\* ... and it returns when the last one is out.
ClientRundownDone(d) ==
    /\ disc[d] = "wait" /\ RundownReleased(client)
    /\ Goto(d, "drain")
    /\ UNCHANGED <<irpVars, queueVars, threadVars, client, disconnectEvent,
                   broken, libRundown, notified>>

\* The loop that removes every pended request (a required length of 0 suits
\* all of them) and completes it ...
DrainNext(d, i) ==
    /\ disc[d] = "drain" /\ queueLock = None
    /\ IsNextIrp(i, 0)
    /\ cancelRoutine' = [cancelRoutine EXCEPT ![i] = FALSE]
    /\ queue' = Unlink(queue, i)
    /\ Complete(i, "disconnected")
    /\ UNCHANGED <<irpPc, irpLen, cancel, cancelPc, irpMsg, semaphore,
                   queueLock, threadVars, client, discVars>>

\* ... until IoCsqRemoveNextIrp returns none.
DrainDone(d) ==
    /\ disc[d] = "drain" /\ queueLock = None
    /\ NoNextIrp(0)
    /\ Goto(d, "notify")
    /\ UNCHANGED <<irpVars, queueVars, threadVars, client, disconnectEvent,
                   broken, libRundown, notified>>

\* The last handle is closed: IRP_MJ_CLEANUP.
StartCleanup ==
    /\ disc["cleanup"] = "idle"
    /\ Goto("cleanup", "disconnect")
    /\ UNCHANGED <<irpVars, queueVars, threadVars, client, disconnectEvent,
                   broken, libRundown, notified>>

\* NdfCommpProcessCleanupRequest calls the callback inside the library's
\* rundown protection ...
CleanupNotify ==
    /\ disc["cleanup"] = "notify" /\ CanAcquire(libRundown)
    /\ libRundown' = ExAcquireRundownProtection(libRundown)
    /\ notified' = notified + 1
    /\ Goto("cleanup", "notifying")
    /\ UNCHANGED <<irpVars, queueVars, threadVars, client, disconnectEvent,
                   broken>>

CleanupNotified ==
    /\ disc["cleanup"] = "notifying" /\ DriverCallsOver
    /\ libRundown' = ExReleaseRundownProtection(libRundown)
    /\ Goto("cleanup", "told")
    /\ UNCHANGED <<irpVars, queueVars, threadVars, client, disconnectEvent,
                   broken, notified>>

\* FAULT: the callback is left out although the library is not being released.
SkipNotifyAlways ==
    /\ disc["cleanup"] = "notify"
    /\ Goto("cleanup", "told")
    /\ UNCHANGED <<irpVars, queueVars, threadVars, client, disconnectEvent,
                   broken, libRundown, notified>>

\* ... and not at all when NdfCommRelease has begun.
CleanupSkipNotify ==
    /\ disc["cleanup"] = "notify" /\ ~CanAcquire(libRundown)
    /\ Goto("cleanup", "told")
    /\ UNCHANGED <<irpVars, queueVars, threadVars, client, disconnectEvent,
                   broken, libRundown, notified>>

\* The client gives up its place in ActiveClientsCount (the counter itself is
\* in NdfCommLibrary).
CleanupUncount ==
    /\ disc["cleanup"] = "told"
    /\ Goto("cleanup", "cleaned")
    /\ UNCHANGED <<irpVars, queueVars, threadVars, client, disconnectEvent,
                   broken, libRundown, notified>>

\* The I/O manager sends IRP_MJ_CLOSE when no request of the file object is
\* outstanding; NdfCommpProcessCloseRequest takes the client out of the list,
\* under the list lock, and frees it.
Outstanding(i) == irpPc[i] # "idle" /\ completions[i] = 0
InRequest(t) == pc[t] = "deliver" \/ inCallback[t]
CloseRequest ==
    /\ disc["cleanup"] = "cleaned" /\ ~ListLocked
    /\ \A i \in Irps : ~Outstanding(i)
    /\ \A t \in Threads : ~InRequest(t)
    /\ Goto("cleanup", "closed")
    /\ UNCHANGED <<irpVars, queueVars, threadVars, client, disconnectEvent,
                   broken, libRundown, notified>>

\* NdfCommRelease begins the library's rundown ...
StartRelease ==
    /\ disc["release"] = "idle"
    /\ ReleaseWhileOpen \/ Closed
    /\ libRundown' = BeginRundown(libRundown)
    /\ Goto("release", "libwait")
    /\ UNCHANGED <<irpVars, queueVars, threadVars, client, disconnectEvent,
                   broken, notified>>

LibraryRundownDone ==
    /\ disc["release"] = "libwait" /\ RundownReleased(libRundown)
    /\ Goto("release", "lock")
    /\ UNCHANGED <<irpVars, queueVars, threadVars, client, disconnectEvent,
                   broken, libRundown, notified>>

\* ... then NdfCommpDisconnectAllClients locks the list, and finds the client
\* in it or not.
LockClientList ==
    /\ disc["release"] = "lock"
    /\ Goto("release", IF Closed THEN "unlock" ELSE "disconnect")
    /\ UNCHANGED <<irpVars, queueVars, threadVars, client, disconnectEvent,
                   broken, libRundown, notified>>

\* It tells the driver of the client, whoever has disconnected that.
ReleaseNotify ==
    /\ disc["release"] = "notify"
    /\ notified' = notified + 1
    /\ Goto("release", "notifying")
    /\ UNCHANGED <<irpVars, queueVars, threadVars, client, disconnectEvent,
                   broken, libRundown>>

ReleaseNotified ==
    /\ disc["release"] = "notifying" /\ DriverCallsOver
    /\ Goto("release", "unlock")
    /\ UNCHANGED <<irpVars, queueVars, threadVars, client, disconnectEvent,
                   broken, libRundown, notified>>

UnlockClientList ==
    /\ disc["release"] = "unlock"
    /\ Goto("release", "done")
    /\ UNCHANGED <<irpVars, queueVars, threadVars, client, disconnectEvent,
                   broken, libRundown, notified>>

-----------------------------------------------------------------------------
\* Everything the connection was for is over; the only legitimate stop.
Terminated ==
    /\ Closed /\ disc["release"] = "done"
    /\ \A t \in Threads : pc[t] \in {"idle", "called", "done"}
    /\ UNCHANGED vars

Insert(i) ==
    InsertAcquire(i) \/ InsertRefused(i) \/ InsertAdd(i) \/ InsertFinish(i)
Cancellation(i) == CancelRemove(i) \/ CompleteCanceledIrp(i)
IrpStep(i) ==
    (\E n \in Lengths : Issue(i, n)) \/ Insert(i) \/ CancelIrp(i)
        \/ Cancellation(i)

Deliver(t) ==
    DeliverEnter(t) \/ DeliverRefused(t) \/ DeliverInvalid(t)
        \/ CallbackReturn(t)
SendStart(t) ==
    SendRefused(t) \/ \E n \in Lengths, b \in HasTimeout : SendEnter(t, n, b)
Dequeue(t) == SendRetry(t) \/ \E i \in Irps : SendDequeue(t, i)
Wake(t) == WaitDisconnected(t) \/ WaitSemaphore(t)
SendFinish(t) == SendComplete(t) \/ SendLeave(t)
ThreadStep(t) ==
    UserSend(t) \/ Deliver(t) \/ SendCall(t) \/ SendStart(t) \/ Wake(t)
        \/ WaitTimeout(t) \/ WaitAlerted(t) \/ Dequeue(t) \/ SendFinish(t)

DisconnectClient(d) ==
    CheckDisconnected(d) \/ SignalDisconnect(d) \/ BeginClientRundown(d)
        \/ ClientRundownDone(d) \/ DrainDone(d)
        \/ \E i \in Irps : DrainNext(d, i)
Cleanup ==
    CleanupNotify \/ CleanupNotified \/ CleanupSkipNotify \/ CleanupUncount
        \/ CloseRequest
Release ==
    LibraryRundownDone \/ LockClientList \/ ReleaseNotify \/ ReleaseNotified
        \/ UnlockClientList

Next ==
    \/ \E i \in Irps : IrpStep(i)
    \/ \E t \in Threads : ThreadStep(t)
    \/ \E d \in Disconnectors : DisconnectClient(d)
    \/ StartCleanup \/ Cleanup
    \/ StartRelease \/ Release
    \/ Terminated

Spec == Init /\ [][Next]_vars

-----------------------------------------------------------------------------
(***************************************************************************)
(* Safety.                                                                 *)
(***************************************************************************)
\* The types of the variables.
TypeOK ==
    /\ irpPc \in [Irps -> {"idle", "insert", "refused", "locked", "added",
                           "pended"}]
    /\ irpLen \in [Irps -> Lengths \cup {0}]
    /\ cancel \in [Irps -> BOOLEAN]
    /\ cancelRoutine \in [Irps -> BOOLEAN]
    /\ cancelPc \in [Irps -> {"none", "remove", "complete", "done"}]
    /\ completions \in [Irps -> Nat]
    /\ irpStatus \in [Irps -> {"pending", "success", "cancelled",
                               "disconnected"}]
    /\ irpMsg \in [Irps -> Threads \cup {None}]
    /\ queue \in Seq(Irps)
    /\ semaphore \in Nat
    /\ queueLock \in Irps \cup {None}
    /\ pc \in [Threads -> {"idle", "deliver", "callback", "called", "returned",
                           "done"} \cup InSend]
    /\ msgLen \in [Threads -> Lengths \cup {0}]
    /\ timed \in [Threads -> BOOLEAN]
    /\ held \in [Threads -> Irps \cup {None}]
    /\ status \in [Threads -> {"none", "success", "unsuccessful", "timeout",
                               "disconnected"}]
    /\ inCallback \in [Threads -> BOOLEAN]
    /\ client \in RundownRef
    /\ disconnectEvent \in BOOLEAN
    /\ broken \in BOOLEAN
    /\ libRundown \in RundownRef
    /\ notified \in Nat
    /\ disc \in [Disconnectors -> CleanupPc \cup ReleasePc]
    /\ disc["cleanup"] \in CleanupPc /\ disc["release"] \in ReleasePc

\* A get-message request is completed at most once, whichever of the sender,
\* the cancel routine, the insertion, the drain of NdfCommDisconnectClient and
\* the dispatch routine get hold of it: completing an IRP twice corrupts the
\* kernel's memory.
CompletedOnce == \A i \in Irps : completions[i] =< 1

\* The list of the queue holds exactly the requests that are pended and that
\* nobody has taken out, each once: none is lost, none that was completed is
\* still linked (RemoveEntryList on such an entry breaks the list).
Queued(i) ==
    \/ irpPc[i] = "added"
    \/ cancelRoutine[i]
    \/ cancelPc[i] = "remove"
QueueIntegrity ==
    /\ ToSet(queue) = {i \in Irps : Queued(i)}
    /\ \A j, k \in DOMAIN queue : queue[j] = queue[k] => j = k
    /\ \A i \in ToSet(queue) : completions[i] = 0

\* Once NdfCommDisconnectClient has drained the queue, by whichever caller,
\* every request that got into the library is completed or is just being
\* completed as cancelled: none stays behind in the queue of a client that
\* nobody will ever wake up again, and an insertion still in flight is refused.
Drained == broken /\ \A d \in Disconnectors : disc[d] \notin InDisconnect
NoStrandedIrp ==
    Drained => \A i \in Irps :
        \/ irpPc[i] \in {"idle", "insert"}
        \/ completions[i] > 0
        \/ cancelPc[i] \in {"remove", "complete"}

\* When the close handler has freed the client nobody is left inside it: no
\* insertion, cancellation or send in progress, no message callback, no caller
\* of NdfCommDisconnectClient, and the list is empty, as NdfCommFreeClient
\* asserts.
NobodyInFreed ==
    Closed =>
        /\ queue = <<>> /\ queueLock = None
        /\ \A i \in Irps : /\ irpPc[i] \notin {"insert", "locked", "added"}
                           /\ cancelPc[i] \notin {"remove", "complete"}
        /\ \A t \in Threads : pc[t] \notin InSend /\ ~inCallback[t]
        /\ disc["release"] \notin InDisconnect \cup {"disconnect", "notify",
                                                   "notifying"}

\* Nor is a call of NdfCommSendMessage on its way to a freed client.  The one
\* exception is a driver that released the library with the handle open and was
\* never told of this client, because the cleanup handler found the release
\* begun and the close handler was faster than it.
NoUseAfterFree ==
    /\ NobodyInFreed
    /\ Closed => \A t \in Threads :
           pc[t] = "called" => ReleaseWhileOpen /\ notified = 0

\* At most one caller of NdfCommDisconnectClient is past its test of the
\* State bit: no second wait on the rundown reference.
OneRundownWaiter ==
    \A d, e \in Disconnectors :
        disc[d] \in InDisconnect /\ disc[e] \in InDisconnect => d = e

\* While the driver is told that the client is gone, by the cleanup handler or
\* by NdfCommRelease, no thread is inside its MessageNotify callback or inside
\* NdfCommSendMessage for this client: the driver may free what the connection
\* cookie points to.  Only where the release is the second to disconnect the
\* client, and so does not wait for it, are they still on their way out.
NotifyQuiescent ==
    \A d \in Disconnectors :
        disc[d] = "notifying" =>
            \/ \A t \in Threads : pc[t] \notin InSend /\ ~inCallback[t]
            \/ d = "release" /\ disc["cleanup"] \in InDisconnect

\* The driver is told of the client by the cleanup handler, by NdfCommRelease or
\* by both.  It is not told at all only if the release began before the cleanup
\* handler could tell it and the close handler took the client out of the list
\* before the release went through it.
NotificationsAccounted ==
    /\ Closed /\ disc["release"] = "idle" => notified = 1
    /\ disc["release"] \in {"unlock", "done"} /\ notified = 0 => Closed
    /\ notified > 1 =>
           notified = 2 /\ disc["release"] \in {"notifying", "unlock", "done"}

\* What NdfCommSendMessage reports is what happened: with success the message
\* is in exactly one request, which has room for it and was completed with
\* success; the error of a request without a buffer, which was completed with
\* success all the same, means an empty message, so that nothing is lost; with
\* a timeout or a disconnection it is in none.
Receivers(t) == {i \in Irps : irpMsg[i] = t}
SendOutcome ==
    \A t \in Threads :
        /\ status[t] \in {"success", "unsuccessful"} =>
               \E i \in Irps : /\ Receivers(t) = {i}
                              /\ irpStatus[i] = "success"
                              /\ irpLen[i] >= msgLen[t]
        /\ status[t] = "unsuccessful" => msgLen[t] = 0
        /\ status[t] \in {"none", "timeout", "disconnected"} =>
               Receivers(t) = {}

\* No lost wake-up: a sender asleep on an empty semaphore has no request
\* waiting for it in the queue, unless another sender is on its way there.
NoLostWakeup ==
    \A t \in Threads :
        (/\ pc[t] = "wait" /\ semaphore = 0 /\ ~disconnectEvent
         /\ \A u \in Threads : pc[u] # "dequeue")
        => NoNextIrp(msgLen[t])

\* So far no request was cancelled and each had room for every message.
Undisturbed ==
    \A i \in Irps :
        /\ ~cancel[i]
        /\ irpPc[i] # "idle" => \A t \in Threads : irpLen[i] >= msgLen[t]

\* Without cancellations and with buffers that are long enough no wake-up is
\* lost, whatever timeouts, alerts and callers of the queue do.
WakeupsKept == Undisturbed => NoLostWakeup

-----------------------------------------------------------------------------
(***************************************************************************)
(* The inductive invariant behind the safety properties.                   *)
(***************************************************************************)
\* Who is inside the client: one element per acquisition of RundownProtect
\* that was not released yet.
Holders ==
    {<<"insert", i>> : i \in {j \in Irps : irpPc[j] = "locked"}}
    \cup {<<"send", t>> : t \in {u \in Threads : pc[u] \in InSend}}
    \cup {<<"callback", t>> : t \in {u \in Threads : inCallback[u]}}

\* The two rundown references count exactly their holders.
RundownInv ==
    /\ client.count = Cardinality(Holders)
    /\ libRundown.count = IF disc["cleanup"] = "notifying" THEN 1 ELSE 0

\* A thread in the callback is there until CallbackReturn; one that completes
\* a request holds it.
ThreadInv ==
    \A t \in Threads :
        /\ inCallback[t] =>
               pc[t] \in {"callback", "called", "returned"} \cup InSend
        /\ pc[t] \in {"callback", "returned"} => inCallback[t]
        /\ pc[t] = "complete" => held[t] \in Irps

\* A queued request is being added, or has its cancel routine, or is being
\* removed by it; the one whose insertion holds the lock is not pended yet.
LockInv == \A i \in Irps : irpPc[i] \in {"locked", "added"} <=> queueLock = i

\* A request that was not completed has exactly one party that will complete
\* it: its insertion, whoever takes its cancel routine out, its cancellation,
\* or the sender that holds it.
Taken(i) == \E t \in Threads : pc[t] = "complete" /\ held[t] = i
IrpInv ==
    \A i \in Irps :
        /\ completions[i] =< 1
        /\ irpPc[i] \in {"idle", "insert", "locked", "added", "refused"} =>
               ~cancelRoutine[i] /\ cancelPc[i] = "none" /\ ~Taken(i)
        /\ irpPc[i] \in {"idle", "insert", "locked", "added"} =>
               completions[i] = 0
        /\ irpPc[i] = "refused" => completions[i] = 1
        /\ cancelRoutine[i] =>
               completions[i] = 0 /\ cancelPc[i] = "none" /\ ~Taken(i)
        /\ cancelPc[i] \in {"remove", "complete"} =>
               completions[i] = 0 /\ ~Taken(i)
        /\ Taken(i) => completions[i] = 0
        /\ irpPc[i] = "pended" /\ completions[i] = 0 =>
               \/ cancelRoutine[i] \/ Taken(i)
               \/ cancelPc[i] \in {"remove", "complete"}

\* No thread of the driver is between its call and the acquisition once the
\* driver was told and is done with it.
Notifying == \E d \in Disconnectors : disc[d] = "notifying"
CalledInv == notified > 0 => Notifying \/ DriverCallsOver

HeldOnce ==
    \A t, u \in Threads :
        pc[t] = "complete" /\ pc[u] = "complete" /\ held[t] = held[u]
            => t = u

\* What the progress of NdfCommDisconnectClient says about the client.
Empty == client.active /\ client.count = 0
DisconnectInv ==
    /\ \A d \in Disconnectors :
          /\ disc[d] \in InDisconnect => broken
          /\ disc[d] = "wait" => client.active
          /\ disc[d] = "drain" => Empty
    /\ disc["cleanup"] \in {"notify", "notifying", "told", "cleaned", "closed"}
          => broken
    /\ disc["release"] \in {"notify", "notifying"} => broken
    /\ Drained =>
          /\ Empty
          /\ \A i \in Irps : ~cancelRoutine[i] /\ irpPc[i] # "added"
    /\ Closed => Drained

IInv ==
    /\ TypeOK /\ RundownInv /\ ThreadInv /\ LockInv /\ IrpInv /\ HeldOnce
    /\ QueueIntegrity /\ OneRundownWaiter /\ DisconnectInv /\ NobodyInFreed
    /\ CalledInv

-----------------------------------------------------------------------------
(***************************************************************************)
(* Liveness.  Every section of code that has begun goes on: the scheduler  *)
(* runs its thread, locks are handed on, the driver's callbacks return.    *)
(* A timeout is an absolute deadline (endTime), so a timed wait that is    *)
(* entered again and again still passes it: strong fairness.  Nobody has   *)
(* to issue or cancel a request, send, close the handle, alert a thread or *)
(* release the library.                                                    *)
(***************************************************************************)
Fairness ==
    /\ \A i \in Irps : WF_vars(Insert(i)) /\ WF_vars(Cancellation(i))
    /\ \A t \in Threads :
          /\ WF_vars(Deliver(t)) /\ WF_vars(SendStart(t)) /\ WF_vars(Wake(t))
          /\ WF_vars(Dequeue(t)) /\ WF_vars(SendFinish(t))
          /\ SF_vars(WaitTimeout(t))
    /\ \A d \in Disconnectors : WF_vars(DisconnectClient(d))
    /\ WF_vars(Cleanup) /\ WF_vars(Release)
FairSpec == Spec /\ Fairness

\* Closing the last handle always ends with the client freed: the wait for
\* the rundown reference inside the cleanup handler ends, although senders
\* without a timeout and callbacks may be inside.
CleanupTerminates == Cleaning ~> Closed

\* NdfCommRelease returns, although it waits for the clients with the client
\* list locked and the close handler waits for that lock.
ReleaseTerminates == disc["release"] # "idle" ~> disc["release"] = "done"

\* A cancelled request is completed, whatever got hold of it first.
CancelCompletes ==
    \A i \in Irps : cancel[i] ~> completions[i] > 0

\* A send with a timeout returns.
TimedSendReturns ==
    \A t \in Threads : (pc[t] = "wait" /\ timed[t]) ~> pc[t] \notin InSend
=============================================================================
