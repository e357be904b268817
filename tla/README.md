# A TLA+ model of NdfComm

NdfComm lets a Windows kernel driver and a user-mode application exchange
messages. The kernel part is a library (`Kernel/NdfCommKm`) that a driver links:
it creates a *message device*, hooks the driver's dispatch table for it, and
turns each open handle of that device into a *client*. The application pends
get-message requests (IRPs) on its handle; the driver's `NdfCommSendMessage`
waits for one that is long enough, copies the message into it and completes it.
In the other direction a send-message request runs the driver's `MessageNotify`
callback. A user library (`User/NdfCommUm`) opens the handle, and a client
application (`User/ClientApp`) installs the driver, talks to it and removes it.

This directory models all of that in TLA+, checks the models with TLC and proves
with TLAPS every safety property of the passing runs, and both refinements, for
all values of the constants that the stated assumptions admit. Paths below are relative to `src/`;
`NdfCommKm/` stands for `Kernel/NdfCommKm/`.

## Inventory

| component | state | operations | what is hard | what makes it correct | modules |
|---|---|---|---|---|---|
| client, `NdfCommKm/src/NdfCommClient.c`, `inc/private/NdfCommClient.h` | rundown reference, disconnect event, `State` bit | create, acquire, release, disconnect, free | two callers disconnect; everybody must be out before the free | one waiter, nobody inside a freed client, nothing left queued | `NdfCommClient` |
| pended IRP queue, `NdfCommPendedIrpQueue.c` | list, its lock, counting semaphore | the six callbacks of the cancel-safe queue | cancellation against dequeue against insertion; units of the semaphore against requests | each request completed once, list exact, no lost wake-up | `NdfCommClient` |
| request processing, `NdfCommProcessing.c` | none of its own; wait loop with a deadline | create, cleanup, close, get-message, send-message, `NdfCommSendMessage` | all of these run concurrently, nested in callbacks, with timeouts and alerts | the result says what happened to the message; every handler ends; the deadline holds | `NdfCommClient`, `NdfCommClientChannel`, `MessageChannel`, `NdfCommLibrary`, `WaitTime` |
| library life cycle, `NdfCommInit.c`, `NdfCommGlobalData.h` | rundown reference, client count and limit, client list, device, link, saved handlers | init, release, dispatch | release against handlers and callbacks; partial failure of init | limit and count exact, no callback after release, nothing left behind | `NdfCommLibrary`, `ClientSlots`, `LegacyDriver`, `Names` |
| concurrent list, `NdfCommConcurentList.h` | lock, head, count | add, remove, with and without lock | held across a whole release | entries exact, lock handed on | `NdfCommLibrary`, `NdfCommClient` |
| legacy driver, `Kernel/LegacyDrv` | device, link, dispatch table | `DriverEntry`, `DriverUnload`, `DriverDispatch` | requests arrive while the table is hooked | own requests reach own handler, unload clean | `LegacyDriver` |
| sample handlers, `Kernel/Common` | none | connect, disconnect, message | message handler sends from inside the callback | | `MaySend` of `NdfCommClient`, the timeouts of `WaitTime` |
| string helpers, `NdfCommUtils.c` | a buffer and two lengths | alloc, free, assign | 16-bit lengths, room for the null | no length the buffer does not have | `UnicodeStrings` |
| user library, `User/NdfCommUm` | table of native functions, two flags | connect, with the lazy initialisation | unsynchronised first use | no null call, one verdict, handles and results agree | `UserLibrary`, `Names` |
| client application, `User/ClientApp` | service handles, a connection | install, start, talk, stop, delete | handles kept over a delete; failures and kills between calls; a second process | what is installed is removed again | `ClientApp`, `ServiceManager` |
| WDF driver, tracing | | | | | not modelled: a project template that does not use the library; output only |

How they interact: the application asks the service manager to load the driver,
whose `DriverEntry` calls `NdfCommInit`; the user library opens the message device;
the I/O manager calls `NdfCommpDispatch`; the handlers call the driver's three
callbacks; the driver calls `NdfCommSendMessage` from its own threads or from
inside a callback, and `NdfCommRelease` when it is unloaded. In the kernel shared
state is guarded by the list lock (a fast mutex), the queue lock (another), the two
levels of rundown protection, one interlocked bit and one interlocked counter; the
user library guards nothing; the processes share one entry of the service manager.

## The modules

**`Rundown`** holds the operators of a rundown reference: a count and a flag.
`ExWaitForRundownProtectionRelease` is two steps for its callers, `BeginRundown`
(no acquisition succeeds any more) and `RundownReleased` (the count is zero).

**`NdfCommClient`** is one connection that exists from the first state on. Its
variables are named after the fields they stand for; `pc[t]` is the position of a
thread in `NdfCommSendMessage` or in the send-message handler around it,
`irpPc[i]` that of a get-message request in the library, `cancelPc[i]` that of its
cancellation, `disc[d]` that of the two callers of `NdfCommDisconnectClient`. An
action is the code between two points where another thread can tell the
difference: `NdfCommpInsertIrp` is split between the acquisition of the client and
the rest because the rundown reference shows it, although both are under the
queue lock; the body of `NdfCommDisconnectClient` is one action per call. The call of
`NdfCommSendMessage` (`SendCall`) and the acquisition of the client in it (`SendEnter`,
`SendRefused`) are two steps, and anything may happen between them: the position
`called` is that of a thread that is on its way into the client without holding it.
What comes of an acquisition of a client that was freed is undefined, so the thread
stops there (`Acquiring`), and `NoUseAfterFree` says when it comes to that.

**`MessageChannel`** says what a connection promises, without locks, events, counts
or the steps of an insertion: listeners stand in a line, a sender hands its message
to the first listener with room for it or gives up, the connection ends once.
**`NdfCommClientChannel`** is the refinement mapping: a request listens while its
cancel routine is set, a sender has delivered when it has taken a request out of the
queue, the end is `Drained`. `ImplementsChannel` says that every step of the code is
one of the channel or changes nothing of it.

**`NdfCommLibrary`** is the set of connections. A file object stands for its client;
`filePc[f]` walks through the create handler (one action per early return), the
cleanup handler and the close handler; `releasePc` and `cursor` walk through
`NdfCommRelease`. What goes on inside one connection is `NdfCommClient`'s matter:
here `drain` is the time `NdfCommDisconnectClient` takes. **`ClientSlots`** is its
abstract specification, a fixed number of slots that are taken, given back, or
**lost**: it describes the code as it is, with the places that failed opens take
with them, since the count leak below is part of what the code does.
`ImplementsSlots` maps holders to the admitted files, lost slots to the failed opens,
members to the list.

**`NdfCommClientLibrary`** puts the two together. The cleanup handler, the close
handler and `NdfCommRelease` are in both models, once around the inside of one
connection and once around all connections. `AgreesWithLibrary` maps a connection to
the library with its file as the only one (four positions inside
`NdfCommDisconnectClient` to the one `drain`) and says that each of its steps is one
of the library's or none: the two cannot disagree about who tests the bit, who tells
the driver, who counts and who holds which lock when.

**`WaitTime`** is the arithmetic that `NdfCommClient` abstracts to a deadline: the
timeout macro with its 32 bits, `endTime`, and `NdfCommpComputeWaitInterval` after
each wait in vain. Its clock is the one actor; `MaxLag` bounds how long the thread
takes from its call to its first look at the clock, and from a look at the clock to
its wait.

**`LegacyDriver`** is `DriverEntry`, the `NdfCommInit` it calls and `DriverUnload`,
as what they create and delete, and the four stores that hook the dispatch table
while requests for the driver's own device are already dispatched through it. It
keeps the name of the link as a counted string and works on it with the helpers of
**`UnicodeStrings`**; **`Names`** holds the prefixes and limits of the three names
built from the `DriverName` parameter.

**`UserLibrary`** is threads of one process in `NdfCommunicationConnect`. The flags
and the pointer of the lazy initialisation are plain variables and each access
that another thread could come between is a step of its own; stores become visible
in program order, as on the processors the library is built for.

**`ClientApp`** is processes that run `main`: one action per call to the service
manager or the driver, each of which may fail, and a kill between any two of them.
**`ServiceManager`** is what the calls do to the entry of the service. Part of it
is the driver behind the device: `MayConnect` is `NdfCommConnectClient` with
LegacyDrv's limit of one, and an open that is refused, or that has no memory for its
client, keeps its place (`PlaceTaken`, the count leak below) until the driver is
unloaded.

**`MC...`** modules give the constants their values. Operators marked `FAULT` are
deliberately wrong variants of the definition that follows them; nothing in the
specifications uses them. Put in the place of that definition, each makes a property
fail, which shows that the property can.

What stands for the environment: the cancel-safe queue of Windows (`IoCsq...`)
runs the library's callbacks as its documentation fixes; `IoCancelIrp`; the I/O
manager, which sends cleanup after the last handle is closed and close after the
last request is done, and calls the unload routine when no file is open; the
driver's callbacks, which return, and may send one message before they do; the
driver's own threads, which call no send for a client they were told is gone, and
whose calls on their way into it are over when the `DisconnectNotify` callback returns
(`DriverCallsOver`: the library gives a driver no other moment to wait for them; the
sample driver sends from its message callback alone and has no such threads); the
loader, which finds the native function or not, always alike; the service manager,
which deletes a marked service when its driver is stopped and no handle is left, and
unloads a stopped driver when its device is not open.

## What TLC checks

| run | instance | question |
|---|---|---|
| `client_safety` | 2 requests, 2 senders with timeouts, lengths 0 and 1, all cancellable | completed once; queue exact; nobody stranded; nobody in a freed client or on the way to one; the result of a send is true; no wake-up lost while nothing disturbs; implements `MessageChannel` |
| `client_release` | 2 requests, 1 sender, one length, one request cancellable, release under an open handle | the inductive invariant of the proofs, types included; driver told when all is quiet, and not told in one case only; `NdfCommRelease` returns; agrees with `NdfCommLibrary` |
| `client_live` | 1 request, 2 senders | close, cancellation and timed sends end |
| `client_lost_wakeup` | 2 requests, 2 senders, two lengths, no cancellation | the wake-up **is** lost |
| `library` | 3 files, limit 2, release at any moment | limit, count, list, notifications, no callback after release; every handler ends; implements `ClientSlots` |
| `library_count_leak` | 3 files, limit 1 | an open **is** refused below the limit |
| `driver_load` | 2 requests, names of every critical length | hooking is safe; unload and failed loads leave nothing but the device below |
| `driver_load_leak` | the same | a failed load **does** leave the message device |
| `wait_time` | factor 3, low part of 16 values, delays 0 to 6, lag 2, clock to 24 | a timeout is not early, waits in vain do not add up |
| `user_api` | 3 threads, 2 calls each, names of 7 and 40 to 42 characters | no null call; one verdict; handles and results agree; the opened name can exist |
| `service` | 3 processes that may overlap, 1 failing call, 1 kill | no process holds up its own stop; clean runs and runs in each other's way leave nothing; what is marked gets deleted |
| `service_reinstall` | 2 processes one after the other, 1 kill | the reinstallation the application announces **fails** |

The bounds. Every race in a connection is between two parties over one request or
one unit of the semaphore; two requests give a queue with a first and a second
entry, two senders a winner and a loser, and lengths 0 and 1 a message that fits
one request and not the other, and a request without a buffer. In `client_safety` all
sends have a timeout (`HasTimeout`): nothing makes it expire there, so this includes
what a send without one can do. Requests are issued once and threads send once, so
the semaphore is bounded by the requests without an artificial guard. Three files
with a limit of two let two clients be connected, a third be refused or fail, and
the release walk over a list of two; `LongMax = 127` is the width of the counter,
which three opens do not reach. The driver names are those around the limits
(40/41 for the user library, 41/42 for the link, 45/46 for the device).
In `wait_time` one unit of a delay is three ticks: 0 wraps to the longest wait, 1, 2
and 5 are expressible and 6 is the first that is not; the clock runs beyond every
end computed early. Three threads are two that race and one that comes when the race
is over, or two that find the pointer while a third one stores it. Three processes
are two that meet and one that finds what they left, with one mishap on the way.
Identical requests, senders and threads are interchangeable; the client and
user-library runs that have no liveness property use that symmetry.

`ReleaseWhileOpen` of `NdfCommClient` distinguishes the two uses of the library.
FALSE is what LegacyDrv does: release on unload, when no handle is open. TRUE is what
the exported function permits; `client_release` and `library` run with it. There the
driver may be told of a client twice or not at all once the release began, which is
why `NdfCommLibrary!ToldOnce` promises the notification only until then.
`NotificationsAccounted` says what is left to rely on: told by the cleanup handler, by
the release or by both, and not at all only if the handler found the release begun
(`NdfCommProcessing.c:178`) and the close handler was faster than the release at the
list. A driver that sends from threads of its own and releases the library with a
handle open must know of that case: it is the one in which a call of
`NdfCommSendMessage` may come to a freed client, and the exception that
`NoUseAfterFree` states.

Fairness. A section that has begun goes on: the scheduler runs its thread, the
fast mutexes are handed on, callbacks return (weak fairness on the actions of each
thread, request, handler and of the release). A wait with a timeout has an
absolute deadline (`endTime`; that it does not move is `WaitTime!NoDrift`), so a
thread that enters it again and again still passes it: strong fairness on
`WaitTimeout`. Nobody is required to issue, cancel, send, open, close, alert or
release, and a send without a timeout is not required to return before the handle
is closed. A process of the application goes on to its end, its user presses the
key (weak fairness on `Main`); nobody has to start or kill one.

### What the runs found

1. *Lost wake-up* (`client_lost_wakeup`). A sender that finds no long enough
   request has consumed a unit of the semaphore and waits again without returning
   it (`NdfCommProcessing.c:505`). The request stays queued with no unit; a later
   sender whose message fits sleeps, or times out. A cancellation can do the same:
   the cancel routine polls the semaphore for "its" unit
   (`NdfCommPendedIrpQueue.c:223`), which a sender may have consumed, and then takes
   another request's. `WakeupsKept` delimits the damage: without cancellations and
   with buffers that are long enough no wake-up is lost.
2. *Count leak* (`library_count_leak`). `ActiveClientsCount` is not decremented
   when an open is refused for the limit or has no memory
   (`NdfCommProcessing.c:114-149`). With LegacyDrv's limit of 1 one refused open
   is enough: after that nobody connects until the driver is reloaded. `ClientApp`
   has the same leak: a refused process goes to its pause without a connection,
   and so does every later one until the driver has been stopped and started again.
3. *Leaked device* (`driver_load_leak`), after a failed allocation or for driver
   names of 42 to 45 characters.
4. *Failed reinstallation* (`service_reinstall`). `WinSvcDelete` leaves its handle
   open (`WinSvcSup.cpp:61`), so the service stays marked for deletion and the
   installation that follows in the same process fails.

Noted without a run: with a handle open the closing assertions of `NdfCommRelease`
fail, since the clients stay listed (LegacyDrv never gets there); and a comment says
that `State` tells whether the pended IRPs were removed, while its bit is set before.
For the same reason the second caller of `NdfCommDisconnectClient` returns at once
(`NdfCommClient.c:111`): a release under an open handle may tell the driver, and
return, while the cleanup handler that set the bit still waits for message callbacks
and sends. `ReleaseLeavesQuiet` proves that this is the only such case, and that a
release without open handles, as in LegacyDrv, never meets it.

## What is proved

Every safety property of the passing runs is a theorem; what remains to TLC is
liveness. The proof modules:

| module | about | theorems |
|---|---|---|
| `SharedLemmas` | rundown references, removing from and appending to a sequence without repetition | lemmas only |
| `NdfCommClientProofs` | `NdfCommClient` | `Invariant`, `TypeCorrect`, `RequestCompletedOnce`, `QueueCorrect`, `NobodyStranded`, `SingleRundownWaiter`, `NobodyLeftInside` |
| `NdfCommClientChannelProofs` | `NdfCommClient`, `NdfCommClientChannel` | `ChannelInvariant`, `NotifiedWhenQuiet`, `OutcomeIsTrue`, `NoWakeupIsLost`, `ClientImplementsChannel` |
| the same | `NdfCommClientLibrary` | `DriverIsTold`, `ClientFreedUnused`, `ClientAgreesWithLibrary`, `ConnectionKeepsPromises`, `ReleaseLeavesQuiet`, `ClosingOnlyDrains`, `NobodyWaitsForTheWaiter`, `CancelledIsOwned` |
| `NdfCommLibraryProofs` | `NdfCommLibrary` | `LibraryInvariant`, `LibraryTypeCorrect`, `LimitHolds`, `CounterAccounts`, `ListCorrect`, `DriverToldOnce`, `CallbacksAreOver`, `LibraryImplementsSlots`, `NothingTurnsBack`, `NobodyWaitsInACircle`, `FirstRefusalIsRight` |
| `LegacyDriverProofs` | `LegacyDriver`, `UnicodeStrings` | `AssignKeepsFormed`, `DriverInvariant`, `DriverTypeCorrect`, `RequestsReachTheDriver`, `DriverEndsClean` |
| `UserLibraryProofs` | `UserLibrary` | `UserInvariant`, `UserTypeCorrect`, `NobodyCallsNull`, `VerdictIsOne`, `CallerHoldsItsHandle`, `NameIsPossible` |
| `WaitTimeProofs` | `WaitTime` | `RelativeExact`, `WaitInvariant`, `WaitTypeCorrect`, `TimeoutNeverEarly`, `WaitNeverDrifts` |
| `ClientAppProofs` | `ClientApp`, `ServiceManager` | `AppInvariant`, `AppTypeCorrect`, `StopNeverHeldBySelf`, `TogetherNothingIsLeft`, `CleanRunsClean`, `ProcessesGoOn`, `MarkedNeverForgotten` |

They rest on the named assumptions at the head of the modelled modules (finite sets
of actors, lengths and delays that are natural numbers, `None` is no actor) and on
one more, `FewFiles` of `NdfCommLibraryProofs`: the opens of one life of the driver
do not outnumber the values of a `LONG`. Without it the leak makes the counter wrap,
and the limit fails with it.

The arguments:

**A connection, first part** (`NdfCommClientProofs`, `IInv`).
- *Who owns a request.* `IrpInv` says that an uncompleted request has one party
  that will complete it: its insertion, whoever takes its cancel routine out (it
  is queued), its cancellation, or the sender that holds it (`HeldOnce`: one).
  These exclude each other, so nobody completes what was completed:
  `CompletedOnce`. With it the list is exactly the set of `Queued` requests:
  `QueueIntegrity`. `LockInv` ties the queue lock to the insertion that holds it,
  so nothing touches the list between its two halves.
- *Who is inside the client.* `Holders` names one element per acquisition that was
  not released: insertions under the lock, sends, message callbacks (a nested send
  is a second element of the same thread). `RundownInv` says that the reference
  counts exactly them, so a count of zero is an empty set, by the cardinality
  theorems for finite sets.
- *What the disconnection established.* `DisconnectInv`: in the drain the
  reference is marked and empty, so no insertion can be in flight; at its end no
  cancel routine is left, so no request is queued except for its own cancellation.
  Nothing can change that: `NoStrandedIrp`, and after the close handler, which
  waits for the last request, `NobodyInFreed`.
- *Who is on the way in.* `CalledInv`: after the first notification no thread of the
  driver is between its call and the acquisition, unless a notification is still
  going on.

**A connection, second part** (`NdfCommClientChannelProofs`, `ChannelInv` on top of
`IInv`).
- *When the driver is told.* While the cleanup handler notifies, it holds the
  library's reference, so a release has not got past its wait for it (`LibraryInv`).
  Then nobody is inside `NdfCommDisconnectClient`, the connection is drained and its
  reference empty. The same holds while the release notifies, unless the cleanup
  handler had set the `State` bit first and is still inside: `NotifyQuiescent`, with
  `ReleaseWhileOpen` either way.
- *What a send reports.* `MessageInv` ties the status of a thread to the requests
  its message is in, at every position of the loop: `SendOutcome`.
- *Units and requests.* As long as nothing disturbs, every queued request has a unit
  of the semaphore or a sender on its way to the queue (`WakeInv`: the length of the
  list is at most the semaphore and the number of dequeuing senders). A sender that
  looks in vain finds an empty list, so it takes nothing from anybody: `WakeupsKept`.
- *The refinement.* One lemma per action gives the channel's step or stutter; that
  the request taken is the first that fits is `NextIrp`, and that a line without one
  of its members is the same list on both sides is `RemoveOnly` with `QueueIntegrity`.

**A connection, third part** (the end of `NdfCommClientChannelProofs`).
- *The agreement with the library.* `ClientAgreesWithLibrary` has one lemma per step
  of the handlers; everything else leaves what the library knows of unchanged
  (`QuietStep`). What it needs of the connection is that the release finds nobody
  in the callback of the cleanup handler (`LibraryInv`) and that the list has its one
  entry until the close, which waits for the list lock. `ConnectionKeepsPromises`
  then states the library's own properties of the connection in full detail;
  `ShutdownInv` counts the notifications for it.
- *Who is never told.* `TellInv`: a handler that left the notification out had found
  the release begun, and a release that is through has told the driver or has found
  the list without the client. With it `NotificationsAccounted`, and with `CalledInv`
  that a call comes to a freed client in that one case only: `NoUseAfterFree`.
- *The safety half of the liveness properties.* That `NdfCommDisconnectClient` returns
  needs fairness and stays with TLC; the two reasons for it are proved.
  `ClosingOnlyDrains`: event and rundown stay set, nobody comes in, `ToExit` bounds
  the steps of everybody inside by four, and the queue that is drained only gets
  shorter. `NobodyWaitsForTheWaiter`: everybody inside has a step whose guard holds, and
  the queue lock is free or with an insertion that needs nothing more. For the
  second one the order in the code matters: the event is set before the wait
  (`ShutdownInv`). `CancelledIsOwned` is the reason why a cancellation completes: the
  cancelled request is with its insertion, its cancel routine or a sender that
  completes it, never in the queue waiting for a message.

**The library** (`NdfCommLibraryProofs`). `OutcomeInv` says what the progress of a
file object tells of its open; with it the counter is the cardinality of the places
taken and lost, so a test of the counter is a test of the places, and the abstract
guard `SlotFree` that of the code. `ReferenceInv` counts who is inside, which gives
`CallbacksOver` and, for the refinement, that nobody is on the way in when the
library is shut. `CursorInv` keeps the walk of the release inside a list that nobody
may change. The same three give the safety half of its liveness properties:
`NothingTurnsBack` (every step brings one file object or the release further, on a
measure that the model's positions give) and `NobodyWaitsInACircle` (when the release
waits for the handlers the list lock is free for them; when it has that lock no
create request is left that would want it). `FirstRefusalIsRight` says how far
`RefusedOnlyWhenFull`, which the code violates, does hold: until the first open
has kept its place.

**The driver and the strings** (`LegacyDriverProofs`). The invariant ties the
resources to the position: which devices are in the list and in which order (the
unload deletes the first), which functions are hooked. A hooked function has its
original saved; a request holds the driver's handler or goes through a saved one.
`AssignKeepsFormed` is about the helper alone, for all 16-bit lengths.

**The user library** (`UserLibraryProofs`). The outcome of the search is decided by
`exported`, which never changes, so threads that initialise together store the same
value and the flags cannot disagree; a thread past the initialisation has seen one
store of the pointer, and nobody resets it.

**The wait** (`WaitTimeProofs`). The end is fixed at the first look at the clock, at
most `MaxLag` after the call; the time that remains is always the end minus the last
look, cut at zero; so a deadline is the end plus what passed since that look, once
more at most `MaxLag`. `RelativeExact` is the macro.

**The application** (`ClientAppProofs`). The entry is always settled (`Quiet`): a
driver that was told to stop has a device open, a marked entry with a stopped driver
has a handle open, and who has either is a process that is not at its end
(`ProcessInv`). `DutyInv` says that a running driver and an unmarked service are left
to a process that will still stop and delete them; when a process finds the driver
stopping and gives up, whoever has the device open inherits the duty. `CleanInv` is
the same for an undisturbed process, which inherits whatever earlier ones left.
`ProcessesGoOn` (the positions within `main` only increase, but for the one way from
the installation to the removal) and `MarkedNeverForgotten` (a marked entry waits for
a process that still runs; only a driver that a failed or killed process left running
keeps it for nobody) are the reasons why a deletion comes to its end.

The run `client_release` also checks `IInv` of the client, with `TypeOK` in it, with
TLC. `AssignKeepsFormed` is not checked by a run: the function has no caller, and the
theorem is about all its inputs.

Only model-checked: the liveness properties (`CleanupTerminates`, `CancelCompletes`,
`TimedSendReturns`, both `ReleaseTerminates`, `RequestsEnd`, `DeletionCompletes`),
which are out of the prover's reach, and of course the four findings, which are
counterexamples. What a proof can say of the first ones without the fairness is in
`ClosingOnlyDrains`, `NobodyWaitsForTheWaiter`, `CancelledIsOwned`, `NothingTurnsBack`,
`NobodyWaitsInACircle`, `ProcessesGoOn` and `MarkedNeverForgotten`. None
concerns `TimedSendReturns`, which rests on the fairness of the timeout alone; that the
time of the wait is right is `WaitNeverDrifts` and `TimeoutNeverEarly`.

## Not modelled

- The bytes of a message and of the connection context, and what the sample handlers
  do with their text: no state of the library depends on them.
- Memory: an allocation succeeds or fails.
- `ReplyWaiterList`, `MessageIdGenerator`, `Event` and `MinimumWaiterLength`, which the
  code sets up and never uses to decide anything; requests with an unknown control
  code and `NDFCOMM_REPLY_MESSAGE`, which change no state; the check of
  `NdfCommInit`'s arguments.
- What no property covers although the code is exposed to it: the wrap of
  `ActiveClientsCount` after 2^31 refused opens, and a `MaxClients` too large for the
  `LONG` it is compared as; a driver that sends without a timeout from inside its
  connect callback, which then never returns (`RequestsEnd` assumes it does); delays
  that the timeout macro cannot hold, for which `TimeoutNotEarly` says nothing.
- A second `NdfCommInit` without a reload: LegacyDrv never does it.
- `NdfCommunicationSendMessage` and `NdfCommunicationGetMessage`, one request to the
  kernel each, whose side is `NdfCommClient`; `WinSvcStop`, which has no caller.
- The WDF driver, the unchanged template of the kit, which does not use the library;
  tracing and pool tags.

## Plan

Done: the connection, the library and the driver; both refinements; the strings, the
wait, the user library and the application; the proofs above. What could come next:

1. Two lives of the library in one driver (`NdfCommInit` after `NdfCommRelease`),
   with the saved handlers that then point to the library itself.
2. Several connections and the library in one module: the agreement is proved for
   one connection and an otherwise empty library.
3. A variant of the queue that gives a unit back when it takes no request, against
   `NoLostWakeup` without the condition `Undisturbed`.
