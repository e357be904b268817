---------------------- MODULE NdfCommClientChannelProofs ----------------------
(***************************************************************************)
(* What a connection promises to those who send over it: NdfCommClient     *)
(* reports the outcome of a send, loses no wake-up, tells the driver when  *)
(* nobody is inside, implements MessageChannel, agrees with NdfCommLibrary *)
(* and shuts down without a circular wait, for every finite set of         *)
(* requests and threads, every set of lengths and every choice of what may *)
(* be cancelled and when the library may be released.                      *)
(***************************************************************************)
EXTENDS NdfCommClientChannel, NdfCommClientLibrary, NdfCommClientProofs

-----------------------------------------------------------------------------
(***************************************************************************)
(* The inductive invariant, on top of IInv.                                *)
(***************************************************************************)
\* NdfCommRelease has begun the rundown of the library, and goes on only when
\* the cleanup handler is out of its callback.
LibraryInv ==
    /\ disc["release"] # "idle" => libRundown.active
    /\ disc["release"] \notin {"idle", "libwait"} =>
          disc["cleanup"] # "notifying"

\* Only a broken client is run down or signalled, only a cancelled request
\* goes through its cancel routine.
FlagInv ==
    /\ client.active => broken
    /\ disconnectEvent => broken
    /\ \A i \in Irps : cancelPc[i] # "none" => cancel[i]

\* A message that was copied is in a completed request; a status is reported
\* once, and a thread holds a request with room for its message.
SenderInv(t) ==
    /\ pc[t] \in {"idle", "deliver", "callback", "called"} => msgLen[t] = 0
    /\ pc[t] \in {"idle", "deliver", "callback", "called", "wait", "dequeue",
                 "complete"} => status[t] = "none"
    /\ pc[t] = "leave" => status[t] # "none"
    /\ pc[t] = "complete" => irpLen[held[t]] >= msgLen[t]
MessageInv ==
    /\ \A i \in Irps :
          /\ completions[i] = 0 => irpStatus[i] = "pending"
          /\ irpMsg[i] # None =>
                 completions[i] # 0 /\ irpStatus[i] = "success"
    /\ \A t \in Threads : SenderInv(t)
    /\ SendOutcome

\* A unit of the semaphore, or a sender on its way, for every queued request.
Dequeuing == {t \in Threads : pc[t] = "dequeue"}
WakeInv == Undisturbed => Len(queue) =< semaphore + Cardinality(Dequeuing)

ChannelInv == LibraryInv /\ FlagInv /\ MessageInv /\ WakeInv

-----------------------------------------------------------------------------
(***************************************************************************)
(* The library's rundown and the flags.                                    *)
(***************************************************************************)
USE DEF irpVars, queueVars, threadVars, discVars

\* The release goes on while no callback of the cleanup handler runs.
LEMMA LibraryNext == IInv /\ LibraryInv /\ [Next]_vars => LibraryInv'
<1> SUFFICES ASSUME IInv, LibraryInv, [Next]_vars PROVE LibraryInv'
  OBVIOUS
<1>0. /\ libRundown \in RundownRef
      /\ disc \in [Disconnectors -> CleanupPc \cup ReleasePc]
      /\ libRundown.count = IF disc["cleanup"] = "notifying" THEN 1 ELSE 0
  BY DEF IInv, TypeOK, RundownInv
<1>1. CASE UNCHANGED discVars
  BY <1>1 DEF LibraryInv
<1>2. ASSUME NEW d \in Disconnectors, DisconnectClient(d)
      PROVE  LibraryInv'
  <2>1. libRundown' = libRundown
    BY <1>2, DisconnectFrame
  <2>2. disc' = disc \/
          /\ disc[d] \notin {"idle", "libwait"}
          /\ \E label \in {"signal", "begin", "wait", "drain", "notify"} :
                disc' = [disc EXCEPT ![d] = label]
    BY <1>2
       DEF DisconnectClient, CheckDisconnected, SignalDisconnect,
           BeginClientRundown, ClientRundownDone, DrainNext, DrainDone, Goto
  <2>3. CASE disc' = disc
    BY <2>1, <2>3 DEF LibraryInv
  <2>4. ASSUME NEW label \in {"signal", "begin", "wait", "drain", "notify"},
               disc[d] \notin {"idle", "libwait"},
               disc' = [disc EXCEPT ![d] = label]
        PROVE  LibraryInv'
    <3>1. CASE d = "cleanup"
      BY <1>0, <2>1, <2>4, <3>1 DEF LibraryInv, Disconnectors
    <3>2. CASE d = "release"
      BY <1>0, <2>1, <2>4, <3>2 DEF LibraryInv, Disconnectors
    <3> QED BY <3>1, <3>2 DEF Disconnectors
  <2> QED BY <2>2, <2>3, <2>4
<1>3. CASE StartCleanup \/ CleanupSkipNotify \/ CleanupUncount
             \/ CloseRequest
  BY <1>0, <1>3
     DEF LibraryInv, StartCleanup, CleanupSkipNotify, CleanupUncount,
         CloseRequest,
         Goto, Disconnectors
<1>4. CASE CleanupNotify
  BY <1>0, <1>4, RundownAcquire
     DEF LibraryInv, CleanupNotify, Goto, Disconnectors, CanAcquire
<1>5. CASE CleanupNotified
  <2>1. libRundown'.active = libRundown.active
    BY <1>0, <1>5, RundownRelease DEF CleanupNotified
  <2> QED BY <1>0, <1>5, <2>1
          DEF LibraryInv, CleanupNotified, Goto, Disconnectors
<1>6. CASE StartRelease
  BY <1>0, <1>6, RundownBegin
     DEF LibraryInv, StartRelease, Goto, Disconnectors
<1>7. CASE LibraryRundownDone
  BY <1>0, <1>7
     DEF LibraryInv, LibraryRundownDone, Goto, Disconnectors,
         RundownReleased
<1>8. CASE LockClientList \/ ReleaseNotify \/ ReleaseNotified
             \/ UnlockClientList
  BY <1>0, <1>8
     DEF LibraryInv, LockClientList, ReleaseNotify, ReleaseNotified,
         UnlockClientList, Goto, Disconnectors
<1>9. CASE HandlerStep
  BY <1>1, <1>3, <1>4, <1>5, <1>6, <1>7, <1>8, <1>9
     DEF HandlerStep, Cleanup, Release, Terminated, vars
<1> QED
  BY <1>1, <1>2, <1>9, NextSteps, IrpStepFrame, ThreadStepFrame DEF vars

\* The client is run down and the event set only after the State bit; a
\* cancel routine runs only for a cancelled request.
LEMMA FlagNext == IInv /\ FlagInv /\ [Next]_vars => FlagInv'
<1> SUFFICES ASSUME IInv, FlagInv, [Next]_vars PROVE FlagInv'
  OBVIOUS
<1>0. /\ TypeOK /\ client \in RundownRef /\ RundownInv
      /\ \A d \in Disconnectors : disc[d] \in InDisconnect => broken
  BY DEF IInv, TypeOK, DisconnectInv
<1>1. ASSUME client'.active = client.active, broken' = broken,
             disconnectEvent' = disconnectEvent, UNCHANGED <<cancel, cancelPc>>
      PROVE  FlagInv'
  BY <1>1 DEF FlagInv
<1>2. ASSUME NEW i \in Irps, IrpStep(i) PROVE FlagInv'
  <2>1. client'.active = client.active
    <3>1. CASE InsertAcquire(i)
      BY <1>0, <3>1, RundownAcquire DEF InsertAcquire
    <3>2. CASE InsertAdd(i)
      <4>1. <<"insert", i>> \in Holders
        BY <3>2 DEF InsertAdd, Holders
      <4>2. client.count > 0
        BY <1>0, <4>1, HolderCounted
      <4> QED BY <1>0, <3>2, <4>2, RundownRelease DEF InsertAdd
    <3>3. CASE ~InsertAcquire(i) /\ ~InsertAdd(i)
      BY <1>2, <3>3
         DEF IrpStep, Insert, Cancellation, Issue, InsertRefused,
             InsertFinish, CancelIrp, CancelRemove, CompleteCanceledIrp
    <3> QED BY <3>1, <3>2, <3>3
  <2>2. broken' = broken /\ disconnectEvent' = disconnectEvent
    BY <1>2, IrpStepFrame
  <2>3. ASSUME NEW j \in Irps, cancelPc'[j] # "none" PROVE cancel'[j]
    <3>1. CASE CancelIrp(i)
      BY <1>0, <2>3, <3>1 DEF FlagInv, TypeOK, CancelIrp
    <3>2. CASE InsertFinish(i)
      BY <1>0, <2>3, <3>2 DEF FlagInv, TypeOK, InsertFinish
    <3>3. CASE CancelRemove(i) \/ CompleteCanceledIrp(i)
      <4>1. cancel' = cancel /\ cancelPc[i] # "none"
        BY <3>3 DEF CancelRemove, CompleteCanceledIrp
      <4>2. j # i => cancelPc'[j] = cancelPc[j]
        BY <1>0, <3>3 DEF CancelRemove, CompleteCanceledIrp, TypeOK
      <4> QED BY <2>3, <4>1, <4>2, Zenon DEF FlagInv
    <3>4. CASE UNCHANGED <<cancel, cancelPc>>
      BY <2>3, <3>4 DEF FlagInv
    <3> QED
      BY <1>2, <3>1, <3>2, <3>3, <3>4
         DEF IrpStep, Insert, Cancellation, Issue, InsertAcquire,
             InsertRefused, InsertAdd
  <2> QED BY <2>1, <2>2, <2>3 DEF FlagInv
<1>3. ASSUME NEW t \in Threads, ThreadStep(t) PROVE FlagInv'
  <2>1. client'.active = client.active
    <3>1. CASE DeliverEnter(t) \/ \E n \in Lengths, b \in HasTimeout :
                                      SendEnter(t, n, b)
      BY <1>0, <3>1, RundownAcquire DEF DeliverEnter, SendEnter
    <3>2. CASE CallbackReturn(t)
      <4>1. <<"callback", t>> \in Holders
        BY <3>2 DEF CallbackReturn, Holders, IInv, ThreadInv
      <4>2. client.count > 0
        BY <1>0, <4>1, HolderCounted
      <4> QED BY <1>0, <3>2, <4>2, RundownRelease DEF CallbackReturn
    <3>3. CASE SendLeave(t)
      <4>1. <<"send", t>> \in Holders
        BY <3>3 DEF SendLeave, Holders, InSend
      <4>2. client.count > 0
        BY <1>0, <4>1, HolderCounted
      <4> QED BY <1>0, <3>3, <4>2, RundownRelease DEF SendLeave
    <3>4. CASE /\ ~DeliverEnter(t) /\ ~CallbackReturn(t) /\ ~SendLeave(t)
               /\ ~\E n \in Lengths, b \in HasTimeout : SendEnter(t, n, b)
      BY <1>3, <3>4
         DEF ThreadStep, Deliver, SendStart, Wake, Dequeue, SendFinish,
             UserSend, DeliverRefused, DeliverInvalid, SendCall, SendRefused,
             WaitDisconnected, WaitSemaphore, WaitTimeout, WaitAlerted,
             SendDequeue, SendRetry,
             SendComplete
    <3> QED BY <3>1, <3>2, <3>3, <3>4
  <2> QED BY <1>1, <1>3, <2>1, ThreadStepFrame
<1>4. ASSUME NEW d \in Disconnectors, DisconnectClient(d)
      PROVE  FlagInv'
  <2>1. UNCHANGED <<cancel, cancelPc>>
    BY <1>4, DisconnectFrame
  <2>2. broken' /\ (broken => broken')
    BY <1>0, <1>4
       DEF DisconnectClient, CheckDisconnected, SignalDisconnect,
           BeginClientRundown, ClientRundownDone, DrainNext, DrainDone,
           InDisconnect
  <2> QED BY <2>1, <2>2 DEF FlagInv
<1>5. CASE HandlerStep
  BY <1>1, <1>5, HandlerFrame
<1> QED BY <1>1, <1>2, <1>3, <1>4, <1>5, NextSteps DEF vars

-----------------------------------------------------------------------------
(***************************************************************************)
(* Messages and what is reported of them.                                  *)
(***************************************************************************)
\* A request that is completed without a message was in nobody's hands.
LEMMA CompletedUnread ==
    ASSUME TypeOK, MessageInv, NEW i \in Irps, completions[i] = 0,
           NEW st \in {"cancelled", "disconnected"}, Complete(i, st),
           UNCHANGED <<irpLen, irpMsg, threadVars>>
    PROVE  MessageInv'
<1>1. \A j \in Irps : j # i => /\ completions'[j] = completions[j]
                              /\ irpStatus'[j] = irpStatus[j]
  BY DEF Complete, TypeOK
<1>2. completions'[i] # 0 /\ irpMsg[i] = None
  BY DEF Complete, TypeOK, MessageInv
<1>3. \A j \in Irps : /\ completions'[j] = 0 => irpStatus'[j] = "pending"
                      /\ irpMsg'[j] # None => /\ completions'[j] # 0
                                              /\ irpStatus'[j] = "success"
  BY <1>1, <1>2 DEF MessageInv
<1>4. \A t \in Threads : SenderInv(t)'
  BY DEF MessageInv, SenderInv
<1>5. \A t \in Threads : Receivers(t)' = Receivers(t) /\ i \notin Receivers(t)
  BY <1>2, NoneAssumption DEF Receivers
<1>6. SendOutcome'
  BY <1>1, <1>5 DEF MessageInv, SendOutcome
<1> QED BY <1>3, <1>4, <1>6 DEF MessageInv

\* A step of one sender that completes no request.
LEMMA SenderMoves ==
    ASSUME MessageInv, NEW t \in Threads,
           UNCHANGED <<irpLen, completions, irpStatus, irpMsg>>,
           \A u \in Threads : u # t => /\ pc'[u] = pc[u]
                                      /\ msgLen'[u] = msgLen[u]
                                      /\ held'[u] = held[u]
                                      /\ status'[u] = status[u],
           SenderInv(t)',
           \/ status'[t] = status[t] /\ msgLen'[t] = msgLen[t]
           \/ /\ status[t] = "none"
              /\ status'[t] \in {"none", "timeout", "disconnected"}
    PROVE  MessageInv'
<1>1. \A u \in Threads : u # t => SenderInv(u)'
  BY DEF MessageInv, SenderInv
<1>2. \A u \in Threads : Receivers(u)' = Receivers(u)
  BY DEF Receivers
<1>3. \A u \in Threads : u # t => /\ msgLen'[u] = msgLen[u]
                                  /\ status'[u] = status[u]
  OBVIOUS
<1>4. SendOutcome'
  <2>1. SendOutcome
    BY DEF MessageInv
  <2>2. ASSUME NEW u \in Threads, status'[u] = status[u],
               msgLen'[u] = msgLen[u]
        PROVE  /\ status'[u] \in {"success", "unsuccessful"} =>
                     \E i \in Irps : /\ Receivers(u)' = {i}
                                    /\ irpStatus'[i] = "success"
                                    /\ irpLen'[i] >= msgLen'[u]
               /\ status'[u] = "unsuccessful" => msgLen'[u] = 0
               /\ status'[u] \in {"none", "timeout", "disconnected"} =>
                     Receivers(u)' = {}
    BY <1>2, <2>1, <2>2 DEF SendOutcome
  <2>3. CASE status'[t] = status[t] /\ msgLen'[t] = msgLen[t]
    BY <1>3, <2>2, <2>3 DEF SendOutcome
  <2>4. CASE /\ status[t] = "none"
             /\ status'[t] \in {"none", "timeout", "disconnected"}
    <3>1. Receivers(t)' = {}
      BY <1>2, <2>1, <2>4 DEF SendOutcome
    <3> QED BY <1>3, <2>2, <2>4, <3>1 DEF SendOutcome
  <2> QED BY <2>3, <2>4
<1> QED BY <1>1, <1>4 DEF MessageInv

\* Every step of a sender keeps the outcomes.
LEMMA SenderKeeps ==
    ASSUME IInv, MessageInv, NEW t \in Threads, ThreadStep(t)
    PROVE  MessageInv'
<1>0. /\ pc \in [Threads -> {"idle", "deliver", "callback", "called",
                             "returned", "done"} \cup InSend]
      /\ msgLen \in [Threads -> Lengths \cup {0}]
      /\ held \in [Threads -> Irps \cup {None}]
      /\ status \in [Threads -> {"none", "success", "unsuccessful", "timeout",
                                 "disconnected"}]
      /\ SenderInv(t)
  BY DEF IInv, TypeOK, MessageInv
<1>1. CASE UserSend(t)
  BY <1>0, <1>1, SenderMoves DEF UserSend, SenderInv
<1>2. CASE DeliverEnter(t)
  BY <1>0, <1>2, SenderMoves DEF DeliverEnter, SenderInv
<1>3. CASE DeliverRefused(t)
  BY <1>0, <1>3, SenderMoves DEF DeliverRefused, SenderInv
<1>15. CASE DeliverInvalid(t)
  BY <1>0, <1>15, SenderMoves DEF DeliverInvalid, SenderInv
<1>4. CASE CallbackReturn(t)
  BY <1>0, <1>4, SenderMoves DEF CallbackReturn, SenderInv
<1>16. CASE SendCall(t)
  BY <1>0, <1>16, SenderMoves DEF SendCall, MaySend, SenderInv
<1>5. CASE SendRefused(t)
  BY <1>0, <1>5, SenderMoves DEF SendRefused, SenderInv, Acquiring, Returned
<1>6. CASE WaitDisconnected(t)
  BY <1>0, <1>6, SenderMoves DEF WaitDisconnected, SenderInv
<1>7. CASE WaitSemaphore(t)
  BY <1>0, <1>7, SenderMoves DEF WaitSemaphore, SenderInv
<1>8. CASE WaitTimeout(t)
  BY <1>0, <1>8, SenderMoves DEF WaitTimeout, SenderInv
<1>9. CASE WaitAlerted(t)
  BY <1>0, <1>9, SenderMoves DEF WaitAlerted, SenderInv
<1>10. CASE SendRetry(t)
  BY <1>0, <1>10, SenderMoves DEF SendRetry, SenderInv
<1>11. CASE SendLeave(t)
  BY <1>0, <1>11, SenderMoves DEF SendLeave, SenderInv, Returned
<1>12. ASSUME NEW n \in Lengths, NEW b \in HasTimeout, SendEnter(t, n, b)
      PROVE  MessageInv'
  BY <1>0, <1>12, SenderMoves DEF SendEnter, SenderInv, Acquiring
<1>13. ASSUME NEW i \in Irps, SendDequeue(t, i) PROVE MessageInv'
  <2>1. irpLen[i] >= msgLen[t]
    BY <1>13 DEF SendDequeue, IsNextIrp, Suitable
  <2> QED BY <1>0, <1>13, <2>1, SenderMoves DEF SendDequeue, SenderInv
<1>14. CASE SendComplete(t)
  <2> DEFINE i == held[t]
  <2>1. i \in Irps /\ Taken(i) /\ completions[i] = 0
    BY <1>14 DEF SendComplete, IInv, ThreadInv, IrpInv, Taken
  <2>2. /\ completions \in [Irps -> Nat]
        /\ irpMsg \in [Irps -> Threads \cup {None}]
        /\ irpStatus \in [Irps -> {"pending", "success", "cancelled",
                                   "disconnected"}]
    BY DEF IInv, TypeOK
  <2>3. irpMsg[i] = None /\ Receivers(t) = {}
    BY <1>0, <1>14, <2>1 DEF SendComplete, MessageInv, SenderInv, SendOutcome
  <2> HIDE DEF i
  <2>4. /\ completions' = [completions EXCEPT ![i] = @ + 1]
        /\ irpStatus' = [irpStatus EXCEPT ![i] = "success"]
        /\ irpMsg' = [irpMsg EXCEPT ![i] = t]
        /\ irpLen' = irpLen /\ msgLen' = msgLen /\ held' = held
        /\ pc' = [pc EXCEPT ![t] = "leave"]
        /\ irpLen[i] >= msgLen[t]
    BY <1>0, <1>14 DEF SendComplete, Complete, SenderInv, i
  <2>5. /\ \A u \in Threads : u # t => status'[u] = status[u]
        /\ status'[t] \in {"success", "unsuccessful"}
    BY <1>0, <1>14 DEF SendComplete, CopyStatus
  <2>13. status'[t] = "unsuccessful" => msgLen'[t] = 0
    <3>1. status'[t] = "unsuccessful" => irpLen[i] = 0
      BY <1>0, <1>14 DEF SendComplete, CopyStatus, i
    <3>2. msgLen[t] \in Nat
      <4>1. Lengths \cup {0} \subseteq Nat
        BY LengthsAssumption
      <4> QED BY <1>0, <4>1
    <3> QED BY <2>4, <3>1, <3>2
  <2>6. \A j \in Irps : /\ completions'[j] = 0 => irpStatus'[j] = "pending"
                        /\ irpMsg'[j] # None => /\ completions'[j] # 0
                                                /\ irpStatus'[j] = "success"
    BY <2>1, <2>2, <2>4 DEF MessageInv
  <2>7. \A u \in Threads : SenderInv(u)'
    BY <1>0, <2>4, <2>5 DEF MessageInv, SenderInv
  <2>8. /\ Receivers(t)' = {i}
        /\ \A u \in Threads : u # t => Receivers(u)' = Receivers(u)
    BY <2>1, <2>2, <2>3, <2>4, NoneAssumption DEF Receivers
  <2>9. irpStatus'[i] = "success" /\ irpLen'[i] >= msgLen'[t]
    BY <2>1, <2>2, <2>4
  <2>10. \A j \in Irps : irpStatus[j] = "success" => irpStatus'[j] = "success"
    BY <2>1, <2>2, <2>4
  <2>11. ASSUME NEW u \in Threads
         PROVE  /\ status'[u] \in {"success", "unsuccessful"} =>
                      \E j \in Irps : /\ Receivers(u)' = {j}
                                     /\ irpStatus'[j] = "success"
                                     /\ irpLen'[j] >= msgLen'[u]
                /\ status'[u] = "unsuccessful" => msgLen'[u] = 0
                /\ status'[u] \in {"none", "timeout", "disconnected"} =>
                      Receivers(u)' = {}
    <3>1. CASE u = t
      BY <2>1, <2>5, <2>8, <2>9, <2>13, <3>1
    <3>2. CASE u # t
      BY <2>4, <2>5, <2>8, <2>10, <3>2 DEF MessageInv, SendOutcome
    <3> QED BY <3>1, <3>2
  <2>12. SendOutcome'
    BY <2>11 DEF SendOutcome
  <2> QED BY <2>6, <2>7, <2>12 DEF MessageInv
<1> QED
  BY <1>1, <1>2, <1>3, <1>4, <1>5, <1>6, <1>7, <1>8, <1>9, <1>10,
     <1>11, <1>12, <1>13, <1>14, <1>15, <1>16
     DEF ThreadStep, Deliver, SendStart, Wake, Dequeue, SendFinish

\* Every step keeps the outcomes.
LEMMA MessageNext == IInv /\ MessageInv /\ [Next]_vars => MessageInv'
<1> SUFFICES ASSUME IInv, MessageInv, [Next]_vars PROVE MessageInv'
  OBVIOUS
<1>0. TypeOK /\ IrpInv
  BY DEF IInv
<1>1. ASSUME UNCHANGED <<irpLen, completions, irpStatus, irpMsg, threadVars>>
      PROVE  MessageInv'
  BY <1>1 DEF MessageInv, SenderInv, SendOutcome, Receivers
<1>2. ASSUME NEW i \in Irps, NEW n \in Lengths, Issue(i, n)
      PROVE  MessageInv'
  <2>1. /\ \A j \in Irps : j # i => irpLen'[j] = irpLen[j]
        /\ UNCHANGED <<completions, irpStatus, irpMsg, threadVars>>
    BY <1>0, <1>2 DEF Issue, TypeOK
  <2>2. ~Taken(i) /\ irpMsg[i] = None
    BY <1>0, <1>2 DEF Issue, IrpInv, MessageInv
  <2>3. \A t \in Threads : SenderInv(t)'
    BY <1>0, <2>1, <2>2 DEF MessageInv, SenderInv, Taken, IInv, ThreadInv
  <2>4. \A t \in Threads : Receivers(t)' = Receivers(t) /\ i \notin Receivers(t)
    BY <2>1, <2>2, NoneAssumption DEF Receivers
  <2>5. SendOutcome'
    BY <2>1, <2>4 DEF MessageInv, SendOutcome, Receivers
  <2> QED BY <2>1, <2>3, <2>5 DEF MessageInv
<1>3. ASSUME NEW i \in Irps, IrpStep(i) PROVE MessageInv'
  <2>1. CASE InsertRefused(i)
    BY <1>0, <2>1, CompletedUnread DEF InsertRefused, IrpInv
  <2>2. CASE CompleteCanceledIrp(i)
    BY <1>0, <2>2, CompletedUnread DEF CompleteCanceledIrp, IrpInv
  <2> QED
    BY <1>1, <1>2, <1>3, <2>1, <2>2
       DEF IrpStep, Insert, Cancellation, InsertAcquire, InsertAdd,
           InsertFinish, CancelIrp, CancelRemove
<1>4. ASSUME NEW d \in Disconnectors, DisconnectClient(d)
      PROVE  MessageInv'
  <2>1. ASSUME NEW i \in Irps, DrainNext(d, i) PROVE MessageInv'
    <3>1. completions[i] = 0
      BY <1>0, <2>1, NextIrp DEF DrainNext, Suitable, IrpInv
    <3> QED BY <1>0, <2>1, <3>1, CompletedUnread DEF DrainNext
  <2> QED
    BY <1>1, <1>4, <2>1
       DEF DisconnectClient, CheckDisconnected, SignalDisconnect,
           BeginClientRundown, ClientRundownDone, DrainDone
<1> QED
  BY <1>1, <1>3, <1>4, SenderKeeps, NextSteps, HandlerFrame DEF vars

-----------------------------------------------------------------------------
(***************************************************************************)
(* Units of the semaphore.                                                 *)
(***************************************************************************)
\* Senders on their way to the queue are counted; one more or one less
\* changes the count by one.
LEMMA DequeuingFinite ==
    /\ IsFiniteSet(Dequeuing) /\ Cardinality(Dequeuing) \in Nat
    /\ IsFiniteSet(Dequeuing') /\ Cardinality(Dequeuing') \in Nat
<1>1. IsFiniteSet(Dequeuing)
  BY FiniteAssumption, FS_Subset DEF Dequeuing
<1>2. IsFiniteSet(Dequeuing')
  BY FiniteAssumption, FS_Subset DEF Dequeuing
<1> QED BY <1>1, <1>2, FS_CardinalityType

\* A sender goes on to the queue.
LEMMA SenderWakes ==
    ASSUME TypeOK, NEW t \in Threads, pc[t] = "wait",
           pc' = [pc EXCEPT ![t] = "dequeue"]
    PROVE  Cardinality(Dequeuing') = Cardinality(Dequeuing) + 1
<1>1. Dequeuing' = Dequeuing \cup {t} /\ t \notin Dequeuing
  BY DEF Dequeuing, TypeOK
<1> QED BY <1>1, DequeuingFinite, FS_AddElement

\* A sender comes away from it.
LEMMA SenderServed ==
    ASSUME TypeOK, NEW t \in Threads, pc[t] = "dequeue",
           NEW l, l # "dequeue", pc' = [pc EXCEPT ![t] = l]
    PROVE  Cardinality(Dequeuing') = Cardinality(Dequeuing) - 1
<1>1. Dequeuing' = Dequeuing \ {t} /\ t \in Dequeuing
  BY DEF Dequeuing, TypeOK
<1> QED BY <1>1, DequeuingFinite, FS_RemoveElement

\* A request that is unlinked makes the list shorter by one.
LEMMA UnlinkLength ==
    ASSUME TypeOK, NEW i \in ToSet(queue)
    PROVE  Len(Unlink(queue, i)) = Len(queue) - 1
<1> DEFINE m == CHOOSE k \in DOMAIN queue : queue[k] = i
<1>1. queue \in Seq(Irps)
  BY DEF TypeOK
<1>2. m \in 1 .. Len(queue)
  BY <1>1 DEF ToSet
<1>3. Unlink(queue, i) = RemoveAt(queue, m)
  BY DEF Unlink
<1> HIDE DEF m
<1> QED BY <1>1, <1>2, <1>3, RemoveAtElements

\* A connection that is undisturbed was so before.
LEMMA UndisturbedBefore ==
    ASSUME IInv, MessageInv, [Next]_vars, Undisturbed'
    PROVE  Undisturbed
<1>0. /\ TypeOK /\ irpLen \in [Irps -> Nat]
      /\ \A i \in Irps : /\ ~cancel'[i]
                         /\ irpPc'[i] # "idle" =>
                               \A t \in Threads : irpLen'[i] >= msgLen'[t]
  <2>1. TypeOK
    BY DEF IInv
  <2>2. irpLen \in [Irps -> Nat]
    <3>1. irpLen \in [Irps -> Lengths \cup {0}]
      BY <2>1 DEF TypeOK
    <3>2. Lengths \cup {0} \subseteq Nat
      BY LengthsAssumption
    <3> QED BY <3>1, <3>2
  <2>3. ASSUME NEW i \in Irps
        PROVE  /\ ~cancel'[i]
               /\ irpPc'[i] # "idle" =>
                     \A t \in Threads : irpLen'[i] >= msgLen'[t]
    BY DEF Undisturbed
  <2> QED BY <2>1, <2>2, <2>3
<1>1. CASE UNCHANGED <<irpPc, irpLen, cancel, msgLen>>
  BY <1>0, <1>1 DEF Undisturbed
<1>2. ASSUME NEW i \in Irps, IrpStep(i) PROVE Undisturbed
  <2>1. \A j \in Irps : irpPc[j] # "idle" =>
            irpPc'[j] # "idle" /\ irpLen'[j] = irpLen[j]
    BY <1>0, <1>2
       DEF TypeOK, IrpStep, Insert, Cancellation, Issue, InsertAcquire,
           InsertRefused, InsertAdd, InsertFinish, CancelIrp, CancelRemove,
           CompleteCanceledIrp
  <2>2. \A j \in Irps : ~cancel[j]
    <3>1. CASE CancelIrp(i)
      BY <1>0, <3>1 DEF CancelIrp, TypeOK
    <3>2. CASE cancel' = cancel
      BY <1>0, <3>2
    <3> QED
      BY <1>2, <3>1, <3>2
         DEF IrpStep, Insert, Cancellation, Issue, InsertAcquire,
             InsertRefused, InsertAdd, InsertFinish, CancelRemove,
             CompleteCanceledIrp
  <2>3. msgLen' = msgLen
    BY <1>2, IrpStepFrame
  <2> QED BY <1>0, <2>1, <2>2, <2>3 DEF Undisturbed
<1>3. ASSUME NEW t \in Threads, ThreadStep(t) PROVE Undisturbed
  <2>1. UNCHANGED <<irpPc, irpLen, cancel>>
    BY <1>3, ThreadStepFrame
  <2>2. ASSUME NEW n \in Lengths, NEW b \in HasTimeout, SendEnter(t, n, b)
        PROVE  Undisturbed
    <3>1. msgLen[t] = 0
      BY <2>2 DEF SendEnter, Acquiring, MessageInv, SenderInv
    <3>2. \A u \in Threads : u # t => msgLen'[u] = msgLen[u]
      BY <1>0, <2>2 DEF SendEnter, TypeOK
    <3> QED BY <1>0, <2>1, <3>1, <3>2 DEF Undisturbed
  <2>3. CASE msgLen' = msgLen
    BY <1>1, <2>1, <2>3
  <2> QED
    BY <1>3, <2>2, <2>3
       DEF ThreadStep, Deliver, SendStart, Wake, Dequeue, SendFinish,
           UserSend, DeliverEnter, DeliverRefused, DeliverInvalid,
           CallbackReturn, SendCall, SendRefused, WaitDisconnected,
           WaitSemaphore, WaitTimeout,
           WaitAlerted, SendDequeue, SendRetry, SendComplete, SendLeave
<1> QED
  BY <1>1, <1>2, <1>3, NextSteps, DisconnectFrame, HandlerFrame DEF vars

\* Every step keeps a unit for each queued request.
LEMMA WakeNext ==
    IInv /\ FlagInv /\ MessageInv /\ WakeInv /\ [Next]_vars => WakeInv'
<1> SUFFICES ASSUME IInv, FlagInv, MessageInv, WakeInv, [Next]_vars,
                    Undisturbed'
             PROVE  Len(queue') =< semaphore' + Cardinality(Dequeuing')
  BY DEF WakeInv
<1> DEFINE Goal == Len(queue') =< semaphore' + Cardinality(Dequeuing')
<1>0. /\ TypeOK /\ LockInv /\ QueueIntegrity
      /\ queue \in Seq(Irps) /\ Len(queue) \in Nat /\ semaphore \in Nat
      /\ Cardinality(Dequeuing) \in Nat /\ Cardinality(Dequeuing') \in Nat
  BY DequeuingFinite DEF IInv, TypeOK
<1>1. /\ Undisturbed
      /\ \A i \in Irps : ~cancel[i] /\ cancelPc[i] = "none"
      /\ Len(queue) =< semaphore + Cardinality(Dequeuing)
  BY UndisturbedBefore DEF FlagInv, WakeInv, Undisturbed
<1>2. ASSUME UNCHANGED <<queue, semaphore, pc>> PROVE Goal
  BY <1>1, <1>2 DEF Dequeuing
<1>3. ASSUME NEW i \in Irps, IrpStep(i) PROVE Goal
  <2>1. pc' = pc /\ Dequeuing' = Dequeuing
    BY <1>3, IrpStepFrame DEF Dequeuing
  <2>2. CASE InsertAdd(i)
    BY <1>0, <1>1, <2>1, <2>2 DEF InsertAdd
  <2>3. CASE UNCHANGED <<queue, semaphore>>
    BY <1>2, <2>1, <2>3
  <2>4. CASE InsertFinish(i)
    BY <1>1, <2>3, <2>4 DEF InsertFinish
  <2> QED
    BY <1>1, <1>3, <2>2, <2>3, <2>4
       DEF IrpStep, Insert, Cancellation, Issue, InsertAcquire, InsertRefused,
           CancelIrp, CancelRemove, CompleteCanceledIrp
<1>4. ASSUME NEW t \in Threads, ThreadStep(t) PROVE Goal
  <2>1. CASE WaitSemaphore(t)
    <3>1. Cardinality(Dequeuing') = Cardinality(Dequeuing) + 1
      BY <1>0, <2>1, SenderWakes DEF WaitSemaphore
    <3>2. queue' = queue /\ semaphore' \in {semaphore, semaphore - 1}
      BY <2>1 DEF WaitSemaphore
    <3> QED BY <1>0, <1>1, <3>1, <3>2
  <2>2. CASE WaitAlerted(t)
    <3>1. Cardinality(Dequeuing') = Cardinality(Dequeuing) + 1
      BY <1>0, <2>2, SenderWakes DEF WaitAlerted
    <3>2. queue' = queue /\ semaphore' \in {semaphore, semaphore - 1}
      BY <2>2 DEF WaitAlerted
    <3> QED BY <1>0, <1>1, <3>1, <3>2
  <2>3. ASSUME NEW i \in Irps, SendDequeue(t, i) PROVE Goal
    <3>1. i \in ToSet(queue)
      BY <1>0, <2>3, NextIrp DEF SendDequeue
    <3>2. Len(queue') = Len(queue) - 1
      BY <1>0, <2>3, <3>1, UnlinkLength DEF SendDequeue
    <3>3. Cardinality(Dequeuing') = Cardinality(Dequeuing) - 1
      BY <1>0, <2>3, SenderServed DEF SendDequeue
    <3> QED BY <1>0, <1>1, <2>3, <3>2, <3>3 DEF SendDequeue
  <2>4. CASE SendRetry(t)
    <3>1. ASSUME NEW i \in ToSet(queue) PROVE FALSE
      <4>1. i \in Irps /\ Queued(i) /\ irpPc[i] # "added"
        BY <1>0, <2>4, NoneAssumption DEF SendRetry, QueueIntegrity, LockInv
      <4>2. cancelRoutine[i]
        BY <1>1, <4>1 DEF Queued
      <4>3. irpPc[i] # "idle"
        BY <4>1, <4>2 DEF IInv, IrpInv
      <4>4. Suitable(i, msgLen[t])
        BY <1>1, <4>1, <4>2, <4>3 DEF Suitable, Undisturbed
      <4> QED BY <2>4, <4>4 DEF SendRetry, NoNextIrp
    <3>2. Len(queue) = 0
      <4>1. CASE Len(queue) > 0
        <5>1. 1 \in DOMAIN queue
          BY <1>0, <4>1
        <5>2. queue[1] \in ToSet(queue)
          BY <5>1 DEF ToSet
        <5> QED BY <3>1, <5>2
      <4> QED BY <1>0, <4>1
    <3> QED BY <1>0, <2>4, <3>2 DEF SendRetry
  <2>5. CASE /\ UNCHANGED <<queue, semaphore>>
             /\ pc[t] # "dequeue" /\ pc'[t] # "dequeue"
             /\ pc' = [pc EXCEPT ![t] = pc'[t]]
    <3>1. Dequeuing' = Dequeuing
      BY <1>0, <2>5 DEF Dequeuing, TypeOK
    <3> QED BY <1>1, <2>5, <3>1
  <2>6. pc \in [Threads -> {"idle", "deliver", "callback", "called",
                             "returned", "done"} \cup InSend]
    BY <1>0 DEF TypeOK
  <2> QED
    BY <1>4, <2>1, <2>2, <2>3, <2>4, <2>5, <2>6
       DEF ThreadStep, Deliver, SendStart, Wake, Dequeue, SendFinish,
           UserSend, DeliverEnter, DeliverRefused, DeliverInvalid,
           CallbackReturn, SendCall, SendEnter, SendRefused, WaitDisconnected,
           WaitTimeout, SendComplete,
           SendLeave, Returned, MaySend, Acquiring
<1>5. ASSUME NEW d \in Disconnectors, DisconnectClient(d) PROVE Goal
  <2>1. pc' = pc /\ Dequeuing' = Dequeuing
    BY <1>5, DisconnectFrame DEF Dequeuing
  <2>2. ASSUME NEW i \in Irps, DrainNext(d, i) PROVE Goal
    <3>1. i \in ToSet(queue)
      BY <1>0, <2>2, NextIrp DEF DrainNext
    <3>2. Len(queue') = Len(queue) - 1
      BY <1>0, <2>2, <3>1, UnlinkLength DEF DrainNext
    <3> QED BY <1>0, <1>1, <2>1, <2>2, <3>2 DEF DrainNext
  <2> QED
    BY <1>2, <1>5, <2>1, <2>2
       DEF DisconnectClient, CheckDisconnected, SignalDisconnect,
           BeginClientRundown, ClientRundownDone, DrainDone
<1> QED
  BY <1>2, <1>3, <1>4, <1>5, NextSteps, HandlerFrame DEF vars

-----------------------------------------------------------------------------
(***************************************************************************)
(* The three promises.                                                     *)
(***************************************************************************)
LEMMA PromisesInitial == Init => ChannelInv
<1> SUFFICES ASSUME Init PROVE ChannelInv
  OBVIOUS
<1>1. LibraryInv /\ FlagInv
  BY RundownInitial DEF Init, LibraryInv, FlagInv, Disconnectors
<1>2. \A t \in Threads : SenderInv(t) /\ Receivers(t) = {}
  BY NoneAssumption DEF Init, SenderInv, Receivers
<1>3. MessageInv
  BY <1>2 DEF Init, MessageInv, SendOutcome
<1>4. WakeInv
  BY DequeuingFinite DEF Init, WakeInv
<1> QED BY <1>1, <1>3, <1>4 DEF ChannelInv

\* The strengthened invariant holds in every reachable state.
THEOREM ChannelInvariant == Spec => [](IInv /\ ChannelInv)
<1>1. IInv /\ ChannelInv /\ [Next]_vars => (IInv /\ ChannelInv)'
  BY Step, LibraryNext, FlagNext, MessageNext, WakeNext DEF ChannelInv
<1> QED BY <1>1, Initial, PromisesInitial, PTL DEF Spec

\* The driver is told that a client is gone only when no thread is inside its
\* callback or a send for it, or by a release that came second.
THEOREM NotifiedWhenQuiet == Spec => []NotifyQuiescent
<1>1. ASSUME IInv, LibraryInv PROVE NotifyQuiescent
  <2> SUFFICES ASSUME NEW d \in Disconnectors, disc[d] = "notifying",
                      ~(d = "release" /\ disc["cleanup"] \in InDisconnect)
               PROVE  \A t \in Threads : pc[t] \notin InSend /\ ~inCallback[t]
    BY DEF NotifyQuiescent
  <2>1. d = "cleanup" => disc["release"] \in {"idle", "libwait"}
    BY <1>1 DEF LibraryInv
  <2>2. Drained
    BY <1>1, <2>1
       DEF IInv, DisconnectInv, Drained, Disconnectors, InDisconnect
  <2>3. Empty
    BY <1>1, <2>2 DEF IInv, DisconnectInv
  <2> QED BY <1>1, <2>3, NobodyInside
<1> QED BY <1>1, ChannelInvariant, PTL DEF ChannelInv

\* What NdfCommSendMessage reports is what happened to the message.
THEOREM OutcomeIsTrue == Spec => []SendOutcome
<1>1. ChannelInv => SendOutcome
  BY DEF ChannelInv, MessageInv
<1> QED BY <1>1, ChannelInvariant, PTL

\* Without cancellations and with long enough buffers no sender sleeps while a
\* request waits for it.
THEOREM NoWakeupIsLost == Spec => []WakeupsKept
<1>1. ASSUME IInv, WakeInv PROVE WakeupsKept
  <2> SUFFICES ASSUME Undisturbed, semaphore = 0,
                      \A u \in Threads : pc[u] # "dequeue"
               PROVE  queue = <<>>
    BY DEF WakeupsKept, NoLostWakeup, NoNextIrp, ToSet
  <2>1. queue \in Seq(Irps)
    BY <1>1 DEF IInv, TypeOK
  <2>2. Dequeuing = {}
    BY DEF Dequeuing
  <2>3. Cardinality(Dequeuing) = 0
    BY <2>2, FS_EmptySet
  <2>4. Len(queue) =< 0
    BY <1>1, <2>3 DEF WakeInv
  <2> QED BY <2>1, <2>4
<1> QED BY <1>1, ChannelInvariant, PTL DEF ChannelInv

-----------------------------------------------------------------------------
(***************************************************************************)
(* NdfCommClient implements MessageChannel.                                *)
(***************************************************************************)
ListenerView == [i \in Irps |-> ListenerOf(i)]
SenderView == [t \in Threads |-> SenderOf(t)]
HandedView == {p \in Threads \X Irps : HandedPair(p[1], p[2])}

\* The abstract state is made of these views.
LEMMA SameChannel ==
    ASSUME UNCHANGED <<queue, ListenerView, irpLen, SenderView, msgLen,
                       HandedView, PhaseOfClient>>
    PROVE  UNCHANGED Channel!vars
BY Zenon DEF Channel!vars, ListenerView, SenderView, HandedView

\* Leaving the line is unlinking the request.
LEMMA LineLeft == \A q, i : Channel!Without(q, i) = Unlink(q, i)
BY Zenon DEF Channel!Without, Unlink, ToSet, RemoveAt, Channel!ToSet,
             Channel!RemoveAt

\* Nobody moves, or one does.
LEMMA ListenersKept ==
    ASSUME \A j \in Irps : ListenerOf(j)' = ListenerOf(j)
    PROVE  ListenerView' = ListenerView
BY DEF ListenerView

\* One listener moves.
LEMMA ListenerMoves ==
    ASSUME NEW i \in Irps, NEW x, ListenerOf(i)' = x,
           \A j \in Irps : j # i => ListenerOf(j)' = ListenerOf(j)
    PROVE  ListenerView' = [ListenerView EXCEPT ![i] = x]
BY DEF ListenerView

\* No sender moves.
LEMMA SendersKept ==
    ASSUME \A u \in Threads : SenderOf(u)' = SenderOf(u)
    PROVE  SenderView' = SenderView
BY DEF SenderView

\* One sender moves.
LEMMA OneSenderMoves ==
    ASSUME NEW t \in Threads, NEW x, SenderOf(t)' = x,
           \A u \in Threads : u # t => SenderOf(u)' = SenderOf(u)
    PROVE  SenderView' = [SenderView EXCEPT ![t] = x]
BY DEF SenderView

\* No message changes hands.
LEMMA HandedKept ==
    ASSUME \A u \in Threads, j \in Irps : HandedPair(u, j)' <=> HandedPair(u, j)
    PROVE  HandedView' = HandedView
BY DEF HandedView

\* The state of a request decides what its listener does.
LEMMA ListenerKept ==
    ASSUME NEW j \in Irps, Taken(j)' <=> Taken(j),
           irpStatus'[j] = irpStatus[j], cancelPc'[j] = cancelPc[j],
           cancelRoutine'[j] = cancelRoutine[j]
    PROVE  ListenerOf(j)' = ListenerOf(j)
BY DEF ListenerOf

\* A request listens exactly while its cancel routine is set, and is away
\* until then.
LEMMA ListenerFacts ==
    ASSUME IInv, MessageInv, NEW i \in Irps
    PROVE  /\ cancelRoutine[i] <=> ListenerOf(i) = "waiting"
           /\ irpPc[i] \in {"idle", "insert", "locked", "added"} =>
                 ListenerOf(i) = "away"
           /\ cancelPc[i] \in {"remove", "complete"} =>
                 ListenerOf(i) = "cancelled"
<1>1. /\ TypeOK /\ IrpInv
      /\ completions[i] = 0 => irpStatus[i] = "pending"
  BY DEF IInv, MessageInv
<1>2. ASSUME cancelRoutine[i] PROVE ListenerOf(i) = "waiting"
  BY <1>1, <1>2 DEF ListenerOf, IrpInv
<1>3. ASSUME ~cancelRoutine[i] PROVE ListenerOf(i) # "waiting"
  BY <1>3 DEF ListenerOf
<1>4. ASSUME irpPc[i] \in {"idle", "insert", "locked", "added"}
      PROVE  ListenerOf(i) = "away"
  BY <1>1, <1>4 DEF ListenerOf, IrpInv
<1>5. ASSUME cancelPc[i] \in {"remove", "complete"}
      PROVE  ListenerOf(i) = "cancelled"
  BY <1>1, <1>5 DEF ListenerOf, IrpInv
<1> QED BY <1>2, <1>3, <1>4, <1>5

\* A client that is not drained is open or ending; a broken one is not open.
LEMMA PhaseFacts ==
    ASSUME IInv, FlagInv
    PROVE  /\ ~Drained => PhaseOfClient \in {"open", "ending"}
           /\ client.active => PhaseOfClient # "open"
           /\ disconnectEvent => PhaseOfClient # "open"
           /\ ~client.active => ~Drained
           /\ client.count # 0 => ~Drained
<1>1. (Closed => Drained) /\ (Drained => Empty)
  BY DEF IInv, DisconnectInv
<1> QED BY <1>1 DEF PhaseOfClient, FlagInv, Empty

-----------------------------------------------------------------------------
(***************************************************************************)
(* The steps of a request.                                                 *)
(***************************************************************************)
\* What a step of request i leaves as it is.
LEMMA IrpView ==
    ASSUME TypeOK, NEW i \in Irps, IrpStep(i)
    PROVE  /\ UNCHANGED <<SenderView, HandedView, PhaseOfClient, msgLen>>
           /\ \A j \in Irps : Taken(j)' <=> Taken(j)
           /\ \A j \in Irps : j # i => ListenerOf(j)' = ListenerOf(j)
<1>1. UNCHANGED <<threadVars, discVars>> /\ irpMsg' = irpMsg
  <2>1. irpMsg' = irpMsg
    BY DEF IrpStep, Insert, Cancellation, Issue, InsertAcquire, InsertRefused,
           InsertAdd, InsertFinish, CancelIrp, CancelRemove,
           CompleteCanceledIrp
  <2> QED BY <2>1, IrpStepFrame
<1>2. \A u \in Threads : SenderOf(u)' = SenderOf(u)
  BY <1>1 DEF SenderOf
<1>3. \A u \in Threads, j \in Irps : HandedPair(u, j)' <=> HandedPair(u, j)
  BY <1>1 DEF HandedPair
<1>4. PhaseOfClient' = PhaseOfClient
  BY <1>1 DEF PhaseOfClient, Closed, Drained
<1>5. \A j \in Irps : Taken(j)' <=> Taken(j)
  BY <1>1 DEF Taken
<1>6. ASSUME NEW j \in Irps, j # i
      PROVE  /\ irpStatus'[j] = irpStatus[j] /\ cancelPc'[j] = cancelPc[j]
             /\ cancelRoutine'[j] = cancelRoutine[j]
  <2>1. \/ irpStatus' = irpStatus
        \/ \E st \in {"disconnected", "cancelled"} :
              irpStatus' = [irpStatus EXCEPT ![i] = st]
    BY DEF IrpStep, Insert, Cancellation, Issue, InsertAcquire, InsertRefused,
           InsertAdd, InsertFinish, CancelIrp, CancelRemove,
           CompleteCanceledIrp, Complete
  <2>2. \/ cancelPc' = cancelPc
        \/ \E st \in {"remove", "complete", "done"} :
              cancelPc' = [cancelPc EXCEPT ![i] = st]
    BY DEF IrpStep, Insert, Cancellation, Issue, InsertAcquire, InsertRefused,
           InsertAdd, InsertFinish, CancelIrp, CancelRemove,
           CompleteCanceledIrp
  <2>3. \/ cancelRoutine' = cancelRoutine
        \/ \E b \in BOOLEAN : cancelRoutine' = [cancelRoutine EXCEPT ![i] = b]
    BY DEF IrpStep, Insert, Cancellation, Issue, InsertAcquire, InsertRefused,
           InsertAdd, InsertFinish, CancelIrp, CancelRemove,
           CompleteCanceledIrp
  <2> QED BY <1>6, <2>1, <2>2, <2>3 DEF TypeOK
<1>7. \A j \in Irps : j # i => ListenerOf(j)' = ListenerOf(j)
  BY <1>5, <1>6, ListenerKept
<1>8. SenderView' = SenderView
  BY <1>2, SendersKept
<1>9. HandedView' = HandedView
  BY <1>3, HandedKept
<1>10. msgLen' = msgLen
  BY <1>1
<1> QED BY <1>4, <1>5, <1>7, <1>8, <1>9, <1>10

\* A listener comes with its buffer.
LEMMA IssueComes ==
    ASSUME IInv, ChannelInv, NEW i \in Irps, NEW n \in Lengths, Issue(i, n)
    PROVE  Channel!Come(i, n)
<1>1. UNCHANGED <<SenderView, HandedView, PhaseOfClient, msgLen, queue>>
  BY IrpView DEF Issue, IrpStep, IInv
<1>2. ListenerOf(i)' = ListenerOf(i)
  BY IrpView, ListenerKept DEF Issue, IrpStep, IInv
<1>3. ListenerView' = ListenerView
  BY <1>2, IrpView, ListenersKept DEF Issue, IrpStep, IInv
<1>4. ListenerOf(i) = "away"
  BY ListenerFacts DEF Issue, ChannelInv
<1>5. i \notin ToSet(queue)
  BY DEF Issue, IInv, QueueIntegrity, Queued, IrpInv
<1>6. PhaseOfClient # "closed"
  BY DEF Issue, PhaseOfClient, Closed, Cleaning
<1>7. irpLen' = [irpLen EXCEPT ![i] = n]
  BY DEF Issue
<1>8. ToSet(queue) = Channel!ToSet(queue)
  BY DEF ToSet, Channel!ToSet
<1> QED
  BY <1>1, <1>3, <1>4, <1>5, <1>6, <1>7, <1>8
     DEF Channel!Come, ListenerView, SenderView, HandedView

\* It takes its place.
LEMMA AddTakesPlace ==
    ASSUME IInv, ChannelInv, NEW i \in Irps, InsertAdd(i)
    PROVE  Channel!TakePlace(i)
<1>1. UNCHANGED <<SenderView, HandedView, PhaseOfClient, msgLen, irpLen>>
  BY IrpView DEF InsertAdd, IrpStep, Insert, IInv
<1>2. ListenerOf(i)' = ListenerOf(i)
  BY IrpView, ListenerKept DEF InsertAdd, IrpStep, Insert, IInv
<1>3. ListenerView' = ListenerView
  BY <1>2, IrpView, ListenersKept DEF InsertAdd, IrpStep, Insert, IInv
<1>4. ListenerOf(i) = "away"
  BY ListenerFacts DEF InsertAdd, ChannelInv
<1>5. i \notin ToSet(queue)
  BY DEF InsertAdd, IInv, QueueIntegrity, Queued, IrpInv
<1>6. PhaseOfClient \in {"open", "ending"}
  <2>1. ~Empty
    BY NobodyInside DEF InsertAdd
  <2> QED BY <2>1, PhaseFacts DEF ChannelInv, IInv, DisconnectInv
<1>7. queue' = Append(queue, i)
  BY DEF InsertAdd
<1>8. ToSet(queue) = Channel!ToSet(queue)
  BY DEF ToSet, Channel!ToSet
<1> QED
  BY <1>1, <1>3, <1>4, <1>5, <1>6, <1>7, <1>8
     DEF Channel!TakePlace, Channel!Alive, ListenerView, SenderView, HandedView

\* It listens, or its cancellation was first.
LEMMA FinishListens ==
    ASSUME IInv, ChannelInv, NEW i \in Irps, InsertFinish(i)
    PROVE  Channel!Listen(i) \/ Channel!Cancel(i)
<1>1. UNCHANGED <<SenderView, HandedView, PhaseOfClient, msgLen, irpLen>>
  BY IrpView DEF InsertFinish, IrpStep, Insert, IInv
<1>2. /\ ListenerOf(i) = "away" /\ irpStatus[i] = "pending" /\ ~Taken(i)
      /\ cancelPc[i] = "none"
  BY ListenerFacts DEF InsertFinish, ChannelInv, MessageInv, IInv, IrpInv
<1>3. ~Taken(i)' /\ irpStatus' = irpStatus
  BY <1>2, IrpView DEF InsertFinish, IrpStep, Insert, IInv
<1>4. /\ cancelPc \in [Irps -> {"none", "remove", "complete", "done"}]
      /\ cancelRoutine \in [Irps -> BOOLEAN]
  BY DEF IInv, TypeOK
<1>5. CASE cancel[i]
  <2>1. queue' = Unlink(queue, i) /\ cancelPc'[i] = "complete"
    BY <1>4, <1>5 DEF InsertFinish
  <2>2. ListenerOf(i)' = "cancelled"
    BY <1>2, <1>3, <2>1 DEF ListenerOf
  <2>3. ListenerView' = [ListenerView EXCEPT ![i] = "cancelled"]
    BY <2>2, IrpView, ListenerMoves DEF InsertFinish, IrpStep, Insert, IInv
  <2>4. Channel!Cancel(i)
    BY <1>1, <1>2, <2>1, <2>3, LineLeft
       DEF Channel!Cancel, ListenerView, SenderView, HandedView
  <2> QED BY <2>4
<1>6. CASE ~cancel[i]
  <2>1. queue' = queue /\ cancelPc'[i] = "none" /\ cancelRoutine'[i]
    BY <1>2, <1>4, <1>6 DEF InsertFinish
  <2>2. ListenerOf(i)' = "waiting"
    BY <1>2, <1>3, <2>1 DEF ListenerOf
  <2>3. ListenerView' = [ListenerView EXCEPT ![i] = "waiting"]
    BY <2>2, IrpView, ListenerMoves DEF InsertFinish, IrpStep, Insert, IInv
  <2>4. i \in Channel!ToSet(queue)
    <3>1. i \in ToSet(queue)
      BY DEF InsertFinish, IInv, QueueIntegrity, Queued
    <3> QED BY <3>1 DEF ToSet, Channel!ToSet
  <2>5. PhaseOfClient \in {"open", "ending"}
    <3>1. ~Drained
      BY DEF InsertFinish, IInv, DisconnectInv
    <3> QED BY <3>1, PhaseFacts DEF ChannelInv
  <2>6. Channel!Listen(i)
    BY <1>1, <1>2, <2>1, <2>3, <2>4, <2>5
       DEF Channel!Listen, Channel!Alive, ListenerView, SenderView, HandedView
  <2> QED BY <2>6
<1> QED BY <1>5, <1>6

\* A listener that is cancelled keeps its place for a while.
LEMMA CancelledView ==
    ASSUME IInv, ChannelInv, NEW i \in Irps, CancelIrp(i)
    PROVE  Channel!Cancel(i) \/ UNCHANGED Channel!vars
<1>1. UNCHANGED <<SenderView, HandedView, PhaseOfClient, msgLen, irpLen,
                  queue>>
  BY IrpView DEF CancelIrp, IrpStep, IInv
<1>2. CASE cancelRoutine[i]
  <2>1. ListenerOf(i) = "waiting" /\ irpStatus[i] = "pending" /\ ~Taken(i)
    BY <1>2, ListenerFacts DEF CancelIrp, ChannelInv, MessageInv, IInv, IrpInv
  <2>2. ~Taken(i)' /\ irpStatus' = irpStatus
    BY <2>1, IrpView DEF CancelIrp, IrpStep, IInv
  <2>3. cancelPc'[i] = "remove"
    BY <1>2 DEF CancelIrp, IInv, TypeOK
  <2>4. ListenerOf(i)' = "cancelled"
    BY <2>1, <2>2, <2>3 DEF ListenerOf
  <2>5. ListenerView' = [ListenerView EXCEPT ![i] = "cancelled"]
    BY <2>4, IrpView, ListenerMoves DEF CancelIrp, IrpStep, IInv
  <2>6. Channel!Cancel(i)
    BY <1>1, <2>1, <2>5 DEF Channel!Cancel, ListenerView, SenderView, HandedView
  <2> QED BY <2>6
<1>3. CASE ~cancelRoutine[i]
  <2>1. UNCHANGED <<cancelRoutine, cancelPc, irpStatus>>
    BY <1>3 DEF CancelIrp
  <2>2. ListenerOf(i)' = ListenerOf(i)
    BY <2>1, IrpView, ListenerKept DEF CancelIrp, IrpStep, IInv
  <2>3. ListenerView' = ListenerView
    BY <2>2, IrpView, ListenersKept DEF CancelIrp, IrpStep, IInv
  <2> QED BY <1>1, <2>3, SameChannel
<1> QED BY <1>2, <1>3

\* It leaves its place.
LEMMA RemoveLeaves ==
    ASSUME IInv, ChannelInv, NEW i \in Irps, CancelRemove(i)
    PROVE  Channel!Leave(i)
<1>1. UNCHANGED <<SenderView, HandedView, PhaseOfClient, msgLen, irpLen>>
  BY IrpView DEF CancelRemove, IrpStep, Cancellation, IInv
<1>2. /\ ListenerOf(i) = "cancelled" /\ irpStatus[i] = "pending" /\ ~Taken(i)
  BY ListenerFacts DEF CancelRemove, ChannelInv, MessageInv, IInv, IrpInv
<1>3. ~Taken(i)' /\ irpStatus' = irpStatus
  BY <1>2, IrpView DEF CancelRemove, IrpStep, Cancellation, IInv
<1>4. cancelPc'[i] = "complete"
  BY DEF CancelRemove, IInv, TypeOK
<1>5. ListenerOf(i)' = ListenerOf(i)
  BY <1>2, <1>3, <1>4 DEF ListenerOf
<1>6. ListenerView' = ListenerView
  BY <1>5, IrpView, ListenersKept DEF CancelRemove, IrpStep, Cancellation, IInv
<1>7. queue' = Unlink(queue, i)
  BY DEF CancelRemove
<1> QED
  BY <1>1, <1>2, <1>6, <1>7, LineLeft
     DEF Channel!Leave, ListenerView, SenderView, HandedView

\* Nothing of it shows when the request is completed later.
LEMMA CanceledCompletion ==
    ASSUME IInv, ChannelInv, NEW i \in Irps, CompleteCanceledIrp(i)
    PROVE  UNCHANGED Channel!vars
<1>1. UNCHANGED <<SenderView, HandedView, PhaseOfClient, msgLen, irpLen,
                  queue>>
  BY IrpView DEF CompleteCanceledIrp, IrpStep, Cancellation, IInv
<1>2. ListenerOf(i) = "cancelled" /\ ~Taken(i)
  BY ListenerFacts DEF CompleteCanceledIrp, ChannelInv, IInv, IrpInv
<1>3. ~Taken(i)'
  BY <1>2, IrpView DEF CompleteCanceledIrp, IrpStep, Cancellation, IInv
<1>4. irpStatus'[i] = "cancelled"
  BY DEF CompleteCanceledIrp, Complete, IInv, TypeOK
<1>5. ListenerOf(i)' = ListenerOf(i)
  BY <1>2, <1>3, <1>4 DEF ListenerOf
<1>6. ListenerView' = ListenerView
  BY <1>5, IrpView, ListenersKept
     DEF CompleteCanceledIrp, IrpStep, Cancellation, IInv
<1> QED BY <1>1, <1>6, SameChannel

\* A client that is run down turns a request away.
LEMMA RefusedDismisses ==
    ASSUME IInv, ChannelInv, NEW i \in Irps, InsertRefused(i)
    PROVE  Channel!Dismiss(i)
<1>1. UNCHANGED <<SenderView, HandedView, PhaseOfClient, msgLen, irpLen,
                  queue>>
  BY IrpView DEF InsertRefused, IrpStep, Insert, IInv
<1>2. ListenerOf(i) = "away" /\ ~Taken(i) /\ cancelPc[i] = "none"
  BY ListenerFacts DEF InsertRefused, ChannelInv, IInv, IrpInv
<1>3. ~Taken(i)' /\ cancelPc'[i] = "none"
  BY <1>2, IrpView DEF InsertRefused, IrpStep, Insert, IInv
<1>4. irpStatus'[i] = "disconnected"
  BY DEF InsertRefused, Complete, IInv, TypeOK
<1>5. ListenerOf(i)' = "disconnected"
  BY <1>3, <1>4 DEF ListenerOf
<1>6. ListenerView' = [ListenerView EXCEPT ![i] = "disconnected"]
  BY <1>5, IrpView, ListenerMoves DEF InsertRefused, IrpStep, Insert, IInv
<1>7. PhaseOfClient # "open"
  BY PhaseFacts DEF InsertRefused, CanAcquire, ChannelInv
<1>8. queue' = Channel!Without(queue, i)
  <2>1. i \notin ToSet(queue)
    BY DEF InsertRefused, IInv, QueueIntegrity, Queued, IrpInv
  <2>2. Unlink(queue, i) = queue
    BY <2>1 DEF Unlink
  <2> QED BY <1>1, <2>2, LineLeft
<1> QED
  BY <1>1, <1>2, <1>6, <1>7, <1>8
     DEF Channel!Dismiss, ListenerView, SenderView, HandedView

\* Every step of a request is a step of its listener or none.
LEMMA IrpRefines ==
    ASSUME IInv, ChannelInv, NEW i \in Irps, IrpStep(i)
    PROVE  Channel!Next \/ UNCHANGED Channel!vars
<1>1. CASE InsertAcquire(i)
  <2>1. UNCHANGED <<SenderView, HandedView, PhaseOfClient, msgLen, irpLen,
                    queue>>
    BY <1>1, IrpView DEF InsertAcquire, IInv
  <2>2. ListenerOf(i)' = ListenerOf(i)
    BY <1>1, IrpView, ListenerKept DEF InsertAcquire, IInv
  <2>3. ListenerView' = ListenerView
    BY <2>2, IrpView, ListenersKept DEF IInv
  <2> QED BY <2>1, <2>3, SameChannel
<1> QED
  BY <1>1, IssueComes, AddTakesPlace, FinishListens, CancelledView,
     RemoveLeaves, CanceledCompletion, RefusedDismisses
     DEF Channel!Next, IrpStep, Insert, Cancellation

-----------------------------------------------------------------------------
(***************************************************************************)
(* The steps of a sender.                                                  *)
(***************************************************************************)
\* A sender that neither takes a request nor completes one moves alone.
LEMMA SenderAlone ==
    ASSUME IInv, NEW t \in Threads, ThreadStep(t),
           pc[t] # "complete", pc'[t] # "complete",
           \A u \in Threads : u # t => /\ pc'[u] = pc[u]
                                      /\ held'[u] = held[u]
                                      /\ status'[u] = status[u],
           UNCHANGED <<queue, cancelRoutine, irpStatus, irpMsg>>
    PROVE  /\ UNCHANGED <<queue, ListenerView, irpLen, HandedView,
                          PhaseOfClient>>
           /\ \A u \in Threads : u # t => SenderOf(u)' = SenderOf(u)
<1>1. UNCHANGED <<irpPc, irpLen, cancel, cancelPc, queueLock, discVars>>
  BY ThreadStepFrame
<1>2. \A j \in Irps : Taken(j)' <=> Taken(j)
  BY DEF Taken
<1>3. \A j \in Irps : ListenerOf(j)' = ListenerOf(j)
  BY <1>1, <1>2, ListenerKept
<1>4. ListenerView' = ListenerView
  BY <1>3, ListenersKept
<1>5. \A u \in Threads, j \in Irps : HandedPair(u, j)' <=> HandedPair(u, j)
  BY DEF HandedPair
<1>6. HandedView' = HandedView
  BY <1>5, HandedKept
<1>7. PhaseOfClient' = PhaseOfClient
  BY <1>1 DEF PhaseOfClient, Closed, Drained
<1>8. \A u \in Threads : u # t => SenderOf(u)' = SenderOf(u)
  BY DEF SenderOf
<1> QED BY <1>1, <1>4, <1>6, <1>7, <1>8

\* Steps around a send and within it that change nothing of it.
LEMMA SenderQuiet ==
    ASSUME IInv, ChannelInv, NEW t \in Threads,
           \/ UserSend(t) \/ DeliverEnter(t) \/ DeliverRefused(t)
           \/ DeliverInvalid(t) \/ SendCall(t) \/ CallbackReturn(t)
           \/ WaitSemaphore(t) \/ WaitAlerted(t) \/ SendRetry(t)
           \/ SendLeave(t)
    PROVE  UNCHANGED Channel!vars
<1>0. /\ pc \in [Threads -> {"idle", "deliver", "callback", "called",
                             "returned", "done"} \cup InSend]
      /\ held \in [Threads -> Irps \cup {None}]
      /\ SenderInv(t)
  BY DEF IInv, TypeOK, ChannelInv, MessageInv
<1>1. /\ pc[t] # "complete" /\ pc'[t] # "complete"
      /\ \A u \in Threads : u # t => pc'[u] = pc[u] /\ held'[u] = held[u]
      /\ UNCHANGED <<queue, cancelRoutine, irpStatus, irpMsg, status, msgLen>>
      /\ \/ pc'[t] \in {"wait", "dequeue"} /\ pc[t] \in {"wait", "dequeue"}
         \/ pc'[t] \notin {"wait", "dequeue"} /\ pc[t] \notin {"wait", "dequeue"}
  BY <1>0
     DEF UserSend, DeliverEnter, DeliverRefused, DeliverInvalid, SendCall,
         MaySend, CallbackReturn, WaitSemaphore, WaitAlerted, SendRetry,
         SendLeave, Returned
<1>2. ThreadStep(t)
  BY DEF ThreadStep, Deliver, SendStart, Wake, Dequeue, SendFinish
<1>3. SenderOf(t)' = SenderOf(t)
  BY <1>1 DEF SenderOf
<1>4. SenderView' = SenderView
  BY <1>1, <1>2, <1>3, SenderAlone, SendersKept
<1> QED BY <1>1, <1>2, <1>4, SenderAlone, SameChannel

\* A send begins.
LEMMA EnterSends ==
    ASSUME IInv, ChannelInv, NEW t \in Threads, NEW n \in Lengths,
           NEW b \in HasTimeout, SendEnter(t, n, b)
    PROVE  Channel!Send(t, n)
<1>0. /\ pc \in [Threads -> {"idle", "deliver", "callback", "called",
                             "returned", "done"} \cup InSend]
      /\ SenderInv(t)
  BY DEF IInv, TypeOK, ChannelInv, MessageInv
<1>1. /\ pc[t] = "called" /\ status[t] = "none"
      /\ pc' = [pc EXCEPT ![t] = "wait"]
      /\ msgLen' = [msgLen EXCEPT ![t] = n]
      /\ UNCHANGED <<queue, cancelRoutine, irpStatus, irpMsg, held, status>>
  BY <1>0 DEF SendEnter, Acquiring, SenderInv
<1>2. ThreadStep(t)
  BY DEF ThreadStep, SendStart
<1>3. SenderOf(t) = "idle" /\ SenderOf(t)' = "sending"
  BY <1>0, <1>1 DEF SenderOf
<1>4. /\ UNCHANGED <<queue, ListenerView, irpLen, HandedView, PhaseOfClient>>
      /\ \A u \in Threads : u # t => SenderOf(u)' = SenderOf(u)
  BY <1>0, <1>1, <1>2, SenderAlone
<1>5. SenderView' = [SenderView EXCEPT ![t] = "sending"]
  BY <1>3, <1>4, OneSenderMoves
<1>6. PhaseOfClient \in {"open", "ending"}
  BY PhaseFacts DEF SendEnter, CanAcquire, ChannelInv
<1> QED
  BY <1>1, <1>3, <1>4, <1>5, <1>6
     DEF Channel!Send, Channel!Alive, ListenerView, SenderView, HandedView

\* A send that is refused, or is told of the disconnection.
LEMMA DisconnectedRefuses ==
    ASSUME IInv, ChannelInv, NEW t \in Threads,
           SendRefused(t) \/ WaitDisconnected(t)
    PROVE  Channel!Refuse(t)
<1>0. /\ pc \in [Threads -> {"idle", "deliver", "callback", "called",
                             "returned", "done"} \cup InSend]
      /\ status \in [Threads -> {"none", "success", "unsuccessful", "timeout",
                                 "disconnected"}]
      /\ SenderInv(t)
  BY DEF IInv, TypeOK, ChannelInv, MessageInv
<1>1. /\ pc[t] \in {"called", "wait"} /\ status[t] = "none"
      /\ pc'[t] \in {"returned", "done", "leave"}
      /\ \A u \in Threads : u # t => pc'[u] = pc[u]
      /\ status' = [status EXCEPT ![t] = "disconnected"]
      /\ UNCHANGED <<queue, cancelRoutine, irpStatus, irpMsg, held, msgLen>>
  BY <1>0 DEF SendRefused, WaitDisconnected, Acquiring, SenderInv, Returned
<1>2. ThreadStep(t)
  BY DEF ThreadStep, SendStart, Wake
<1>3. SenderOf(t) \in {"idle", "sending"} /\ SenderOf(t)' = "disconnected"
  BY <1>0, <1>1 DEF SenderOf
<1>4. /\ UNCHANGED <<queue, ListenerView, irpLen, HandedView, PhaseOfClient>>
      /\ \A u \in Threads : u # t => SenderOf(u)' = SenderOf(u)
  BY <1>0, <1>1, <1>2, SenderAlone
<1>5. SenderView' = [SenderView EXCEPT ![t] = "disconnected"]
  BY <1>3, <1>4, OneSenderMoves
<1>6. PhaseOfClient # "open"
  BY PhaseFacts DEF SendRefused, WaitDisconnected, CanAcquire, ChannelInv
<1> QED
  BY <1>1, <1>3, <1>4, <1>5, <1>6
     DEF Channel!Refuse, ListenerView, SenderView, HandedView

\* A send that times out.
LEMMA TimeoutTimesOut ==
    ASSUME IInv, ChannelInv, NEW t \in Threads, WaitTimeout(t)
    PROVE  Channel!TimeOut(t)
<1>0. /\ pc \in [Threads -> {"idle", "deliver", "callback", "called",
                             "returned", "done"} \cup InSend]
      /\ status \in [Threads -> {"none", "success", "unsuccessful", "timeout",
                                 "disconnected"}]
      /\ SenderInv(t)
  BY DEF IInv, TypeOK, ChannelInv, MessageInv
<1>1. /\ pc[t] = "wait" /\ status[t] = "none"
      /\ pc' = [pc EXCEPT ![t] = "leave"]
      /\ status' = [status EXCEPT ![t] = "timeout"]
      /\ UNCHANGED <<queue, cancelRoutine, irpStatus, irpMsg, held, msgLen>>
  BY <1>0 DEF WaitTimeout, SenderInv
<1>2. ThreadStep(t)
  BY DEF ThreadStep
<1>3. SenderOf(t) = "sending" /\ SenderOf(t)' = "timeout"
  BY <1>0, <1>1 DEF SenderOf
<1>4. /\ UNCHANGED <<queue, ListenerView, irpLen, HandedView, PhaseOfClient>>
      /\ \A u \in Threads : u # t => SenderOf(u)' = SenderOf(u)
  BY <1>0, <1>1, <1>2, SenderAlone
<1>5. SenderView' = [SenderView EXCEPT ![t] = "timeout"]
  BY <1>3, <1>4, OneSenderMoves
<1> QED
  BY <1>1, <1>3, <1>4, <1>5
     DEF Channel!TimeOut, ListenerView, SenderView, HandedView

\* A sender takes the first request that its message fits.
LEMMA DequeueHandsOver ==
    ASSUME IInv, ChannelInv, NEW t \in Threads, NEW i \in Irps,
           SendDequeue(t, i)
    PROVE  Channel!HandOver(t, i)
<1>0. /\ pc \in [Threads -> {"idle", "deliver", "callback", "called",
                             "returned", "done"} \cup InSend]
      /\ held \in [Threads -> Irps \cup {None}]
      /\ cancelRoutine \in [Irps -> BOOLEAN]
      /\ queue \in Seq(Irps)
      /\ SenderInv(t)
  BY DEF IInv, TypeOK, ChannelInv, MessageInv
<1>1. /\ pc[t] = "dequeue" /\ status[t] = "none"
      /\ pc' = [pc EXCEPT ![t] = "complete"]
      /\ held' = [held EXCEPT ![t] = i]
      /\ queue' = Unlink(queue, i)
      /\ cancelRoutine' = [cancelRoutine EXCEPT ![i] = FALSE]
      /\ UNCHANGED <<irpStatus, irpMsg, cancelPc, irpLen, status, msgLen,
                     discVars>>
  BY <1>0 DEF SendDequeue, SenderInv
<1>2. SenderOf(t) = "sending" /\ SenderOf(t)' = "delivered"
  BY <1>0, <1>1 DEF SenderOf
<1>3. \A u \in Threads : u # t => SenderOf(u)' = SenderOf(u)
  BY <1>1 DEF SenderOf
<1>4. SenderView' = [SenderView EXCEPT ![t] = "delivered"]
  BY <1>2, <1>3, OneSenderMoves
<1>5. /\ Taken(i)'
      /\ \A j \in Irps : j # i => (Taken(j)' <=> Taken(j))
  BY <1>0, <1>1 DEF Taken
<1>6. ListenerOf(i)' = "served"
  BY <1>5 DEF ListenerOf
<1>7. \A j \in Irps : j # i => ListenerOf(j)' = ListenerOf(j)
  BY <1>0, <1>1, <1>5, ListenerKept
<1>8. ListenerView' = [ListenerView EXCEPT ![i] = "served"]
  BY <1>6, <1>7, ListenerMoves
<1>9. HandedView' = HandedView \cup {<<t, i>>}
  <2>1. HandedPair(t, i)'
    BY <1>0, <1>1 DEF HandedPair
  <2>2. \A u \in Threads, j \in Irps :
            u # t \/ j # i => (HandedPair(u, j)' <=> HandedPair(u, j))
    BY <1>0, <1>1 DEF HandedPair
  <2> QED BY <2>1, <2>2 DEF HandedView
<1>10. PhaseOfClient' = PhaseOfClient
  BY <1>1 DEF PhaseOfClient, Closed, Drained
<1>11. PhaseOfClient \in {"open", "ending"}
  <2>1. ~Empty
    BY <1>1, NobodyInside DEF InSend
  <2> QED BY <2>1, PhaseFacts DEF ChannelInv, IInv, DisconnectInv
<1>12. \A k \in 1 .. Len(queue) :
          /\ queue[k] \in Irps
          /\ Channel!Fits(queue[k], t) <=> Suitable(queue[k], msgLen[t])
  <2> SUFFICES ASSUME NEW k \in 1 .. Len(queue)
               PROVE  /\ queue[k] \in Irps
                      /\ Channel!Fits(queue[k], t)
                            <=> Suitable(queue[k], msgLen[t])
    OBVIOUS
  <2>1. queue[k] \in Irps
    BY <1>0
  <2>2. cancelRoutine[queue[k]] <=> ListenerOf(queue[k]) = "waiting"
    BY <2>1, ListenerFacts DEF ChannelInv
  <2> QED BY <2>1, <2>2 DEF Channel!Fits, Suitable
<1>13. \E k \in 1 .. Len(queue) :
          /\ queue[k] = i /\ Channel!Fits(i, t)
          /\ \A j \in 1 .. (k - 1) : ~Channel!Fits(queue[j], t)
  <2>1. PICK k \in 1 .. Len(queue) :
            /\ queue[k] = i /\ Suitable(i, msgLen[t])
            /\ \A j \in 1 .. (k - 1) : ~Suitable(queue[j], msgLen[t])
    BY DEF SendDequeue, IsNextIrp
  <2>2. Channel!Fits(i, t)
    BY <1>12, <2>1
  <2>3. ASSUME NEW j \in 1 .. (k - 1) PROVE ~Channel!Fits(queue[j], t)
    <3>1. j \in 1 .. Len(queue)
      BY <1>0
    <3> QED BY <1>12, <2>1, <3>1
  <2> QED BY <2>1, <2>2, <2>3
<1>14. UNCHANGED <<irpLen, msgLen, PhaseOfClient>>
  BY <1>1, <1>10
<1>15. queue' = Channel!Without(queue, i)
  BY <1>1, LineLeft
<1>16. SenderView[t] = "sending"
  BY <1>2 DEF SenderView
<1> QED
  BY <1>4, <1>8, <1>9, <1>11, <1>13, <1>14, <1>15, <1>16
     DEF Channel!HandOver, Channel!Alive, ListenerView, SenderView, HandedView

\* The copying of the message and the completion show nothing new.
LEMMA CompletionView ==
    ASSUME IInv, ChannelInv, NEW t \in Threads, SendComplete(t)
    PROVE  UNCHANGED Channel!vars
<1>0. /\ pc \in [Threads -> {"idle", "deliver", "callback", "called",
                             "returned", "done"} \cup InSend]
      /\ status \in [Threads -> {"none", "success", "unsuccessful", "timeout",
                                 "disconnected"}]
      /\ irpMsg \in [Irps -> Threads \cup {None}]
      /\ irpStatus \in [Irps -> {"pending", "success", "cancelled",
                                 "disconnected"}]
  BY DEF IInv, TypeOK
<1>1. PICK i \in Irps : i = held[t] /\ Taken(i) /\ irpMsg[i] = None
  BY DEF SendComplete, IInv, ThreadInv, IrpInv, Taken, ChannelInv, MessageInv
<1>2. /\ pc[t] = "complete" /\ held[t] = i
      /\ pc' = [pc EXCEPT ![t] = "leave"]
      /\ irpMsg' = [irpMsg EXCEPT ![i] = t]
      /\ irpStatus' = [irpStatus EXCEPT ![i] = "success"]
      /\ UNCHANGED <<queue, cancelPc, cancelRoutine, irpLen, msgLen, held,
                     discVars>>
  BY <1>1 DEF SendComplete, Complete
<1>3. /\ \A u \in Threads : u # t => status'[u] = status[u]
      /\ status'[t] \in {"success", "unsuccessful"}
  BY <1>0 DEF SendComplete, CopyStatus
<1>4. \A u \in Threads : SenderOf(u)' = SenderOf(u)
  BY <1>0, <1>2, <1>3 DEF SenderOf
<1>5. SenderView' = SenderView
  BY <1>4, SendersKept
<1>6. \A j \in Irps : j # i => (Taken(j)' <=> Taken(j))
  BY <1>0, <1>2 DEF Taken
<1>7. \A j \in Irps : j # i => ListenerOf(j)' = ListenerOf(j)
  BY <1>0, <1>1, <1>2, <1>6, ListenerKept
<1>8. ListenerOf(i) = "served" /\ ListenerOf(i)' = "served"
  BY <1>0, <1>1, <1>2 DEF ListenerOf
<1>9. ListenerView' = ListenerView
  BY <1>7, <1>8, ListenersKept
<1>10. \A u \in Threads, j \in Irps : HandedPair(u, j)' <=> HandedPair(u, j)
  BY <1>0, <1>1, <1>2, NoneAssumption DEF HandedPair
<1>11. HandedView' = HandedView
  BY <1>10, HandedKept
<1>12. PhaseOfClient' = PhaseOfClient
  BY <1>2 DEF PhaseOfClient, Closed, Drained
<1> QED BY <1>2, <1>5, <1>9, <1>11, <1>12, SameChannel

\* Every step of a sender is a step of the abstract sender or none.
LEMMA ThreadRefines ==
    ASSUME IInv, ChannelInv, NEW t \in Threads, ThreadStep(t)
    PROVE  Channel!Next \/ UNCHANGED Channel!vars
BY SenderQuiet, EnterSends, DisconnectedRefuses, TimeoutTimesOut,
   DequeueHandsOver, CompletionView
   DEF Channel!Next, ThreadStep, Deliver, SendStart, Wake, Dequeue, SendFinish

-----------------------------------------------------------------------------
(***************************************************************************)
(* The steps of NdfCommDisconnectClient and of the two handlers.           *)
(***************************************************************************)
\* What a step of NdfCommDisconnectClient leaves as it is.
LEMMA DisconnectView ==
    ASSUME NEW d \in Disconnectors, DisconnectClient(d)
    PROVE  /\ UNCHANGED <<SenderView, HandedView, irpLen, msgLen>>
           /\ \A j \in Irps : Taken(j)' <=> Taken(j)
<1>1. /\ irpMsg' = irpMsg
  BY DEF DisconnectClient, CheckDisconnected, SignalDisconnect,
         BeginClientRundown, ClientRundownDone, DrainNext, DrainDone
<1>2. UNCHANGED <<threadVars, irpLen>>
  BY DisconnectFrame
<1>3. \A u \in Threads : SenderOf(u)' = SenderOf(u)
  BY <1>2 DEF SenderOf
<1>4. \A u \in Threads, j \in Irps : HandedPair(u, j)' <=> HandedPair(u, j)
  BY <1>1, <1>2 DEF HandedPair
<1>5. \A j \in Irps : Taken(j)' <=> Taken(j)
  BY <1>2 DEF Taken
<1>6. SenderView' = SenderView
  BY <1>3, SendersKept
<1>7. HandedView' = HandedView
  BY <1>4, HandedKept
<1> QED BY <1>2, <1>5, <1>6, <1>7

\* Only the drain touches the requests.
LEMMA RequestsUntouched ==
    ASSUME NEW d \in Disconnectors, DisconnectClient(d),
           UNCHANGED <<queue, cancelRoutine, irpStatus>>
    PROVE  UNCHANGED <<queue, ListenerView>>
<1>1. \A j \in Irps : ListenerOf(j)' = ListenerOf(j)
  BY DisconnectView, DisconnectFrame, ListenerKept
<1> QED BY <1>1, ListenersKept

\* A caller inside NdfCommDisconnectClient means that the client is ending.
LEMMA InsidePhase ==
    ASSUME IInv, IInv', NEW d \in Disconnectors
    PROVE  /\ disc[d] \in InDisconnect => PhaseOfClient = "ending"
           /\ disc'[d] \in InDisconnect => PhaseOfClient' = "ending"
<1>1. DisconnectInv /\ DisconnectInv'
  BY DEF IInv
<1>2. ASSUME disc[d] \in InDisconnect PROVE PhaseOfClient = "ending"
  <2>1. ~Drained /\ broken
    BY <1>1, <1>2 DEF Drained, DisconnectInv
  <2>2. ~Closed
    BY <1>1, <2>1 DEF DisconnectInv
  <2> QED BY <2>1, <2>2 DEF PhaseOfClient
<1>3. ASSUME disc'[d] \in InDisconnect PROVE PhaseOfClient' = "ending"
  <2>1. ~Drained' /\ broken'
    BY <1>1, <1>3 DEF Drained, DisconnectInv
  <2>2. ~Closed'
    BY <1>1, <2>1 DEF DisconnectInv
  <2> QED BY <2>1, <2>2 DEF PhaseOfClient
<1> QED BY <1>2, <1>3

\* Two labels outside NdfCommDisconnectClient are alike to the phase.
LEMMA OutsidePhase ==
    ASSUME TypeOK, NEW d \in Disconnectors, NEW label, broken' = broken,
           disc' = [disc EXCEPT ![d] = label],
           disc[d] \notin InDisconnect \cup {"closed"},
           label \notin InDisconnect \cup {"closed"}
    PROVE  PhaseOfClient' = PhaseOfClient
<1>1. disc \in [Disconnectors -> CleanupPc \cup ReleasePc]
  BY DEF TypeOK
<1>2. Closed' <=> Closed
  BY <1>1 DEF Closed, Disconnectors
<1>3. \A e \in Disconnectors :
          disc'[e] \in InDisconnect <=> disc[e] \in InDisconnect
  BY <1>1
<1>4. Drained' <=> Drained
  BY <1>3, Zenon DEF Drained
<1> QED BY <1>2, <1>4 DEF PhaseOfClient

\* The State bit ends the connection, once.
LEMMA CheckBeginsEnd ==
    ASSUME IInv, IInv', NEW d \in Disconnectors, CheckDisconnected(d)
    PROVE  Channel!BeginEnd \/ UNCHANGED Channel!vars
<1>1. /\ UNCHANGED <<SenderView, HandedView, irpLen, msgLen>>
      /\ UNCHANGED <<queue, ListenerView>>
  <2>1. DisconnectClient(d)
    BY DEF DisconnectClient
  <2>2. UNCHANGED <<queue, cancelRoutine, irpStatus>>
    BY DEF CheckDisconnected
  <2> QED BY <2>1, <2>2, DisconnectView, RequestsUntouched
<1>2. TypeOK /\ disc \in [Disconnectors -> CleanupPc \cup ReleasePc]
  BY DEF IInv, TypeOK
<1>3. CASE broken
  <2>1. /\ disc' = [disc EXCEPT ![d] = "notify"] /\ disc[d] = "disconnect"
        /\ broken' = broken
    BY <1>2, <1>3 DEF CheckDisconnected, Goto, TypeOK
  <2>2. PhaseOfClient' = PhaseOfClient
    BY <1>2, <2>1, OutsidePhase DEF InDisconnect
  <2> QED BY <1>1, <2>2, SameChannel
<1>4. CASE ~broken
  <2>1. PhaseOfClient = "open"
    BY <1>4 DEF IInv, DisconnectInv, PhaseOfClient, Drained
  <2>2. disc'[d] \in InDisconnect
    BY <1>2, <1>4 DEF CheckDisconnected, Goto, InDisconnect
  <2>3. PhaseOfClient' = "ending"
    BY <2>2, InsidePhase
  <2>4. Channel!BeginEnd
    BY <1>1, <2>1, <2>3
       DEF Channel!BeginEnd, ListenerView, SenderView, HandedView
  <2> QED BY <2>4
<1> QED BY <1>3, <1>4

\* A drained request is dismissed.
LEMMA DrainDismisses ==
    ASSUME IInv, IInv', ChannelInv, NEW d \in Disconnectors, NEW i \in Irps,
           DrainNext(d, i)
    PROVE  Channel!Dismiss(i)
<1>1. /\ UNCHANGED <<SenderView, HandedView, irpLen, msgLen>>
      /\ \A j \in Irps : Taken(j)' <=> Taken(j)
  <2>1. DisconnectClient(d)
    BY DEF DisconnectClient
  <2> QED BY <2>1, DisconnectView
<1>2. /\ cancelRoutine \in [Irps -> BOOLEAN]
      /\ irpStatus \in [Irps -> {"pending", "success", "cancelled",
                                 "disconnected"}]
      /\ TypeOK
  BY DEF IInv, TypeOK
<1>3. /\ queue' = Unlink(queue, i)
      /\ cancelRoutine' = [cancelRoutine EXCEPT ![i] = FALSE]
      /\ irpStatus' = [irpStatus EXCEPT ![i] = "disconnected"]
      /\ UNCHANGED <<cancelPc, disc, broken>>
      /\ disc[d] \in InDisconnect
  BY DEF DrainNext, Complete, InDisconnect
<1>4. cancelRoutine[i]
  BY <1>2, NextIrp DEF DrainNext, Suitable
<1>5. ListenerOf(i) = "waiting" /\ ~Taken(i) /\ cancelPc[i] = "none"
  BY <1>4, ListenerFacts DEF IInv, IrpInv, ChannelInv
<1>6. ListenerOf(i)' = "disconnected"
  BY <1>1, <1>2, <1>3, <1>5 DEF ListenerOf
<1>7. \A j \in Irps : j # i => ListenerOf(j)' = ListenerOf(j)
  BY <1>1, <1>2, <1>3, ListenerKept
<1>8. ListenerView' = [ListenerView EXCEPT ![i] = "disconnected"]
  BY <1>6, <1>7, ListenerMoves
<1>9. PhaseOfClient = "ending" /\ PhaseOfClient' = "ending"
  BY <1>3, InsidePhase
<1>10. queue' = Channel!Without(queue, i)
  BY <1>3, LineLeft
<1> QED
  BY <1>1, <1>5, <1>8, <1>9, <1>10
     DEF Channel!Dismiss, ListenerView, SenderView, HandedView

\* When the drain is over nobody listens and nobody sends.
LEMMA DrainEnds ==
    ASSUME IInv, IInv', ChannelInv, NEW d \in Disconnectors, DrainDone(d)
    PROVE  Channel!End
<1>1. /\ UNCHANGED <<SenderView, HandedView, irpLen, msgLen>>
      /\ UNCHANGED <<queue, ListenerView>>
  <2>1. DisconnectClient(d)
    BY DEF DisconnectClient
  <2>2. UNCHANGED <<queue, cancelRoutine, irpStatus>>
    BY DEF DrainDone
  <2> QED BY <2>1, <2>2, DisconnectView, RequestsUntouched
<1>2. /\ disc \in [Disconnectors -> CleanupPc \cup ReleasePc]
      /\ irpLen \in [Irps -> Nat]
  <2>1. /\ disc \in [Disconnectors -> CleanupPc \cup ReleasePc]
        /\ irpLen \in [Irps -> Lengths \cup {0}]
    BY DEF IInv, TypeOK
  <2>2. Lengths \cup {0} \subseteq Nat
    BY LengthsAssumption
  <2> QED BY <2>1, <2>2
<1>3. disc[d] = "drain" /\ disc' = [disc EXCEPT ![d] = "notify"]
      /\ broken' = broken
  BY DEF DrainDone, Goto
<1>4. broken /\ Empty
  BY <1>3 DEF IInv, DisconnectInv, InDisconnect
<1>5. PhaseOfClient = "ending"
  BY <1>3, InsidePhase DEF InDisconnect
<1>6. PhaseOfClient' = "ended"
  <2>1. ASSUME NEW e \in Disconnectors PROVE disc'[e] \notin InDisconnect
    <3>1. CASE e = d
      BY <1>2, <1>3, <3>1 DEF InDisconnect
    <3>2. CASE e # d
      BY <1>2, <1>3, <3>2 DEF IInv, OneRundownWaiter, InDisconnect
    <3> QED BY <3>1, <3>2
  <2>2. Drained'
    BY <1>3, <1>4, <2>1 DEF Drained
  <2>3. ~Closed
    BY <1>5 DEF PhaseOfClient
  <2>4. ~Closed'
    BY <1>2, <1>3, <2>3 DEF Closed, Disconnectors
  <2> QED BY <2>2, <2>4 DEF PhaseOfClient
<1>7. \A i \in Irps : ListenerOf(i) # "waiting"
  <2> SUFFICES ASSUME NEW i \in Irps, ListenerOf(i) = "waiting" PROVE FALSE
    OBVIOUS
  <2>1. cancelRoutine[i]
    BY ListenerFacts DEF ChannelInv
  <2>2. i \in ToSet(queue)
    BY <2>1 DEF IInv, QueueIntegrity, Queued
  <2>3. Suitable(i, 0)
    BY <1>2, <2>1 DEF Suitable
  <2> QED BY <2>2, <2>3 DEF DrainDone, NoNextIrp
<1>8. \A t \in Threads : SenderOf(t) # "sending"
  <2> SUFFICES ASSUME NEW t \in Threads PROVE SenderOf(t) # "sending"
    OBVIOUS
  <2>1. pc[t] \notin {"wait", "dequeue"}
    BY <1>4, NobodyInside DEF InSend
  <2>2. status[t] \in {"none", "success", "unsuccessful", "timeout",
                       "disconnected"}
    BY DEF IInv, TypeOK
  <2> QED BY <2>1, <2>2 DEF SenderOf
<1> QED
  BY <1>1, <1>5, <1>6, <1>7, <1>8
     DEF Channel!End, ListenerView, SenderView, HandedView

\* Every step of NdfCommDisconnectClient is one of the end of the connection.
LEMMA DisconnectRefines ==
    ASSUME IInv, IInv', ChannelInv, NEW d \in Disconnectors,
           DisconnectClient(d)
    PROVE  Channel!Next \/ UNCHANGED Channel!vars
<1>1. CASE SignalDisconnect(d) \/ BeginClientRundown(d) \/ ClientRundownDone(d)
  <2>1. /\ disc[d] \in InDisconnect /\ disc'[d] \in InDisconnect
        /\ UNCHANGED <<queue, cancelRoutine, irpStatus>>
    <3>1. disc \in [Disconnectors -> CleanupPc \cup ReleasePc]
      BY DEF IInv, TypeOK
    <3> QED
      BY <1>1, <3>1
         DEF SignalDisconnect, BeginClientRundown, ClientRundownDone, Goto,
             InDisconnect
  <2>2. PhaseOfClient' = PhaseOfClient
    BY <2>1, InsidePhase
  <2> QED BY <2>1, <2>2, DisconnectView, RequestsUntouched, SameChannel
<1>2. CASE CheckDisconnected(d)
  BY <1>2, CheckBeginsEnd DEF Channel!Next
<1>3. ASSUME NEW i \in Irps, DrainNext(d, i) PROVE Channel!Next
  BY <1>3, DrainDismisses DEF Channel!Next
<1>4. CASE DrainDone(d)
  BY <1>4, DrainEnds DEF Channel!Next
<1> QED BY <1>1, <1>2, <1>3, <1>4 DEF DisconnectClient

\* The close handler forgets the connection; the rest of the two handlers
\* shows nothing.
LEMMA HandlerRefines ==
    ASSUME IInv, IInv', HandlerStep
    PROVE  Channel!Next \/ UNCHANGED Channel!vars
<1>1. UNCHANGED <<irpVars, queueVars, threadVars, broken>>
  BY HandlerFrame
<1>2. UNCHANGED <<SenderView, HandedView, ListenerView, queue, irpLen, msgLen>>
  <2>1. \A u \in Threads : SenderOf(u)' = SenderOf(u)
    BY <1>1 DEF SenderOf
  <2>2. \A u \in Threads, j \in Irps : HandedPair(u, j)' <=> HandedPair(u, j)
    BY <1>1 DEF HandedPair
  <2>3. \A j \in Irps : ListenerOf(j)' = ListenerOf(j)
    BY <1>1 DEF ListenerOf, Taken
  <2> QED BY <1>1, <2>1, <2>2, <2>3, SendersKept, HandedKept, ListenersKept
<1>3. TypeOK /\ disc \in [Disconnectors -> CleanupPc \cup ReleasePc]
  BY DEF IInv, TypeOK
<1>4. CASE CloseRequest
  <2>1. PhaseOfClient = "ended"
    BY <1>4
       DEF CloseRequest, ListLocked, IInv, DisconnectInv, PhaseOfClient,
           Drained, Closed, Disconnectors, InDisconnect
  <2>2. Closed'
    BY <1>3, <1>4 DEF CloseRequest, Goto, Closed, Disconnectors
  <2>3. PhaseOfClient' = "closed"
    BY <2>2 DEF PhaseOfClient
  <2>4. queue = <<>>
    BY <1>1, <2>2 DEF IInv, NobodyInFreed
  <2>5. Channel!Close
    BY <1>2, <2>1, <2>3, <2>4
       DEF Channel!Close, ListenerView, SenderView, HandedView
  <2> QED BY <2>5 DEF Channel!Next
<1>5. ASSUME NEW d \in Disconnectors, NEW label,
             disc' = [disc EXCEPT ![d] = label],
             disc[d] \notin InDisconnect \cup {"closed"},
             label \notin InDisconnect \cup {"closed"}
      PROVE  UNCHANGED Channel!vars
  <2>1. PhaseOfClient' = PhaseOfClient
    BY <1>1, <1>3, <1>5, OutsidePhase
  <2> QED BY <1>2, <2>1, SameChannel
<1>6. CASE StartCleanup \/ CleanupNotify \/ CleanupNotified
             \/ CleanupSkipNotify \/ CleanupUncount
  <2>1. \E label \in {"disconnect", "notifying", "told", "cleaned"} :
            disc' = [disc EXCEPT !["cleanup"] = label]
    BY <1>6 DEF StartCleanup, CleanupNotify, CleanupNotified,
                CleanupSkipNotify, CleanupUncount, Goto
  <2>2. disc["cleanup"] \in {"idle", "notify", "notifying", "told"}
    BY <1>6 DEF StartCleanup, CleanupNotify, CleanupNotified,
                CleanupSkipNotify, CleanupUncount
  <2> QED BY <1>5, <2>1, <2>2 DEF Disconnectors, InDisconnect
<1>7. CASE StartRelease \/ LibraryRundownDone \/ LockClientList
             \/ ReleaseNotify \/ ReleaseNotified \/ UnlockClientList
  <2>1. \E label \in {"libwait", "lock", "disconnect", "notifying", "unlock",
                      "done"} :
            disc' = [disc EXCEPT !["release"] = label]
    BY <1>7 DEF StartRelease, LibraryRundownDone, LockClientList,
                ReleaseNotify, ReleaseNotified, UnlockClientList, Goto
  <2>2. disc["release"] \in {"idle", "libwait", "lock", "notify", "notifying",
                            "unlock"}
    BY <1>7 DEF StartRelease, LibraryRundownDone, LockClientList,
                ReleaseNotify, ReleaseNotified, UnlockClientList
  <2> QED BY <1>5, <2>1, <2>2 DEF Disconnectors, InDisconnect
<1>8. CASE Terminated
  <2>1. PhaseOfClient' = PhaseOfClient
    BY <1>8 DEF Terminated, vars, PhaseOfClient, Closed, Drained
  <2> QED BY <1>2, <2>1, SameChannel
<1> QED BY <1>4, <1>6, <1>7, <1>8 DEF HandlerStep, Cleanup, Release

-----------------------------------------------------------------------------
\* The first state of the connection.
LEMMA ChannelInit == Init => Channel!Init
<1> SUFFICES ASSUME Init PROVE Channel!Init
  OBVIOUS
<1>1. \A t \in Threads : pc[t] = "idle" /\ status[t] = "none"
  BY DEF Init
<1>2. \A i \in Irps :
          /\ irpStatus[i] = "pending" /\ cancelPc[i] = "none"
          /\ ~cancelRoutine[i] /\ irpMsg[i] = None
  BY DEF Init
<1>3. \A i \in Irps : ListenerOf(i) = "away"
  BY <1>1, <1>2 DEF ListenerOf, Taken
<1>4. \A t \in Threads : SenderOf(t) = "idle"
  BY <1>1 DEF SenderOf
<1>5. \A t \in Threads, i \in Irps : ~HandedPair(t, i)
  BY <1>1, <1>2, NoneAssumption DEF HandedPair
<1>6. HandedView = {}
  BY <1>5 DEF HandedView
<1>7. PhaseOfClient = "open"
  BY DEF Init, PhaseOfClient, Closed, Drained, Disconnectors
<1>8. /\ ListenerView = [i \in Irps |-> "away"]
      /\ SenderView = [t \in Threads |-> "idle"]
  BY <1>3, <1>4 DEF ListenerView, SenderView
<1> QED
  BY <1>6, <1>7, <1>8
     DEF Init, Channel!Init, ListenerView, SenderView, HandedView

\* Every step of the code is a step of the connection or changes nothing of it.
LEMMA ChannelStep ==
    IInv /\ IInv' /\ ChannelInv /\ [Next]_vars
        => [Channel!Next]_(Channel!vars)
<1> SUFFICES ASSUME IInv, IInv', ChannelInv, [Next]_vars
             PROVE  Channel!Next \/ UNCHANGED Channel!vars
  OBVIOUS
<1>1. CASE UNCHANGED vars
  <2>1. \A j \in Irps : ListenerOf(j)' = ListenerOf(j)
    BY <1>1 DEF vars, ListenerOf, Taken
  <2>2. \A u \in Threads : SenderOf(u)' = SenderOf(u)
    BY <1>1 DEF vars, SenderOf
  <2>3. \A u \in Threads, j \in Irps : HandedPair(u, j)' <=> HandedPair(u, j)
    BY <1>1 DEF vars, HandedPair
  <2>4. UNCHANGED <<PhaseOfClient, queue, irpLen, msgLen>>
    BY <1>1 DEF vars, PhaseOfClient, Closed, Drained
  <2> QED
    BY <2>1, <2>2, <2>3, <2>4, ListenersKept, SendersKept, HandedKept,
       SameChannel
<1> QED
  BY <1>1, NextSteps, IrpRefines, ThreadRefines, DisconnectRefines,
     HandlerRefines

\* NdfCommClient is a connection as MessageChannel describes it.
THEOREM ClientImplementsChannel == Spec => ImplementsChannel
<1>1. Init => Channel!Init
  BY ChannelInit
<1>2. IInv /\ IInv' /\ ChannelInv /\ [Next]_vars
          => [Channel!Next]_(Channel!vars)
  BY ChannelStep
<1> QED BY <1>1, <1>2, ChannelInvariant, PTL
        DEF Spec, ImplementsChannel, Channel!Spec

-----------------------------------------------------------------------------
(***************************************************************************)
(* The agreement with NdfCommLibrary.                                      *)
(***************************************************************************)
\* The three views that are functions of the only file.
FileView == [f \in {File} |-> FilePcOfClient]
ToldView == [f \in {File} |-> notified]
BrokenView == IF broken THEN {File} ELSE {}
CountView == IF Counted THEN 1 ELSE 0
ListView == IF Closed THEN <<>> ELSE <<File>>
CursorView == IF PastClient THEN 2 ELSE 1

\* Nothing the library knows of has changed.
LEMMA SameLibrary ==
    ASSUME UNCHANGED <<FilePcOfClient, notified, broken, Counted, Closed,
                       libRundown, ReleasePcOfClient, PastClient>>
    PROVE  UNCHANGED Library!vars
BY DEF Library!vars, Library!fileVars, Library!globals

\* A step that leaves the handlers where they are is none of the library.
LEMMA QuietStep ==
    ASSUME UNCHANGED <<disc, broken, libRundown, notified>>
    PROVE  UNCHANGED Library!vars
<1>1. UNCHANGED <<FilePcOfClient, notified, broken, Counted, Closed,
                  libRundown, ReleasePcOfClient, PastClient>>
  BY DEF FilePcOfClient, ReleasePcOfClient, Counted, Closed, PastClient
<1> QED BY <1>1, SameLibrary

\* A step of the cleanup or close handler.
LEMMA CleanupMoves ==
    ASSUME IInv, NEW label \in CleanupPc,
           disc' = [disc EXCEPT !["cleanup"] = label],
           disc["cleanup"] \notin {"cleaned", "closed"},
           label \notin {"cleaned", "closed"}
    PROVE  /\ FileView' = [FileView EXCEPT ![File] = FilePcOfClient']
           /\ label \in InDisconnect => FilePcOfClient' = "drain"
           /\ label \notin InDisconnect \cup {"idle"} =>
                  FilePcOfClient' = label
           /\ UNCHANGED <<Counted, Closed, ReleasePcOfClient, PastClient>>
<1>1. /\ disc'["cleanup"] = label
      /\ disc'["release"] = disc["release"]
  BY DEF IInv, TypeOK, Disconnectors
<1>2. /\ label \in InDisconnect => FilePcOfClient' = "drain"
      /\ label \notin InDisconnect \cup {"idle"} => FilePcOfClient' = label
  BY <1>1 DEF FilePcOfClient, InDisconnect
<1>3. UNCHANGED <<Counted, Closed, ReleasePcOfClient, PastClient>>
  BY <1>1 DEF Counted, Closed, ReleasePcOfClient, PastClient
<1>4. FileView' = [FileView EXCEPT ![File] = FilePcOfClient']
  BY DEF FileView
<1> QED BY <1>2, <1>3, <1>4

\* Where the cleanup handler stands in both models.
LEMMA CleanupAt ==
    /\ disc["cleanup"] = "idle" => FileView[File] = "open"
    /\ disc["cleanup"] \in InDisconnect => FileView[File] = "drain"
    /\ disc["cleanup"] \notin InDisconnect \cup {"idle"} =>
           FileView[File] = disc["cleanup"]
BY DEF FileView, FilePcOfClient, InDisconnect

\* The steps of the cleanup handler up to the decrement of the counter.
LEMMA CleanupAgrees ==
    ASSUME IInv, StartCleanup \/ DisconnectClient("cleanup")
                 \/ CleanupNotify \/ CleanupNotified \/ CleanupSkipNotify
    PROVE  Library!Next \/ UNCHANGED Library!vars
<1> USE DEF CleanupPc, InDisconnect
<1> DEFINE Same(label) ==
             /\ FileView' = [FileView EXCEPT ![File] = label]
             /\ UNCHANGED <<Counted, Closed, ReleasePcOfClient, PastClient>>
<1>1. CASE StartCleanup
  <2>1. Same("disconnect") /\ FileView[File] = "open"
    BY <1>1, CleanupMoves, CleanupAt DEF StartCleanup, Goto
  <2>2. Library!StartCleanup(File)
    BY <1>1, <2>1
       DEF StartCleanup, Library!StartCleanup, Library!Goto,
           Library!globals, FileView
  <2> QED BY <2>2 DEF Library!Next
<1>2. CASE CheckDisconnected("cleanup")
  <2>1. /\ Same(IF broken THEN "notify" ELSE "drain")
        /\ FileView[File] = "disconnect"
    <3>1. CASE broken
      BY <1>2, <3>1, CleanupMoves, CleanupAt DEF CheckDisconnected, Goto
    <3>2. CASE ~broken
      BY <1>2, <3>2, CleanupMoves, CleanupAt DEF CheckDisconnected, Goto
    <3> QED BY <3>1, <3>2
  <2>2. BrokenView' = BrokenView \cup {File} /\ (File \in BrokenView <=> broken)
    BY <1>2 DEF CheckDisconnected, BrokenView
  <2>3. Library!CleanupDisconnect(File)
    BY <1>2, <2>1, <2>2
       DEF CheckDisconnected, Library!CleanupDisconnect, Library!Goto,
           Library!globals, FileView, BrokenView
  <2> QED BY <2>3 DEF Library!Next, Library!CleanupStep
<1>3. CASE SignalDisconnect("cleanup") \/ BeginClientRundown("cleanup")
             \/ ClientRundownDone("cleanup")
  <2>1. /\ disc["cleanup"] \in InDisconnect
        /\ \E label \in InDisconnect :
              disc' = [disc EXCEPT !["cleanup"] = label]
        /\ UNCHANGED <<notified, broken, libRundown>>
    BY <1>3 DEF SignalDisconnect, BeginClientRundown, ClientRundownDone, Goto
  <2>2. /\ FilePcOfClient' = "drain" /\ FilePcOfClient = "drain"
        /\ UNCHANGED <<Counted, Closed, ReleasePcOfClient, PastClient>>
    BY <2>1, CleanupMoves DEF FilePcOfClient
  <2> QED BY <2>1, <2>2, SameLibrary
<1>4. ASSUME NEW i \in Irps, DrainNext("cleanup", i)
      PROVE  UNCHANGED Library!vars
  BY <1>4, QuietStep DEF DrainNext, discVars
<1>5. CASE DrainDone("cleanup")
  <2>1. Same("notify") /\ FileView[File] = "drain"
    BY <1>5, CleanupMoves, CleanupAt DEF DrainDone, Goto
  <2>2. Library!CleanupDrained(File)
    BY <1>5, <2>1
       DEF DrainDone, Library!CleanupDrained, Library!Goto,
           Library!globals, FileView
  <2> QED BY <2>2 DEF Library!Next, Library!CleanupStep
<1>6. CASE CleanupNotify
  <2>1. Same("notifying") /\ FileView[File] = "notify"
    BY <1>6, CleanupMoves, CleanupAt DEF CleanupNotify, Goto
  <2>2. ToldView' = [ToldView EXCEPT ![File] = @ + 1]
    BY <1>6 DEF CleanupNotify, ToldView
  <2>3. Library!CleanupNotify(File)
    BY <1>6, <2>1, <2>2
       DEF CleanupNotify, Library!CleanupNotify, Library!Goto, Library!Tell,
           Library!CanAcquire, Library!ExAcquireRundownProtection,
           CanAcquire, ExAcquireRundownProtection, FileView, ToldView
  <2> QED BY <2>3 DEF Library!Next, Library!CleanupStep
<1>7. CASE CleanupNotified
  <2>1. Same("told") /\ FileView[File] = "notifying"
    BY <1>7, CleanupMoves, CleanupAt DEF CleanupNotified, Goto
  <2>2. Library!CleanupNotified(File)
    BY <1>7, <2>1
       DEF CleanupNotified, Library!CleanupNotified, Library!Goto,
           Library!ExReleaseRundownProtection, ExReleaseRundownProtection,
           FileView
  <2> QED BY <2>2 DEF Library!Next, Library!CleanupStep
<1>8. CASE CleanupSkipNotify
  <2>1. Same("told") /\ FileView[File] = "notify"
    BY <1>8, CleanupMoves, CleanupAt DEF CleanupSkipNotify, Goto
  <2>2. Library!CleanupSkipNotify(File)
    BY <1>8, <2>1
       DEF CleanupSkipNotify, Library!CleanupSkipNotify, Library!Goto,
           Library!CanAcquire, CanAcquire, Library!globals, FileView
  <2> QED BY <2>2 DEF Library!Next, Library!CleanupStep
<1> QED
  BY <1>1, <1>2, <1>3, <1>4, <1>5, <1>6, <1>7, <1>8 DEF DisconnectClient

\* The only entry of a list taken out.
LEMMA OnlyEntryLeaves == Library!ListRemove(<<File>>, File) = <<>>
<1> DEFINE q == <<File>>
<1>1. /\ q \in Seq({File}) /\ Len(q) = 1 /\ DOMAIN q = {1}
      /\ q[1] = File
  OBVIOUS
<1> HIDE DEF q
<1>2. RemoveAt(q, 1) \in Seq({File}) /\ Len(RemoveAt(q, 1)) = 0
  <2>1. 1 \in 1 .. Len(q)
    BY <1>1
  <2>2. /\ RemoveAt(q, 1) \in Seq({File})
        /\ Len(RemoveAt(q, 1)) = Len(q) - 1
    BY <1>1, <2>1, RemoveAtElements, Zenon
  <2> QED BY <1>1, <2>2
<1>3. (CHOOSE k \in DOMAIN q : q[k] = File) = 1
  BY <1>1
<1>4. Library!ListRemove(q, File) = RemoveAt(q, 1)
  BY <1>3 DEF Library!ListRemove, Library!RemoveAt, RemoveAt
<1>5. RemoveAt(q, 1) = <<>>
  BY <1>2
<1> QED BY <1>4, <1>5 DEF q

\* The end of the cleanup handler, and the close handler.
LEMMA CloseAgrees ==
    ASSUME IInv, IInv', CleanupUncount \/ CloseRequest
    PROVE  Library!Next \/ UNCHANGED Library!vars
<1>0. disc \in [Disconnectors -> CleanupPc \cup ReleasePc]
  BY DEF IInv, TypeOK
<1>1. CASE CleanupUncount
  <2>1. /\ disc["cleanup"] = "told" /\ disc'["cleanup"] = "cleaned"
        /\ disc'["release"] = disc["release"]
    BY <1>0, <1>1 DEF CleanupUncount, Goto, Disconnectors
  <2>2. /\ FileView[File] = "told"
        /\ FileView' = [FileView EXCEPT ![File] = "cleaned"]
    BY <2>1 DEF FileView, FilePcOfClient, InDisconnect
  <2>3. /\ CountView' = CountView - 1
        /\ UNCHANGED <<Closed, ReleasePcOfClient, PastClient>>
    BY <2>1
       DEF CountView, Counted, Closed, ReleasePcOfClient, PastClient
  <2>4. Library!CleanupUncount(File)
    BY <1>1, <2>2, <2>3
       DEF CleanupUncount, Library!CleanupUncount, Library!Goto, FileView,
           CountView
  <2> QED BY <2>4 DEF Library!Next, Library!CleanupStep
<1>2. CASE CloseRequest
  <2>1. /\ disc["cleanup"] = "cleaned" /\ disc'["cleanup"] = "closed"
        /\ disc'["release"] = disc["release"] /\ ~ListLocked
    BY <1>0, <1>2 DEF CloseRequest, Goto, Disconnectors
  <2>2. /\ FileView[File] = "cleaned"
        /\ FileView' = [FileView EXCEPT ![File] = "closed"]
    BY <2>1 DEF FileView, FilePcOfClient, InDisconnect
  <2>3. /\ ListView = <<File>> /\ ListView' = <<>>
        /\ UNCHANGED <<Counted, ReleasePcOfClient, PastClient>>
    BY <2>1
       DEF ListView, Counted, Closed, ReleasePcOfClient, PastClient,
           ListLocked
  <2>4. Library!ListFree
    BY <2>1 DEF ListLocked, Library!ListFree, ReleasePcOfClient, InDisconnect
  <2>5. Library!ListRemove(<<File>>, File) = <<>>
    BY OnlyEntryLeaves
  <2>6. Library!CloseRequest(File)
    BY <1>2, <2>2, <2>3, <2>4, <2>5
       DEF CloseRequest, Library!CloseRequest, Library!Goto, FileView,
           ListView
  <2> QED BY <2>6 DEF Library!Next, Library!CleanupStep
<1> QED BY <1>1, <1>2

\* What a step of NdfCommRelease leaves to the cleanup handler.
LEMMA ReleaseMoves ==
    ASSUME IInv, NEW label \in ReleasePc,
           disc' = [disc EXCEPT !["release"] = label]
    PROVE  /\ disc'["release"] = label
           /\ label \in InDisconnect => ReleasePcOfClient' = "drain"
           /\ label \notin InDisconnect \cup {"libwait", "notifying"} =>
                  ReleasePcOfClient' = label
           /\ label = "notifying" => ReleasePcOfClient' = "unlock"
           /\ label \notin {"notifying", "unlock"} => CursorView' = 1
           /\ UNCHANGED <<FileView, Counted, Closed>>
<1>1. /\ disc'["release"] = label
      /\ disc'["cleanup"] = disc["cleanup"]
  BY DEF IInv, TypeOK, Disconnectors
<1> QED BY <1>1 DEF ReleasePcOfClient, InDisconnect, CursorView, PastClient,
                   FileView, FilePcOfClient, Counted, Closed

\* Where NdfCommRelease stands in both models.
LEMMA ReleaseAt ==
    /\ disc["release"] = "libwait" => ReleasePcOfClient = "wait"
    /\ disc["release"] \in InDisconnect => ReleasePcOfClient = "drain"
    /\ disc["release"] \notin InDisconnect \cup {"libwait", "notifying"} =>
           ReleasePcOfClient = disc["release"]
    /\ disc["release"] \notin {"notifying", "unlock"} => CursorView = 1
BY DEF ReleasePcOfClient, InDisconnect, CursorView, PastClient

\* The steps of NdfCommRelease.
LEMMA ReleaseAgrees ==
    ASSUME IInv, StartRelease \/ Release \/ DisconnectClient("release")
    PROVE  Library!Next \/ UNCHANGED Library!vars
<1> USE DEF ReleasePc, InDisconnect
<1>0. disc["release"] \in {"disconnect", "notify"} \cup InDisconnect =>
          ~Closed /\ ListView = <<File>>
  BY DEF IInv, NobodyInFreed, ListView
<1>1. CASE StartRelease
  <2>1. /\ ReleasePcOfClient = "idle" /\ ReleasePcOfClient' = "wait"
        /\ CursorView' = 1 /\ CursorView = 1
        /\ UNCHANGED <<FileView, Counted, Closed>>
    BY <1>1, ReleaseMoves, ReleaseAt
       DEF StartRelease, Goto, ReleasePcOfClient
  <2>2. Library!StartRelease
    BY <1>1, <2>1
       DEF StartRelease, Library!StartRelease, Library!fileVars,
           Library!BeginRundown, BeginRundown, FileView, CursorView
  <2> QED BY <2>2 DEF Library!Next
<1>2. CASE LibraryRundownDone
  <2>1. /\ ReleasePcOfClient = "wait" /\ ReleasePcOfClient' = "lock"
        /\ CursorView' = 1 /\ CursorView = 1
        /\ UNCHANGED <<FileView, Counted, Closed>>
    BY <1>2, ReleaseMoves, ReleaseAt DEF LibraryRundownDone, Goto
  <2>2. Library!LibraryRundownDone
    BY <1>2, <2>1
       DEF LibraryRundownDone, Library!LibraryRundownDone, Library!fileVars,
           Library!globals, Library!RundownReleased, RundownReleased,
           FileView, CursorView
  <2> QED BY <2>2 DEF Library!Next, Library!ReleaseStep
<1>3. CASE LockClientList
  <2>1. /\ ReleasePcOfClient = "lock" /\ CursorView = 1
        /\ ReleasePcOfClient' = IF Closed THEN "unlock" ELSE "disconnect"
        /\ UNCHANGED <<FileView, Counted, Closed>>
    BY <1>3, ReleaseMoves, ReleaseAt DEF LockClientList, Goto
  <2>2. CursorView' = 1
    BY <1>3, <2>1, ReleaseMoves
       DEF LockClientList, Goto, CursorView, PastClient
  <2>3. ListView = <<>> <=> Closed
    BY DEF ListView
  <2>4. Library!LockClientList
    BY <1>3, <2>1, <2>2, <2>3
       DEF LockClientList, Library!LockClientList, Library!fileVars,
           Library!globals, FileView, CursorView, ListView
  <2> QED BY <2>4 DEF Library!Next, Library!ReleaseStep
<1>4. CASE CheckDisconnected("release")
  <2>1. /\ ReleasePcOfClient = "disconnect"
        /\ ReleasePcOfClient' = IF broken THEN "notify" ELSE "drain"
        /\ CursorView' = 1 /\ CursorView = 1
        /\ UNCHANGED <<FileView, Counted, Closed>>
    BY <1>4, ReleaseMoves, ReleaseAt DEF CheckDisconnected, Goto
  <2>2. BrokenView' = BrokenView \cup {File} /\ (File \in BrokenView <=> broken)
    BY <1>4 DEF CheckDisconnected, BrokenView
  <2>3. ListView[CursorView] = File
    BY <1>0, <1>4, <2>1 DEF CheckDisconnected
  <2>4. Library!ReleaseDisconnect
    BY <1>4, <2>1, <2>2, <2>3
       DEF CheckDisconnected, Library!ReleaseDisconnect, Library!globals,
           FileView, CursorView, BrokenView, ListView
  <2> QED BY <2>4 DEF Library!Next, Library!ReleaseStep
<1>5. CASE SignalDisconnect("release") \/ BeginClientRundown("release")
             \/ ClientRundownDone("release")
  <2>1. /\ disc["release"] \in InDisconnect
        /\ \E label \in InDisconnect :
              disc' = [disc EXCEPT !["release"] = label]
        /\ UNCHANGED <<notified, broken, libRundown>>
    BY <1>5 DEF SignalDisconnect, BeginClientRundown, ClientRundownDone, Goto
  <2>2. /\ UNCHANGED <<ReleasePcOfClient, Counted, Closed>>
        /\ disc'["release"] \notin {"notifying", "unlock"}
        /\ disc["release"] \notin {"notifying", "unlock"}
        /\ UNCHANGED FileView
    BY <2>1, ReleaseMoves, ReleaseAt
  <2>3. UNCHANGED PastClient
    BY <2>2 DEF PastClient
  <2>4. UNCHANGED FilePcOfClient
    BY <2>2 DEF FileView
  <2> QED BY <2>1, <2>2, <2>3, <2>4, SameLibrary
<1>6. ASSUME NEW i \in Irps, DrainNext("release", i)
      PROVE  UNCHANGED Library!vars
  BY <1>6, QuietStep DEF DrainNext, discVars
<1>7. CASE DrainDone("release")
  <2>1. /\ ReleasePcOfClient = "drain" /\ ReleasePcOfClient' = "notify"
        /\ CursorView' = 1 /\ CursorView = 1
        /\ UNCHANGED <<FileView, Counted, Closed>>
    BY <1>7, ReleaseMoves, ReleaseAt DEF DrainDone, Goto
  <2>2. Library!ReleaseDrained
    BY <1>7, <2>1
       DEF DrainDone, Library!ReleaseDrained, Library!fileVars,
           Library!globals, FileView, CursorView
  <2> QED BY <2>2 DEF Library!Next, Library!ReleaseStep
<1>8. CASE ReleaseNotify
  <2>1. /\ ReleasePcOfClient = "notify" /\ ReleasePcOfClient' = "unlock"
        /\ CursorView = 1 /\ UNCHANGED <<FileView, Counted, Closed>>
        /\ disc'["release"] = "notifying"
    BY <1>8, ReleaseMoves, ReleaseAt DEF ReleaseNotify, Goto
  <2>2. CursorView' = 2 /\ ListView = <<File>>
    BY <1>0, <1>8, <2>1 DEF ReleaseNotify, CursorView, PastClient
  <2>3. ToldView' = [ToldView EXCEPT ![File] = @ + 1]
    BY <1>8 DEF ReleaseNotify, ToldView
  <2>4. Library!Tell(ListView[CursorView])
    BY <2>1, <2>2, <2>3 DEF Library!Tell, ToldView
  <2>5. CursorView = Len(ListView)
    BY <2>1, <2>2
  <2>6. Library!ReleaseNotify
    BY <1>8, <2>1, <2>2, <2>4, <2>5
       DEF ReleaseNotify, Library!ReleaseNotify, Library!globals,
           FileView, CursorView, ListView
  <2> QED BY <2>6 DEF Library!Next, Library!ReleaseStep
<1>9. CASE UnlockClientList
  <2>1. /\ ReleasePcOfClient = "unlock" /\ ReleasePcOfClient' = "done"
        /\ CursorView' = 1 /\ UNCHANGED <<FileView, Counted, Closed>>
    BY <1>9, ReleaseMoves, ReleaseAt DEF UnlockClientList, Goto
  <2>2. Library!UnlockClientList
    BY <1>9, <2>1
       DEF UnlockClientList, Library!UnlockClientList, Library!fileVars,
           Library!globals, FileView, CursorView
  <2> QED BY <2>2 DEF Library!Next, Library!ReleaseStep
<1>10. CASE ReleaseNotified
  <2>1. /\ disc["release"] = "notifying" /\ disc'["release"] = "unlock"
        /\ UNCHANGED <<notified, broken, libRundown>>
        /\ UNCHANGED <<FileView, Counted, Closed>>
    BY <1>10, ReleaseMoves DEF ReleaseNotified, Goto
  <2>2. UNCHANGED <<FilePcOfClient, ReleasePcOfClient, PastClient>>
    BY <2>1 DEF FileView, ReleasePcOfClient, PastClient
  <2> QED BY <2>1, <2>2, SameLibrary
<1> QED
  BY <1>1, <1>2, <1>3, <1>4, <1>5, <1>6, <1>7, <1>8, <1>9, <1>10
     DEF DisconnectClient, Release

\* Every step of the connection agrees.
LEMMA AgreeStep ==
    IInv /\ IInv' /\ [Next]_vars => [Library!Next]_(Library!vars)
<1> SUFFICES ASSUME IInv, IInv', [Next]_vars
             PROVE  Library!Next \/ UNCHANGED Library!vars
  OBVIOUS
<1>1. CASE \E i \in Irps : IrpStep(i)
  BY <1>1, IrpStepFrame, QuietStep
<1>2. CASE \E t \in Threads : ThreadStep(t)
  BY <1>2, ThreadStepFrame, QuietStep
<1>3. CASE \E d \in Disconnectors : DisconnectClient(d)
  BY <1>3, CleanupAgrees, ReleaseAgrees DEF Disconnectors
<1>4. CASE HandlerStep
  BY <1>4, CleanupAgrees, CloseAgrees, ReleaseAgrees, QuietStep
     DEF HandlerStep, Cleanup, Terminated, vars
<1>5. CASE UNCHANGED vars
  BY <1>5, QuietStep DEF vars
<1> QED BY <1>1, <1>2, <1>3, <1>4, <1>5, NextSteps

\* One connection, with everything that happens inside it, goes through the
\* library exactly as the model of all connections says.
THEOREM ClientAgreesWithLibrary == Spec => AgreesWithLibrary
<1>1. Init => Opened
  BY DEF Init, Opened, FilePcOfClient, ReleasePcOfClient, Disconnectors,
         InDisconnect
<1>2. IInv /\ IInv' /\ [Next]_vars => [Library!Next]_(Library!vars)
  BY AgreeStep
<1> QED BY <1>1, <1>2, Invariant, PTL DEF Spec, AgreesWithLibrary
-----------------------------------------------------------------------------
(***************************************************************************)
(* Shutting down: what NdfCommDisconnectClient and NdfCommRelease may rely *)
(* on, for every number of requests and threads.                           *)
(***************************************************************************)
\* A thread that has acquired the client, for a send or for a callback.
InClient(t) == pc[t] \in InSend \/ inCallback[t]

\* Of NdfCommDisconnectClient's steps the event comes before the wait; a
\* release that told of the client found it broken; the cleanup handler alone
\* has told of it until then.
ShutdownInv ==
    /\ \A d \in Disconnectors :
          disc[d] \in {"begin", "wait", "drain"} => disconnectEvent
    /\ disc["release"] \in {"notify", "notifying", "unlock", "done"} => broken
    /\ disc["release"] # "idle" => ReleaseWhileOpen \/ Closed
    /\ libRundown.active => disc["release"] # "idle"
    /\ disc["release"] = "idle" =>
          notified = IF disc["cleanup"] \in {"notifying", "told", "cleaned",
                                             "closed"} THEN 1 ELSE 0

\* Nothing is shut down at first.
LEMMA ShutdownInit == Init => ShutdownInv
BY RundownInitial DEF Init, ShutdownInv, Disconnectors

\* A step of NdfCommDisconnectClient.
LEMMA DisconnectShutdown ==
    ASSUME IInv, ShutdownInv, NEW d \in Disconnectors, DisconnectClient(d)
    PROVE  ShutdownInv'
<1>0. /\ disc \in [Disconnectors -> CleanupPc \cup ReleasePc]
      /\ DisconnectInv
  BY DEF IInv, TypeOK
<1>1. notified' = notified /\ libRundown' = libRundown
  BY DisconnectFrame
<1>2. \A e \in Disconnectors : e # d => disc'[e] = disc[e]
  BY <1>0
     DEF DisconnectClient, CheckDisconnected, SignalDisconnect,
         BeginClientRundown, ClientRundownDone, DrainNext, DrainDone, Goto
<1>3. /\ disc[d] \in InDisconnect \cup {"disconnect"}
      /\ disc'[d] \in InDisconnect \cup {"notify"}
  BY <1>0
     DEF DisconnectClient, CheckDisconnected, SignalDisconnect,
         BeginClientRundown, ClientRundownDone, DrainNext, DrainDone, Goto,
         InDisconnect
<1>4. /\ broken => broken'
      /\ disconnectEvent => disconnectEvent'
      /\ disc'[d] \in {"begin", "wait", "drain"} => disconnectEvent'
  BY <1>0
     DEF DisconnectClient, CheckDisconnected, SignalDisconnect,
         BeginClientRundown, ClientRundownDone, DrainNext, DrainDone, Goto,
         ShutdownInv
<1>5. disc'[d] = "notify" => broken'
  BY <1>0
     DEF DisconnectClient, CheckDisconnected, SignalDisconnect,
         BeginClientRundown, ClientRundownDone, DrainNext, DrainDone, Goto,
         DisconnectInv, InDisconnect
<1>6. \A e \in Disconnectors :
          disc'[e] \in {"begin", "wait", "drain"} => disconnectEvent'
  BY <1>2, <1>4 DEF ShutdownInv
<1>7. CASE d = "cleanup"
  <2>1. /\ disc'["release"] = disc["release"] /\ ~Closed
        /\ disc["cleanup"] \notin {"notifying", "told", "cleaned", "closed"}
        /\ disc'["cleanup"] \notin {"notifying", "told", "cleaned", "closed"}
    BY <1>2, <1>3, <1>7 DEF Disconnectors, InDisconnect, Closed
  <2> QED BY <1>1, <1>4, <1>6, <2>1 DEF ShutdownInv, Closed
<1>8. CASE d = "release"
  <2>1. /\ disc'["cleanup"] = disc["cleanup"]
        /\ disc["release"] # "idle" /\ disc'["release"] # "idle"
        /\ disc'["release"] \notin {"notifying", "unlock", "done"}
    BY <1>2, <1>3, <1>8 DEF Disconnectors, InDisconnect
  <2> QED BY <1>5, <1>6, <1>8, <2>1 DEF ShutdownInv, Closed
<1> QED BY <1>7, <1>8 DEF Disconnectors

\* Every step.
LEMMA ShutdownNext ==
    IInv /\ ShutdownInv /\ [Next]_vars => ShutdownInv'
<1> SUFFICES ASSUME IInv, ShutdownInv, [Next]_vars PROVE ShutdownInv'
  OBVIOUS
<1>0. /\ disc \in [Disconnectors -> CleanupPc \cup ReleasePc]
      /\ DisconnectInv /\ libRundown \in RundownRef /\ notified \in Nat
      /\ disc["cleanup"] = "notifying" => libRundown.count = 1
  BY DEF IInv, TypeOK, RundownInv
<1>1. CASE UNCHANGED discVars
  BY <1>1 DEF ShutdownInv, Closed
<1>2. ASSUME NEW d \in Disconnectors, DisconnectClient(d) PROVE ShutdownInv'
  BY <1>2, DisconnectShutdown
<1>3. CASE HandlerStep /\ ~Terminated
  <2>1. UNCHANGED <<disconnectEvent, broken>>
    BY <1>3, HandlerFrame
  <2>2. CASE StartCleanup \/ Cleanup
    <3>1. /\ disc'["release"] = disc["release"]
          /\ Closed => Closed'
          /\ disc'["cleanup"] \notin InDisconnect
      BY <1>0, <2>2
         DEF StartCleanup, Cleanup, CleanupNotify, CleanupNotified,
             CleanupSkipNotify, CleanupUncount, CloseRequest, Goto, Closed,
             Disconnectors, InDisconnect
    <3>2. disc["release"] = "idle" =>
            notified' = IF disc'["cleanup"] \in {"notifying", "told",
                                                 "cleaned", "closed"}
                        THEN 1 ELSE 0
      <4>1. CASE StartCleanup \/ CleanupNotified \/ CleanupUncount
                   \/ CloseRequest
        BY <1>0, <4>1
           DEF StartCleanup, CleanupNotified, CleanupUncount, CloseRequest,
               Goto, ShutdownInv, Disconnectors
      <4>2. CASE CleanupNotify
        BY <1>0, <4>2
           DEF CleanupNotify, Goto, ShutdownInv, Disconnectors
      <4>3. CASE CleanupSkipNotify
        <5>1. disc["release"] # "idle"
          BY <4>3 DEF CleanupSkipNotify, CanAcquire, ShutdownInv
        <5> QED BY <5>1
      <4> QED BY <2>2, <4>1, <4>2, <4>3 DEF Cleanup
    <3>3. libRundown'.active => libRundown.active
      <4>1. CASE CleanupNotify
        BY <1>0, <4>1, RundownAcquire DEF CleanupNotify
      <4>2. CASE CleanupNotified
        BY <1>0, <4>2, RundownRelease DEF CleanupNotified
      <4>3. CASE UNCHANGED libRundown
        BY <4>3
      <4> QED
        BY <2>2, <4>1, <4>2, <4>3
           DEF Cleanup, StartCleanup, CleanupSkipNotify, CleanupUncount,
               CloseRequest
    <3> QED
      BY <2>1, <3>1, <3>2, <3>3 DEF ShutdownInv, Disconnectors, InDisconnect
  <2>3. CASE StartRelease \/ Release
    <3>1. /\ disc'["cleanup"] = disc["cleanup"]
          /\ disc'["release"] # "idle" /\ disc'["release"] \notin InDisconnect
          /\ disc["release"] = "idle" => ReleaseWhileOpen \/ Closed
      BY <1>0, <2>3
         DEF StartRelease, Release, LibraryRundownDone, LockClientList,
             ReleaseNotify, ReleaseNotified, UnlockClientList, Goto,
             Disconnectors, InDisconnect
    <3>2. disc'["release"] \in {"notify", "notifying", "unlock", "done"} =>
              broken
      BY <1>0, <2>3
         DEF StartRelease, Release, LibraryRundownDone, LockClientList,
             ReleaseNotify, ReleaseNotified, UnlockClientList, Goto,
             Disconnectors, ShutdownInv, DisconnectInv, Closed
    <3> QED
      BY <2>1, <3>1, <3>2
         DEF ShutdownInv, Disconnectors, InDisconnect, Closed
  <2> QED BY <1>3, <2>2, <2>3 DEF HandlerStep
<1> QED
  BY <1>1, <1>2, <1>3, NextSteps, IrpStepFrame, ThreadStepFrame
     DEF Terminated, vars

\* IInv, LibraryInv and ShutdownInv together are inductive.
LEMMA ShutdownHolds == Spec => [](IInv /\ LibraryInv /\ ShutdownInv)
<1>1. ShutdownInv /\ IInv /\ [Next]_vars => ShutdownInv'
  BY ShutdownNext
<1>2. IInv /\ ChannelInv => LibraryInv
  BY DEF ChannelInv
<1> QED BY <1>1, <1>2, ShutdownInit, ChannelInvariant, PTL DEF Spec

\* How often the driver was told.  A release that has told of the client, or
\* has found it gone, has seen to it; a release that goes on while the handle
\* is open is the only way for a client to be freed and never told of.
TellInv ==
    /\ ~ReleaseWhileOpen /\ Closed => notified > 0
    /\ disc["release"] \in {"notifying", "unlock", "done"} =>
          notified > 0 \/ Closed
    /\ disc["release"] \notin {"notifying", "unlock", "done"} => notified =< 1
    /\ notified =< 2

\* Every step: the cleanup handler tells the driver only before the release has
\* begun, and each of the two tells it once.
LEMMA TellNext ==
    IInv /\ LibraryInv /\ ShutdownInv /\ TellInv /\ [Next]_vars => TellInv'
<1> SUFFICES ASSUME IInv, LibraryInv, ShutdownInv, TellInv, [Next]_vars
             PROVE  TellInv'
  OBVIOUS
<1>0. /\ disc \in [Disconnectors -> CleanupPc \cup ReleasePc]
      /\ notified \in Nat
  BY DEF IInv, TypeOK
<1>1. CASE UNCHANGED discVars
  BY <1>1 DEF TellInv, Closed
<1>2. ASSUME NEW d \in Disconnectors, DisconnectClient(d) PROVE TellInv'
  <2>1. notified' = notified
    BY <1>2, DisconnectFrame
  <2>2. \/ disc' = disc
        \/ /\ disc[d] \in InDisconnect \cup {"disconnect"}
           /\ \E label \in InDisconnect \cup {"notify"} :
                 disc' = [disc EXCEPT ![d] = label]
    BY <1>2
       DEF DisconnectClient, CheckDisconnected, SignalDisconnect,
           BeginClientRundown, ClientRundownDone, DrainNext, DrainDone, Goto,
           InDisconnect
  <2>3. /\ Closed' <=> Closed
        /\ disc'["release"] \in {"notifying", "unlock", "done"} <=>
               disc["release"] \in {"notifying", "unlock", "done"}
    BY <1>0, <2>2 DEF Closed, Disconnectors, InDisconnect
  <2> QED BY <2>1, <2>3 DEF TellInv
<1>3. CASE StartCleanup \/ CleanupNotified \/ CleanupSkipNotify
             \/ CleanupUncount
  <2>1. /\ notified' = notified /\ disc'["release"] = disc["release"]
        /\ ~Closed /\ ~Closed'
    BY <1>0, <1>3
       DEF StartCleanup, CleanupNotified, CleanupSkipNotify, CleanupUncount,
           Goto, Closed, Disconnectors
  <2> QED BY <2>1 DEF TellInv
<1>4. CASE CleanupNotify
  <2>1. /\ disc["release"] = "idle" /\ notified' = notified + 1
        /\ disc["cleanup"] = "notify"
    BY <1>4 DEF CleanupNotify, CanAcquire, LibraryInv
  <2>2. disc'["release"] = "idle" /\ notified' = 1
    BY <1>0, <1>4, <2>1 DEF CleanupNotify, Goto, Disconnectors, ShutdownInv
  <2> QED BY <2>2 DEF TellInv
<1>5. CASE CloseRequest
  <2>1. /\ notified' = notified /\ disc'["release"] = disc["release"]
        /\ disc["cleanup"] = "cleaned" /\ ~Closed
    BY <1>0, <1>5 DEF CloseRequest, Goto, Closed, Disconnectors
  <2>2. ~ReleaseWhileOpen => notified > 0
    BY <2>1 DEF ShutdownInv
  <2> QED BY <2>1, <2>2 DEF TellInv
<1>6. CASE StartRelease \/ LibraryRundownDone
  <2>1. /\ notified' = notified /\ Closed' = Closed
        /\ disc["release"] \notin {"notifying", "unlock", "done"}
        /\ disc'["release"] \notin {"notifying", "unlock", "done"}
    BY <1>0, <1>6
       DEF StartRelease, LibraryRundownDone, Goto, Closed, Disconnectors
  <2> QED BY <2>1 DEF TellInv
<1>7. CASE LockClientList
  <2>1. /\ notified' = notified /\ Closed' = Closed
        /\ disc["release"] = "lock"
        /\ disc'["release"] = IF Closed THEN "unlock" ELSE "disconnect"
    BY <1>0, <1>7 DEF LockClientList, Goto, Closed, Disconnectors
  <2> QED BY <1>0, <2>1 DEF TellInv
<1>8. CASE ReleaseNotify
  <2>1. /\ notified' = notified + 1 /\ Closed' = Closed
        /\ disc["release"] = "notify" /\ disc'["release"] = "notifying"
    BY <1>0, <1>8 DEF ReleaseNotify, Goto, Closed, Disconnectors
  <2> QED BY <1>0, <2>1 DEF TellInv
<1>9. CASE ReleaseNotified \/ UnlockClientList
  <2>1. /\ notified' = notified /\ Closed' = Closed
        /\ disc["release"] \in {"notifying", "unlock", "done"}
        /\ disc'["release"] \in {"notifying", "unlock", "done"}
    BY <1>0, <1>9
       DEF ReleaseNotified, UnlockClientList, Goto, Closed, Disconnectors
  <2> QED BY <2>1 DEF TellInv
<1>10. CASE HandlerStep
  BY <1>1, <1>3, <1>4, <1>5, <1>6, <1>7, <1>8, <1>9, <1>10
     DEF HandlerStep, Cleanup, Release, Terminated, vars
<1> QED
  BY <1>1, <1>2, <1>10, NextSteps, IrpStepFrame, ThreadStepFrame DEF vars

\* TellInv is inductive together with the other three.
LEMMA TellHolds == Spec => [](IInv /\ ShutdownInv /\ TellInv)
<1>1. Init => TellInv
  BY DEF Init, TellInv, Closed, Disconnectors
<1>2. TellInv /\ IInv /\ LibraryInv /\ ShutdownInv /\ [Next]_vars => TellInv'
  BY TellNext
<1> QED BY <1>1, <1>2, ShutdownHolds, PTL DEF Spec

\* No client is freed untold, twice told by one of the two, or passed over by
\* the release, with the one exception of NdfCommpProcessCleanupRequest's
\* failing acquisition of the library's rundown reference.
THEOREM DriverIsTold == Spec => []NotificationsAccounted
<1>1. ASSUME IInv, ShutdownInv, TellInv PROVE NotificationsAccounted
  <2>1. notified \in Nat
    BY <1>1 DEF IInv, TypeOK
  <2> QED BY <1>1, <2>1
          DEF NotificationsAccounted, ShutdownInv, TellInv, Closed
<1> QED BY <1>1, TellHolds, PTL

\* A freed client has nobody in it and no call on its way to it, except from a
\* driver that released the library with the handle open and was never told
\* (NdfCommpProcessCloseRequest, NdfCommSendMessage).
THEOREM ClientFreedUnused == Spec => []NoUseAfterFree
<1>1. ASSUME IInv, TellInv PROVE NoUseAfterFree
  <2>1. NobodyInFreed /\ notified \in Nat
    BY <1>1 DEF IInv, TypeOK
  <2>2. ASSUME Closed, NEW t \in Threads, pc[t] = "called"
        PROVE  ReleaseWhileOpen /\ notified = 0
    <3>1. ~inCallback[t] /\ ~Notifying
      BY <2>1, <2>2 DEF NobodyInFreed, Notifying, Closed, Disconnectors
    <3>2. ~DriverCallsOver
      BY <2>2, <3>1 DEF DriverCallsOver
    <3>3. notified = 0
      BY <1>1, <2>1, <3>1, <3>2 DEF IInv, CalledInv
    <3> QED BY <1>1, <2>2, <3>3 DEF TellInv
  <2> QED BY <2>1, <2>2 DEF NoUseAfterFree
<1> QED BY <1>1, TellHolds, PTL

\* When NdfCommRelease tells the driver of the client, and when it returns,
\* nobody is inside a message callback or a send, unless the cleanup handler
\* came first and is still waiting for them: then NdfCommDisconnectClient does
\* not wait, it returns at once.  A driver that releases the library only when
\* no handle is open is never in that case.
ReleasedQuiet ==
    disc["release"] \in {"notify", "notifying", "unlock", "done"} =>
        /\ broken
        /\ \/ \A t \in Threads : ~InClient(t)
           \/ ReleaseWhileOpen /\ disc["cleanup"] \in InDisconnect

\* NdfCommRelease leaves a quiet client, or one that the cleanup handler is
\* just emptying (NdfCommDisconnectClient, its early return).
THEOREM ReleaseLeavesQuiet == Spec => []ReleasedQuiet
<1>1. ASSUME IInv, ShutdownInv PROVE ReleasedQuiet
  <2> SUFFICES ASSUME disc["release"] \in {"notify", "notifying", "unlock",
                                          "done"},
                      ~(ReleaseWhileOpen /\ disc["cleanup"] \in InDisconnect)
               PROVE  broken /\ \A t \in Threads : ~InClient(t)
    BY <1>1 DEF ReleasedQuiet, ShutdownInv
  <2>1. broken /\ (ReleaseWhileOpen \/ Closed)
    BY <1>1 DEF ShutdownInv
  <2>2. disc["cleanup"] \notin InDisconnect
    BY <2>1 DEF Closed, InDisconnect
  <2>3. Drained
    BY <2>1, <2>2 DEF Drained, Disconnectors, InDisconnect
  <2>4. Empty
    BY <1>1, <2>3 DEF IInv, DisconnectInv
  <2> QED BY <1>1, <2>1, <2>4, NobodyInside DEF InClient
<1> QED BY <1>1, ShutdownHolds, PTL

\* The instance has a copy of Cardinality.
LEMMA SameCardinality ==
    ASSUME NEW S PROVE Library!Cardinality(S) = Cardinality(S)
  BY DEF Library!Cardinality, Cardinality

\* What NdfCommLibrary promises of all clients holds of the one whose inside
\* is modelled here: it is counted until its cleanup is over and listed until
\* it is closed, the driver is told of it once before it is freed unless the
\* library is being released, and not by the cleanup handler any more once the
\* release is past its wait.
LibraryPromises ==
    /\ Library!CountAccounts /\ Library!ListIntegrity
    /\ Library!ToldOnce /\ Library!CallbacksOver

\* The library's promises are kept by the connection in full detail.
THEOREM ConnectionKeepsPromises == Spec => []LibraryPromises
<1>1. ASSUME IInv, LibraryInv, ShutdownInv PROVE LibraryPromises
  <2> USE DEF InDisconnect
  <2>0. /\ disc["cleanup"] \in CleanupPc /\ disc["release"] \in ReleasePc
        /\ notified \in Nat /\ libRundown \in RundownRef
    BY <1>1 DEF IInv, TypeOK
  <2>1. /\ FilePcOfClient \in {"open", "drain"} \cup (CleanupPc \ InDisconnect)
        /\ FilePcOfClient \notin {"idle", "signal", "begin", "wait"}
        /\ FilePcOfClient \in {"cleaned", "closed"} <=> ~Counted
        /\ FilePcOfClient = "closed" <=> Closed
        /\ \A pos \in {"notifying", "told", "cleaned", "closed"} :
              FilePcOfClient = pos <=> disc["cleanup"] = pos
    BY <2>0 DEF CleanupPc, FilePcOfClient, Counted, Closed
  <2>2. /\ ReleasePcOfClient = "idle" <=> disc["release"] = "idle"
        /\ ReleasePcOfClient = "wait" <=> disc["release"] = "libwait"
    BY <2>0 DEF ReleasePc, ReleasePcOfClient
  <2>3. Library!CountAccounts
    <3> DEFINE Places ==
          {f \in {File} : Library!Admitted(f) \/ Library!Leaked(f)}
    <3>1. ASSUME Counted
          PROVE  (IF Counted THEN 1 ELSE 0) = Cardinality(Places)
      <4>1. Places = {File}
        BY <2>1, <3>1
           DEF Library!Admitted, Library!Connected, Library!Leaked
      <4>2. Cardinality(Places) = 1
        BY <4>1, FS_Singleton, Zenon
      <4> HIDE DEF Places
      <4> QED BY <3>1, <4>2
    <3>2. ASSUME ~Counted
          PROVE  (IF Counted THEN 1 ELSE 0) = Cardinality(Places)
      <4>1. Places = {}
        BY <2>1, <3>2
           DEF Library!Admitted, Library!Connected, Library!Leaked
      <4>2. Cardinality(Places) = 0
        BY <4>1, FS_EmptySet, Zenon
      <4> HIDE DEF Places
      <4> QED BY <3>2, <4>2
    <3>3. (IF Counted THEN 1 ELSE 0) = Cardinality(Places)
      BY <3>1, <3>2
    <3>4. (IF Counted THEN 1 ELSE 0) = Library!Cardinality(Places)
      BY <3>3, SameCardinality, Zenon
    <3> QED BY <3>4, Zenon DEF Library!CountAccounts
  <2>4. Library!ListIntegrity
    BY <2>1 DEF Library!ListIntegrity, Library!Listed, Library!ToSet, ToSet
  <2>5. Library!ToldOnce
    BY <1>1, <2>0, <2>1, <2>2 DEF Library!ToldOnce, ShutdownInv
  <2>6. Library!CallbacksOver
    BY <1>1, <2>0, <2>1, <2>2
       DEF Library!CallbacksOver, Library!InCreate, LibraryInv, CleanupPc
  <2> QED BY <2>3, <2>4, <2>5, <2>6 DEF LibraryPromises
<1> QED BY <1>1, ShutdownHolds, PTL
-----------------------------------------------------------------------------
(***************************************************************************)
(* Why the waits of a shutdown end.  That they do, under fairness, is for  *)
(* TLC; that nobody comes in, nobody turns back and nobody waits for one   *)
(* who waits for him is proved.                                            *)
(***************************************************************************)
\* How far a thread inside the client is from its way out when the disconnect
\* event is set: each step it can take brings it closer.
ToExit(label) ==
    CASE label = "dequeue" -> 4
      [] label \in {"wait", "complete", "callback"} -> 3
      [] label \in {"leave", "called"} -> 2
      [] label = "returned" -> 1
      [] OTHER -> 0
Leaves(t) == pc'[t] = pc[t] \/ ToExit(pc'[t]) < ToExit(pc[t])

\* The disconnect event stays set and the rundown stays begun; nobody acquires
\* the client from then on; a thread inside takes only steps that bring it
\* closer to its exit, so at most four, whatever the queue, the semaphore,
\* alerts and timeouts do; and the queue of an empty client only gets shorter,
\* so the loop that drains it takes as many turns as it holds requests.
OnlyWayIsOut ==
    /\ disconnectEvent => disconnectEvent'
    /\ client.active => client'.active /\ Holders' \subseteq Holders
    /\ disconnectEvent /\ client.active =>
           \A t \in Threads : InClient(t) => Leaves(t)
    /\ Empty => ToSet(queue') \subseteq ToSet(queue)

\* A request that is taken out adds none.
LEMMA UnlinkShrinks ==
    ASSUME IInv, NEW i \in Irps
    PROVE  ToSet(Unlink(queue, i)) \subseteq ToSet(queue)
<1>1. CASE i \in ToSet(queue)
  <2>1. /\ queue \in Seq(Irps)
        /\ \A j, k \in DOMAIN queue : queue[j] = queue[k] => j = k
    BY DEF IInv, TypeOK, QueueIntegrity
  <2>2. ToSet(Unlink(queue, i)) = ToSet(queue) \ {i}
    BY <1>1, <2>1, UnlinkElement, Zenon
  <2> QED BY <2>2
<1>2. CASE i \notin ToSet(queue)
  BY <1>2 DEF Unlink
<1> QED BY <1>1, <1>2

\* Nothing is acquired by a step of a request once the rundown has begun.
LEMMA IrpsLeave == ASSUME IInv, NEW i \in Irps, IrpStep(i) PROVE OnlyWayIsOut
<1>1. UNCHANGED <<threadVars, discVars>>
  BY IrpStepFrame
<1>a. /\ irpPc \in [Irps -> {"idle", "insert", "refused", "locked", "added",
                            "pended"}]
      /\ client \in RundownRef
  BY DEF IInv, TypeOK
<1>b. client.active => client'.active
  <2>1. \/ client' = client
        \/ client' = ExReleaseRundownProtection(client)
        \/ ~client.active
    BY DEF IrpStep, Insert, Cancellation, Issue, InsertAcquire, InsertRefused,
           InsertAdd, InsertFinish, CancelIrp, CancelRemove,
           CompleteCanceledIrp, CanAcquire
  <2> QED BY <1>a, <2>1 DEF ExReleaseRundownProtection, RundownRef
<1>c. ASSUME client.active, NEW j \in Irps, irpPc'[j] = "locked"
      PROVE  irpPc[j] = "locked"
  BY <1>a, <1>c
     DEF IrpStep, Insert, Cancellation, Issue, InsertAcquire, InsertRefused,
         InsertAdd, InsertFinish, CancelIrp, CancelRemove,
         CompleteCanceledIrp, CanAcquire
<1>2. client.active =>
          /\ client'.active
          /\ \A j \in Irps : irpPc'[j] = "locked" => irpPc[j] = "locked"
  BY <1>b, <1>c
<1>3. client.active => Holders' \subseteq Holders
  BY <1>1, <1>2 DEF Holders
<1>4. irpPc[i] # "locked" => queue' = queue \/ queue' = Unlink(queue, i)
  BY DEF IrpStep, Insert, Cancellation, Issue, InsertAcquire, InsertRefused,
         InsertAdd, InsertFinish, CancelIrp, CancelRemove,
         CompleteCanceledIrp
<1>5. Empty => ToSet(queue') \subseteq ToSet(queue)
  BY <1>4, NobodyInside, UnlinkShrinks
<1> QED BY <1>1, <1>2, <1>3, <1>5 DEF OnlyWayIsOut, Leaves

\* Nothing is acquired by a step of a thread either, and a thread inside the
\* client moves on.
LEMMA ThreadsLeave ==
    ASSUME IInv, NEW t \in Threads, ThreadStep(t)
    PROVE  OnlyWayIsOut
<1>0. /\ pc \in [Threads -> {"idle", "deliver", "callback", "called",
                             "returned", "done"} \cup InSend]
      /\ inCallback \in [Threads -> BOOLEAN]
      /\ client \in RundownRef
  BY DEF IInv, TypeOK
<1>1. UNCHANGED <<irpPc, discVars>>
  BY ThreadStepFrame
<1>2. \A u \in Threads :
          u # t => pc'[u] = pc[u] /\ inCallback'[u] = inCallback[u]
  BY <1>0
     DEF ThreadStep, Deliver, SendStart, Wake, Dequeue, SendFinish, UserSend,
         DeliverEnter, DeliverRefused, DeliverInvalid, CallbackReturn,
         SendCall, SendEnter, SendRefused,
         WaitDisconnected, WaitSemaphore, WaitTimeout, WaitAlerted,
         SendDequeue, SendRetry, SendComplete, SendLeave
<1>3. client.active => client'.active
  BY <1>0
     DEF ThreadStep, Deliver, SendStart, Wake, Dequeue, SendFinish, UserSend,
         DeliverEnter, DeliverRefused, DeliverInvalid, CallbackReturn,
         SendCall, SendEnter, SendRefused,
         WaitDisconnected, WaitSemaphore, WaitTimeout, WaitAlerted,
         SendDequeue, SendRetry, SendComplete, SendLeave, CanAcquire,
         ExReleaseRundownProtection, RundownRef
<1>4. client.active => /\ pc'[t] \in InSend => pc[t] \in InSend
                       /\ inCallback'[t] => inCallback[t]
  BY <1>0
     DEF ThreadStep, Deliver, SendStart, Wake, Dequeue, SendFinish, UserSend,
         DeliverEnter, DeliverRefused, DeliverInvalid, CallbackReturn,
         SendCall, SendEnter, SendRefused,
         WaitDisconnected, WaitSemaphore, WaitTimeout, WaitAlerted,
         SendDequeue, SendRetry, SendComplete, SendLeave, CanAcquire, InSend,
         Returned
<1>5. client.active => Holders' \subseteq Holders
  BY <1>1, <1>2, <1>4 DEF Holders
<1>6. ASSUME disconnectEvent, client.active, InClient(t)
      PROVE  Leaves(t)
  <2>1. pc[t] \in {"callback", "called", "returned"} \cup InSend
    BY <1>6 DEF IInv, ThreadInv, InClient
  <2>2. \/ pc[t] = "wait" /\ pc'[t] = "leave"
        \/ pc[t] = "dequeue" /\ pc'[t] \in {"wait", "complete"}
        \/ pc[t] = "complete" /\ pc'[t] = "leave"
        \/ pc[t] = "leave" /\ pc'[t] \in {"returned", "done"}
        \/ pc[t] = "callback" /\ pc'[t] \in {"called", "done"}
        \/ pc[t] = "called" /\ pc'[t] \in {"returned", "done"}
        \/ pc[t] = "returned" /\ pc'[t] = "done"
    BY <1>0, <1>6, <2>1
       DEF ThreadStep, Deliver, SendStart, Wake, Dequeue, SendFinish,
           UserSend, DeliverEnter, DeliverRefused, DeliverInvalid,
           CallbackReturn, SendCall, SendEnter, SendRefused, WaitDisconnected,
           WaitSemaphore, WaitTimeout,
           WaitAlerted, SendDequeue, SendRetry, SendComplete, SendLeave,
           CanAcquire, InSend, Returned, MaySend, Acquiring, IInv, ThreadInv
  <2> QED BY <2>2 DEF Leaves, ToExit
<1>7. ToSet(queue') \subseteq ToSet(queue)
  <2>1. queue' = queue \/ \E i \in Irps : queue' = Unlink(queue, i)
    BY DEF ThreadStep, Deliver, SendStart, Wake, Dequeue, SendFinish,
           UserSend, DeliverEnter, DeliverRefused, DeliverInvalid,
           CallbackReturn, SendCall, SendEnter, SendRefused, WaitDisconnected,
           WaitSemaphore, WaitTimeout,
           WaitAlerted, SendDequeue, SendRetry, SendComplete, SendLeave
  <2> QED BY <2>1, UnlinkShrinks
<1> QED BY <1>1, <1>2, <1>3, <1>5, <1>6, <1>7 DEF OnlyWayIsOut, Leaves

\* NdfCommDisconnectClient itself sets and begins, and takes nothing back.
LEMMA DisconnectLeaves ==
    ASSUME IInv, NEW d \in Disconnectors, DisconnectClient(d)
    PROVE  OnlyWayIsOut
<1>1. UNCHANGED <<irpPc, threadVars>>
  BY DisconnectFrame
<1>2. /\ disconnectEvent => disconnectEvent'
      /\ client.active => client'.active
  BY DEF IInv, TypeOK, DisconnectClient, CheckDisconnected, SignalDisconnect,
         BeginClientRundown, ClientRundownDone, DrainNext, DrainDone,
         BeginRundown, RundownRef
<1>3. ToSet(queue') \subseteq ToSet(queue)
  <2>1. queue' = queue \/ \E i \in Irps : queue' = Unlink(queue, i)
    BY DEF DisconnectClient, CheckDisconnected, SignalDisconnect,
           BeginClientRundown, ClientRundownDone, DrainNext, DrainDone
  <2> QED BY <2>1, UnlinkShrinks
<1>4. Holders' = Holders
  BY <1>1 DEF Holders
<1> QED BY <1>1, <1>2, <1>3, <1>4 DEF OnlyWayIsOut, Leaves

\* From the disconnect event and the beginning of the rundown on, everybody
\* in NdfCommSendMessage, in a message callback and in an insertion moves
\* towards his exit and nobody comes in: what
\* ExWaitForRundownProtectionRelease waits for cannot be put off
\* (NdfCommDisconnectClient, NdfCommSendMessage).
THEOREM ClosingOnlyDrains == Spec => [][OnlyWayIsOut]_vars
<1>1. ASSUME IInv, [Next]_vars PROVE OnlyWayIsOut \/ UNCHANGED vars
  <2>1. ASSUME HandlerStep PROVE OnlyWayIsOut
    BY <2>1, HandlerFrame DEF OnlyWayIsOut, Leaves, Holders
  <2> QED
    BY <1>1, <2>1, NextSteps, IrpsLeave, ThreadsLeave, DisconnectLeaves
<1> QED BY <1>1, Invariant, PTL DEF Spec

\* The guard of a step of thread t holds; a queue lock that it needs is free
\* or held by an insertion that needs nothing more.
CanGoOn(t) ==
    \/ pc[t] \in {"callback", "returned", "complete", "leave"}
    \/ pc[t] = "called" /\ ~Closed
    \/ pc[t] = "wait" /\ disconnectEvent
    \/ /\ pc[t] = "dequeue"
       /\ queueLock = None \/ irpPc[queueLock] \in {"locked", "added"}

\* While somebody waits in ExWaitForRundownProtectionRelease for the client,
\* everybody it waits for can go on by himself.
WaiterIsServed ==
    \A d \in Disconnectors :
        disc[d] = "wait" /\ ~RundownReleased(client) =>
            /\ \/ \E i \in Irps : irpPc[i] = "locked"
               \/ \E t \in Threads : InClient(t)
            /\ \A t \in Threads : InClient(t) => CanGoOn(t)

\* No circular wait: NdfCommDisconnectClient waits only for those that do not
\* wait for it, nor for the list lock that NdfCommRelease holds meanwhile; a
\* sender asleep without a timeout has been woken by the event before
\* (NdfCommDisconnectClient).
THEOREM NobodyWaitsForTheWaiter == Spec => []WaiterIsServed
<1>1. ASSUME IInv, ShutdownInv PROVE WaiterIsServed
  <2> SUFFICES ASSUME NEW d \in Disconnectors, disc[d] = "wait",
                      ~RundownReleased(client)
               PROVE  /\ \/ \E i \in Irps : irpPc[i] = "locked"
                         \/ \E t \in Threads : InClient(t)
                      /\ \A t \in Threads : InClient(t) => CanGoOn(t)
    BY DEF WaiterIsServed
  <2>1. client.active /\ disconnectEvent
    BY <1>1 DEF IInv, DisconnectInv, ShutdownInv
  <2>2. client.count = Cardinality(Holders) /\ client.count # 0
    BY <1>1, <2>1 DEF IInv, RundownInv, RundownReleased
  <2>3. PICK h \in Holders : TRUE
    BY <2>2, FS_EmptySet
  <2>4. \/ \E i \in Irps : irpPc[i] = "locked"
        \/ \E t \in Threads : InClient(t)
    BY <2>3 DEF Holders, InClient
  <2>5. ASSUME NEW t \in Threads, InClient(t) PROVE CanGoOn(t)
    <3>1. pc[t] \in {"callback", "called", "returned"} \cup InSend
      BY <1>1, <2>5 DEF IInv, ThreadInv, InClient
    <3>2. queueLock = None \/ irpPc[queueLock] \in {"locked", "added"}
      BY <1>1 DEF IInv, TypeOK, LockInv
    <3>3. ~Closed
      BY <1>1 DEF IInv, DisconnectInv, Drained, InDisconnect
    <3> QED BY <2>1, <3>1, <3>2, <3>3 DEF CanGoOn, InSend
  <2> QED BY <2>4, <2>5
<1> QED BY <1>1, ShutdownHolds, PTL

\* Only a request that was issued is cancelled, and a cancelled one has no
\* cancel routine.
CancelInv ==
    \A i \in Irps : cancel[i] => irpPc[i] # "idle" /\ ~cancelRoutine[i]

\* A step of a request.
LEMMA IrpCancel ==
    ASSUME IInv, CancelInv, NEW i \in Irps, IrpStep(i)
    PROVE  CancelInv'
<1>0. /\ irpPc \in [Irps -> {"idle", "insert", "refused", "locked", "added",
                            "pended"}]
      /\ cancel \in [Irps -> BOOLEAN]
      /\ cancelRoutine \in [Irps -> BOOLEAN]
  BY DEF IInv, TypeOK
<1>1. \A j \in Irps :
          j # i => /\ irpPc'[j] = irpPc[j] /\ cancel'[j] = cancel[j]
                   /\ cancelRoutine'[j] = cancelRoutine[j]
  BY <1>0
     DEF IrpStep, Insert, Cancellation, Issue, InsertAcquire, InsertRefused,
         InsertAdd, InsertFinish, CancelIrp, CancelRemove,
         CompleteCanceledIrp
<1>2. irpPc[i] # "idle" => irpPc'[i] # "idle"
  BY <1>0
     DEF IrpStep, Insert, Cancellation, Issue, InsertAcquire, InsertRefused,
         InsertAdd, InsertFinish, CancelIrp, CancelRemove,
         CompleteCanceledIrp
<1>3. cancel'[i] => irpPc[i] # "idle"
  BY <1>0
     DEF CancelInv, IrpStep, Insert, Cancellation, Issue, InsertAcquire,
         InsertRefused, InsertAdd, InsertFinish, CancelIrp, CancelRemove,
         CompleteCanceledIrp
<1>4. cancel'[i] => ~cancelRoutine'[i]
  <2>1. CASE InsertFinish(i)
    BY <1>0, <2>1 DEF CancelInv, InsertFinish
  <2>2. CASE CancelIrp(i)
    BY <1>0, <2>2 DEF CancelInv, CancelIrp
  <2>3. CASE ~InsertFinish(i) /\ ~CancelIrp(i)
    BY <1>0, <2>3
       DEF CancelInv, IrpStep, Insert, Cancellation, Issue, InsertAcquire,
           InsertRefused, InsertAdd, CancelRemove, CompleteCanceledIrp
  <2> QED BY <2>1, <2>2, <2>3
<1> QED BY <1>1, <1>2, <1>3, <1>4 DEF CancelInv

\* Every step.
LEMMA CancelNext == IInv /\ CancelInv /\ [Next]_vars => CancelInv'
<1> SUFFICES ASSUME IInv, CancelInv, [Next]_vars PROVE CancelInv'
  OBVIOUS
<1>0. cancelRoutine \in [Irps -> BOOLEAN]
  BY DEF IInv, TypeOK
<1>1. ASSUME UNCHANGED <<irpPc, cancel>>,
             \A i \in Irps : cancelRoutine'[i] => cancelRoutine[i]
      PROVE  CancelInv'
  BY <1>1 DEF CancelInv
<1>2. ASSUME NEW t \in Threads, ThreadStep(t) PROVE CancelInv'
  <2>1. \A i \in Irps : cancelRoutine'[i] => cancelRoutine[i]
    BY <1>0, <1>2
       DEF ThreadStep, Deliver, SendStart, Wake, Dequeue, SendFinish,
           UserSend, DeliverEnter, DeliverRefused, DeliverInvalid,
           CallbackReturn, SendCall, SendEnter, SendRefused, WaitDisconnected,
           WaitSemaphore, WaitTimeout,
           WaitAlerted, SendDequeue, SendRetry, SendComplete, SendLeave
  <2> QED BY <1>1, <1>2, <2>1, ThreadStepFrame
<1>3. ASSUME NEW d \in Disconnectors, DisconnectClient(d) PROVE CancelInv'
  <2>1. \A i \in Irps : cancelRoutine'[i] => cancelRoutine[i]
    BY <1>0, <1>3
       DEF DisconnectClient, CheckDisconnected, SignalDisconnect,
           BeginClientRundown, ClientRundownDone, DrainNext, DrainDone
  <2> QED BY <1>1, <1>3, <2>1, DisconnectFrame
<1>4. ASSUME HandlerStep \/ UNCHANGED vars PROVE CancelInv'
  BY <1>4, HandlerFrame DEF CancelInv, vars
<1> QED BY <1>2, <1>3, <1>4, NextSteps, IrpCancel

\* A cancelled request that is not completed yet is with somebody whose next
\* steps do not depend on messages: its insertion, which will find the flag,
\* its own cancellation, or a sender that has taken it and completes it.  It
\* never waits in the queue for a message to come.
CancelledHasOwner ==
    \A i \in Irps :
        cancel[i] /\ completions[i] = 0 =>
            \/ irpPc[i] \in {"insert", "locked", "added"}
            \/ cancelPc[i] \in {"remove", "complete"}
            \/ \E t \in Threads : pc[t] = "complete" /\ held[t] = i

\* The window between the dispatch of a request and the end of its insertion
\* loses no cancellation, whoever races for the request
\* (NdfCommpEnqueueGetMessageIrp, NdfCommpCompleteCanceledIrp).
THEOREM CancelledIsOwned == Spec => []CancelledHasOwner
<1>1. Init => CancelInv
  BY DEF Init, CancelInv
<1>2. IInv /\ CancelInv /\ [Next]_vars => CancelInv'
  BY CancelNext
<1>3. ASSUME IInv, CancelInv PROVE CancelledHasOwner
  <2> SUFFICES ASSUME NEW i \in Irps, cancel[i], completions[i] = 0
               PROVE  \/ irpPc[i] \in {"insert", "locked", "added"}
                      \/ cancelPc[i] \in {"remove", "complete"}
                      \/ Taken(i)
    BY DEF CancelledHasOwner, Taken
  <2>1. ~cancelRoutine[i] /\ irpPc[i] # "idle"
    BY <1>3 DEF CancelInv
  <2>2. irpPc[i] # "refused"
    BY <1>3 DEF IInv, IrpInv
  <2>3. irpPc[i] \in {"insert", "locked", "added", "pended"}
    BY <1>3, <2>1, <2>2 DEF IInv, TypeOK
  <2>4. irpPc[i] = "pended" =>
            Taken(i) \/ cancelPc[i] \in {"remove", "complete"}
    BY <1>3, <2>1 DEF IInv, IrpInv
  <2> QED BY <2>3, <2>4
<1> QED BY <1>1, <1>2, <1>3, Invariant, PTL DEF Spec
=============================================================================
