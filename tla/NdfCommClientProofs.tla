------------------------- MODULE NdfCommClientProofs -------------------------
(***************************************************************************)
(* The safety of NdfCommClient for every finite set of requests and        *)
(* threads, every set of lengths and every choice of what may be cancelled *)
(* and when the library may be released.                                   *)
(***************************************************************************)
EXTENDS NdfCommClient, SharedLemmas, FiniteSetTheorems, TLAPS

-----------------------------------------------------------------------------
(***************************************************************************)
(* The list of the queue.                                                  *)
(***************************************************************************)
\* RemoveEntryList on an entry of the queue (NdfCommpRemoveIrp).
LEMMA UnlinkElement ==
    ASSUME NEW S, NEW q \in Seq(S), NEW i \in ToSet(q),
           \A j, k \in DOMAIN q : q[j] = q[k] => j = k
    PROVE  /\ Unlink(q, i) \in Seq(S)
           /\ ToSet(Unlink(q, i)) = ToSet(q) \ {i}
           /\ \A j, k \in DOMAIN Unlink(q, i) :
                 Unlink(q, i)[j] = Unlink(q, i)[k] => j = k
<1>1. Unlink(q, i) = Removed(q, i)
  BY DEF Unlink, Removed
<1>2. /\ Removed(q, i) \in Seq(S)
      /\ ToSet(Removed(q, i)) = ToSet(q) \ {i}
      /\ \A j, k \in DOMAIN Removed(q, i) :
            Removed(q, i)[j] = Removed(q, i)[k] => j = k
  BY RemoveOnly
<1> QED BY <1>1, <1>2, Zenon

\* The search of NdfCommpGetNextIrp returns a queued request that suits it.
LEMMA NextIrp ==
    ASSUME TypeOK, NEW i \in Irps, NEW n, IsNextIrp(i, n)
    PROVE  i \in ToSet(queue) /\ Suitable(i, n)
BY DEF TypeOK, IsNextIrp, ToSet

-----------------------------------------------------------------------------
(***************************************************************************)
(* The holders of the client.                                              *)
(***************************************************************************)
USE DEF irpVars, queueVars, threadVars, discVars

\* There are finitely many holders: at most one per kind and request or
\* thread.
LEMMA HoldersFinite == IsFiniteSet(Holders)
<1> DEFINE All == {"insert", "send", "callback"} \X (Irps \cup Threads)
<1>1. IsFiniteSet(Irps \cup Threads)
  BY FiniteAssumption, FS_Union
<1>2. IsFiniteSet({"insert", "send", "callback"})
  <2>1. IsFiniteSet({} \cup {"insert"})
    BY FS_EmptySet, FS_AddElement
  <2>2. IsFiniteSet(({} \cup {"insert"}) \cup {"send"})
    BY <2>1, FS_AddElement
  <2>3. IsFiniteSet((({} \cup {"insert"}) \cup {"send"}) \cup {"callback"})
    BY <2>2, FS_AddElement
  <2>4. {"insert", "send", "callback"}
          = (({} \cup {"insert"}) \cup {"send"}) \cup {"callback"}
    OBVIOUS
  <2> QED BY <2>3, <2>4
<1>3. IsFiniteSet(All)
  BY <1>1, <1>2, FS_Product
<1>4. Holders \in SUBSET All
  BY DEF Holders
<1> QED BY <1>3, <1>4, FS_Subset, Zenon

\* Whoever is inside keeps the count above zero: the reference that
\* ExWaitForRundownProtectionRelease waits for cannot drop too early.
LEMMA HolderCounted ==
    ASSUME RundownInv, NEW h \in Holders
    PROVE  client.count \in Nat /\ client.count > 0
<1>1. Cardinality(Holders) \in Nat /\ Cardinality(Holders) # 0
  BY HoldersFinite, FS_CardinalityType, FS_EmptySet
<1> QED BY <1>1 DEF RundownInv

\* An acquisition adds one holder, a release takes one away.
LEMMA HolderEnters ==
    ASSUME NEW h, h \notin Holders, Holders' = Holders \cup {h}
    PROVE  Cardinality(Holders') = Cardinality(Holders) + 1
BY HoldersFinite, FS_AddElement

\* A holder that leaves takes one off the number of holders.
LEMMA HolderLeaves ==
    ASSUME NEW h, h \in Holders, Holders' = Holders \ {h}
    PROVE  Cardinality(Holders') = Cardinality(Holders) - 1
BY HoldersFinite, FS_RemoveElement

-----------------------------------------------------------------------------
\* The initial state is well typed.
LEMMA TypeInit == Init => TypeOK
<1> SUFFICES ASSUME Init PROVE TypeOK
  OBVIOUS
<1>1. client \in RundownRef /\ libRundown \in RundownRef
  BY RundownInitial DEF Init
<1>2. /\ disc \in [Disconnectors -> CleanupPc \cup ReleasePc]
      /\ disc["cleanup"] \in CleanupPc /\ disc["release"] \in ReleasePc
  BY DEF Init, Disconnectors, CleanupPc, ReleasePc
<1>3. /\ queue \in Seq(Irps) /\ semaphore \in Nat
      /\ queueLock \in Irps \cup {None}
  BY DEF Init
<1>4. /\ irpPc \in [Irps -> {"idle", "insert", "refused", "locked", "added",
                           "pended"}]
      /\ irpLen \in [Irps -> Lengths \cup {0}]
      /\ cancel \in [Irps -> BOOLEAN]
      /\ cancelRoutine \in [Irps -> BOOLEAN]
      /\ cancelPc \in [Irps -> {"none", "remove", "complete", "done"}]
  BY DEF Init
<1>5. /\ completions \in [Irps -> Nat]
      /\ irpStatus \in [Irps -> {"pending", "success", "cancelled",
                               "disconnected"}]
      /\ irpMsg \in [Irps -> Threads \cup {None}]
  BY DEF Init
<1>7. /\ pc \in [Threads -> {"idle", "deliver", "callback", "called",
                             "returned", "done"} \cup InSend]
      /\ msgLen \in [Threads -> Lengths \cup {0}]
      /\ timed \in [Threads -> BOOLEAN]
  BY DEF Init
<1>8. /\ held \in [Threads -> Irps \cup {None}]
      /\ status \in [Threads -> {"none", "success", "unsuccessful", "timeout",
                               "disconnected"}]
      /\ inCallback \in [Threads -> BOOLEAN]
  BY DEF Init
<1>6. disconnectEvent = FALSE /\ broken = FALSE /\ notified = 0
  BY DEF Init
<1> QED BY <1>1, <1>2, <1>3, <1>4, <1>5, <1>6, <1>7, <1>8 DEF TypeOK

\* Every step keeps the types: in particular no release finds a count of
\* zero, because the one who releases is a holder.
LEMMA TypeNext == IInv /\ [Next]_vars => TypeOK'
<1> SUFFICES ASSUME IInv, [Next]_vars PROVE TypeOK'
  OBVIOUS
<1>0. TypeOK /\ RundownInv
  BY DEF IInv
<1> USE DEF TypeOK
<1>1. ASSUME NEW i \in Irps, NEW n \in Lengths, Issue(i, n)
      PROVE  TypeOK'
  BY <1>1, <1>0
     DEF Issue
<1>2. ASSUME NEW i \in Irps, InsertAcquire(i)
      PROVE  TypeOK'
  BY <1>2, <1>0, RundownAcquire
     DEF InsertAcquire
<1>3. ASSUME NEW i \in Irps, InsertRefused(i)
      PROVE  TypeOK'
  BY <1>3, <1>0
     DEF InsertRefused, Complete
<1>4. ASSUME NEW i \in Irps, InsertAdd(i)
      PROVE  TypeOK'
  <2>1. <<"insert", i>> \in Holders
    BY <1>0, <1>4 DEF InsertAdd, Holders, InSend
  <2>2. client.count \in Nat /\ client.count > 0
    BY <1>0, <2>1, HolderCounted
  <2> QED
    BY <1>0, <1>4, <2>2, RundownRelease DEF InsertAdd, InSend, Returned
<1>5. ASSUME NEW i \in Irps, InsertFinish(i)
      PROVE  TypeOK'
  <2>1. Unlink(queue, i) \in Seq(Irps)
    BY <1>0, UnlinkElement DEF IInv, QueueIntegrity, Unlink
  <2> QED BY <1>0, <1>5, <2>1 DEF InsertFinish, InSend
<1>6. ASSUME NEW i \in Irps, CancelIrp(i)
      PROVE  TypeOK'
  BY <1>6, <1>0
     DEF CancelIrp
<1>7. ASSUME NEW i \in Irps, CancelRemove(i)
      PROVE  TypeOK'
  <2>1. Unlink(queue, i) \in Seq(Irps)
    BY <1>0, UnlinkElement DEF IInv, QueueIntegrity, Unlink
  <2> QED BY <1>0, <1>7, <2>1 DEF CancelRemove, InSend
<1>8. ASSUME NEW i \in Irps, CompleteCanceledIrp(i)
      PROVE  TypeOK'
  BY <1>8, <1>0
     DEF CompleteCanceledIrp, Complete
<1>9. ASSUME NEW t \in Threads, UserSend(t)
      PROVE  TypeOK'
  BY <1>9, <1>0
     DEF UserSend, InSend
<1>10. ASSUME NEW t \in Threads, DeliverEnter(t)
      PROVE  TypeOK'
  BY <1>10, <1>0, RundownAcquire
     DEF DeliverEnter, InSend
<1>11. ASSUME NEW t \in Threads, DeliverRefused(t)
      PROVE  TypeOK'
  BY <1>11, <1>0
     DEF DeliverRefused, InSend
<1>41. ASSUME NEW t \in Threads, DeliverInvalid(t) PROVE TypeOK'
  BY <1>41, <1>0
     DEF DeliverInvalid, InSend
<1>42. ASSUME NEW t \in Threads, SendCall(t) PROVE TypeOK'
  BY <1>42, <1>0
     DEF SendCall, InSend
<1>12. ASSUME NEW t \in Threads, CallbackReturn(t)
      PROVE  TypeOK'
  <2>1. <<"callback", t>> \in Holders
    BY <1>0, <1>12 DEF CallbackReturn, Holders, InSend, IInv, ThreadInv
  <2>2. client.count \in Nat /\ client.count > 0
    BY <1>0, <2>1, HolderCounted
  <2> QED
    BY <1>0, <1>12, <2>2, RundownRelease DEF CallbackReturn, InSend, Returned
<1>13. ASSUME NEW t \in Threads, NEW n \in Lengths, NEW b \in HasTimeout,
             SendEnter(t, n, b)
      PROVE  TypeOK'
  BY <1>13, <1>0, RundownAcquire, TimeoutAssumption
     DEF SendEnter, InSend
<1>14. ASSUME NEW t \in Threads, SendRefused(t)
      PROVE  TypeOK'
  BY <1>14, <1>0
     DEF SendRefused, InSend, Returned
<1>15. ASSUME NEW t \in Threads, WaitDisconnected(t)
      PROVE  TypeOK'
  BY <1>15, <1>0
     DEF WaitDisconnected, InSend
<1>16. ASSUME NEW t \in Threads, WaitSemaphore(t)
      PROVE  TypeOK'
  BY <1>16, <1>0
     DEF WaitSemaphore, InSend
<1>17. ASSUME NEW t \in Threads, WaitTimeout(t)
      PROVE  TypeOK'
  BY <1>17, <1>0
     DEF WaitTimeout, InSend
<1>18. ASSUME NEW t \in Threads, WaitAlerted(t)
      PROVE  TypeOK'
  BY <1>18, <1>0
     DEF WaitAlerted, InSend
<1>19. ASSUME NEW t \in Threads, NEW i \in Irps, SendDequeue(t, i)
      PROVE  TypeOK'
  <2>1. Unlink(queue, i) \in Seq(Irps)
    BY <1>0, UnlinkElement DEF IInv, QueueIntegrity, Unlink
  <2> QED BY <1>0, <1>19, <2>1 DEF SendDequeue, InSend
<1>20. ASSUME NEW t \in Threads, SendRetry(t)
      PROVE  TypeOK'
  BY <1>20, <1>0
     DEF SendRetry, InSend
<1>21. ASSUME NEW t \in Threads, SendComplete(t)
      PROVE  TypeOK'
  <2>1. held[t] \in Irps
    BY <1>21 DEF IInv, ThreadInv, SendComplete
  <2>2. PICK st \in CopyStatus(held[t]) : status' = [status EXCEPT ![t] = st]
    BY <1>21 DEF SendComplete
  <2>3. st \in {"success", "unsuccessful"}
    BY DEF CopyStatus
  <2> QED BY <1>0, <1>21, <2>1, <2>2, <2>3 DEF SendComplete, Complete, InSend
<1>22. ASSUME NEW t \in Threads, SendLeave(t)
      PROVE  TypeOK'
  <2>1. <<"send", t>> \in Holders
    BY <1>0, <1>22 DEF SendLeave, Holders, InSend
  <2>2. client.count \in Nat /\ client.count > 0
    BY <1>0, <2>1, HolderCounted
  <2> QED
    BY <1>0, <1>22, <2>2, RundownRelease DEF SendLeave, InSend, Returned
<1>23. ASSUME NEW d \in Disconnectors, CheckDisconnected(d)
      PROVE  TypeOK'
  BY <1>23, <1>0
     DEF CheckDisconnected, Goto, Disconnectors, CleanupPc, ReleasePc,
         InDisconnect
<1>24. ASSUME NEW d \in Disconnectors, SignalDisconnect(d)
      PROVE  TypeOK'
  BY <1>24, <1>0
     DEF SignalDisconnect, Goto, Disconnectors, CleanupPc, ReleasePc,
         InDisconnect
<1>25. ASSUME NEW d \in Disconnectors, BeginClientRundown(d)
      PROVE  TypeOK'
  BY <1>25, <1>0, RundownBegin
     DEF BeginClientRundown, Goto, Disconnectors, CleanupPc, ReleasePc,
         InDisconnect
<1>26. ASSUME NEW d \in Disconnectors, ClientRundownDone(d)
      PROVE  TypeOK'
  BY <1>26, <1>0
     DEF ClientRundownDone, Goto, Disconnectors, CleanupPc, ReleasePc,
         InDisconnect
<1>27. ASSUME NEW d \in Disconnectors, NEW i \in Irps, DrainNext(d, i)
      PROVE  TypeOK'
  <2>1. Unlink(queue, i) \in Seq(Irps)
    BY <1>0, UnlinkElement DEF IInv, QueueIntegrity, Unlink
  <2> QED BY <1>0, <1>27, <2>1 DEF DrainNext, InSend, Complete
<1>28. ASSUME NEW d \in Disconnectors, DrainDone(d)
      PROVE  TypeOK'
  BY <1>28, <1>0
     DEF DrainDone, Goto, Disconnectors, CleanupPc, ReleasePc, InDisconnect
<1>29. ASSUME StartCleanup
      PROVE  TypeOK'
  BY <1>29, <1>0
     DEF StartCleanup, Goto, Disconnectors, CleanupPc, ReleasePc,
         InDisconnect
<1>30. ASSUME CleanupNotify
      PROVE  TypeOK'
  BY <1>30, <1>0, RundownAcquire
     DEF CleanupNotify, Goto, Disconnectors, CleanupPc, ReleasePc,
         InDisconnect
<1>31. ASSUME CleanupNotified
      PROVE  TypeOK'
  BY <1>31, <1>0, RundownRelease
     DEF CleanupNotified, Goto, Disconnectors, CleanupPc, ReleasePc,
         InDisconnect, RundownInv
<1>32. ASSUME CleanupSkipNotify \/ CleanupUncount
      PROVE  TypeOK'
  BY <1>32, <1>0
     DEF CleanupSkipNotify, CleanupUncount, Goto, Disconnectors, CleanupPc,
         ReleasePc, InDisconnect
<1>33. ASSUME CloseRequest
      PROVE  TypeOK'
  BY <1>33, <1>0
     DEF CloseRequest, Goto, Disconnectors, CleanupPc, ReleasePc,
         InDisconnect
<1>34. ASSUME StartRelease
      PROVE  TypeOK'
  BY <1>34, <1>0, RundownBegin
     DEF StartRelease, Goto, Disconnectors, CleanupPc, ReleasePc,
         InDisconnect
<1>35. ASSUME LibraryRundownDone
      PROVE  TypeOK'
  BY <1>35, <1>0
     DEF LibraryRundownDone, Goto, Disconnectors, CleanupPc, ReleasePc,
         InDisconnect
<1>36. ASSUME LockClientList
      PROVE  TypeOK'
  BY <1>36, <1>0
     DEF LockClientList, Goto, Disconnectors, CleanupPc, ReleasePc,
         InDisconnect
<1>37. ASSUME ReleaseNotify
      PROVE  TypeOK'
  BY <1>37, <1>0
     DEF ReleaseNotify, Goto, Disconnectors, CleanupPc, ReleasePc,
         InDisconnect
<1>38. ASSUME ReleaseNotified \/ UnlockClientList
      PROVE  TypeOK'
  BY <1>38, <1>0
     DEF ReleaseNotified, UnlockClientList, Goto, Disconnectors, CleanupPc,
         ReleasePc, InDisconnect
<1>39. ASSUME Terminated
      PROVE  TypeOK'
  BY <1>39, <1>0
     DEF Terminated, vars
<1>40. CASE UNCHANGED vars
  BY <1>0, <1>40 DEF vars
<1> QED
  BY <1>1, <1>2, <1>3, <1>4, <1>5, <1>6, <1>7, <1>8, <1>9, <1>10, <1>11,
     <1>12, <1>13, <1>14, <1>15, <1>16, <1>17, <1>18, <1>19, <1>20, <1>21,
     <1>22, <1>23, <1>24, <1>25, <1>26, <1>27, <1>28, <1>29, <1>30, <1>31,
     <1>32, <1>33, <1>34, <1>35, <1>36, <1>37, <1>38, <1>39, <1>40, <1>41,
     <1>42
     DEF Next, IrpStep, Insert, Cancellation, ThreadStep, Deliver,
         SendStart, Wake, Dequeue, SendFinish, DisconnectClient, Cleanup,
         Release

-----------------------------------------------------------------------------
(***************************************************************************)
(* The rundown references count their holders.                             *)
(***************************************************************************)
LEMMA RundownInit == Init => RundownInv
<1> SUFFICES ASSUME Init PROVE RundownInv
  OBVIOUS
<1>1. Holders = {}
  BY DEF Init, Holders, InSend
<1>2. Cardinality(Holders) = 0
  BY <1>1, FS_EmptySet
<1> QED BY <1>2, RundownInitial DEF Init, RundownInv, Disconnectors

\* A step that neither enters nor leaves: the holders stay who they are.
LEMMA SameHolders ==
    ASSUME IInv, Holders' = Holders, client'.count = client.count,
           UNCHANGED <<libRundown, disc>>
    PROVE  RundownInv'
BY DEF RundownInv, IInv

\* Every step keeps the two rundown references equal to their holders.
LEMMA RundownNext == IInv /\ [Next]_vars => RundownInv'
<1> SUFFICES ASSUME IInv, [Next]_vars PROVE RundownInv'
  OBVIOUS
<1>0. /\ TypeOK /\ RundownInv /\ ThreadInv
      /\ client \in RundownRef /\ libRundown \in RundownRef
  BY DEF IInv, TypeOK
<1>1. ASSUME NEW i \in Irps, NEW n \in Lengths, Issue(i, n)
      PROVE  RundownInv'
  <2>1. Holders' = Holders
    BY <1>0, <1>1 DEF Issue, Holders, TypeOK
  <2> QED BY <1>1, <2>1, SameHolders DEF Issue
<1>2. ASSUME NEW i \in Irps, InsertAcquire(i)
      PROVE  RundownInv'
  <2>1. /\ <<"insert", i>> \notin Holders
        /\ Holders' = Holders \cup {<<"insert", i>>}
    BY <1>0, <1>2 DEF InsertAcquire, Holders, TypeOK, InSend, ThreadInv
  <2>2. client'.count = client.count + 1
    BY <1>0, <1>2, RundownAcquire DEF InsertAcquire
  <2> QED
    BY <1>0, <1>2, <2>1, <2>2, HolderEnters DEF InsertAcquire, RundownInv
<1>3. ASSUME NEW i \in Irps, InsertRefused(i)
      PROVE  RundownInv'
  <2>1. Holders' = Holders
    BY <1>0, <1>3 DEF InsertRefused, Holders, TypeOK
  <2> QED BY <1>3, <2>1, SameHolders DEF InsertRefused
<1>4. ASSUME NEW i \in Irps, InsertAdd(i)
      PROVE  RundownInv'
  <2>1. <<"insert", i>> \in Holders /\ Holders' = Holders \ {<<"insert", i>>}
    BY <1>0, <1>4 DEF InsertAdd, Holders, TypeOK, InSend, ThreadInv, Returned
  <2>2. client'.count = client.count - 1
    BY <1>0, <1>4, <2>1, HolderCounted, RundownRelease DEF InsertAdd
  <2> QED
    BY <1>0, <1>4, <2>1, <2>2, HolderLeaves DEF InsertAdd, RundownInv
<1>5. ASSUME NEW i \in Irps, InsertFinish(i)
      PROVE  RundownInv'
  <2>1. Holders' = Holders
    BY <1>0, <1>5 DEF InsertFinish, Holders, TypeOK
  <2> QED BY <1>5, <2>1, SameHolders DEF InsertFinish
<1>6. ASSUME NEW i \in Irps, CancelIrp(i)
      PROVE  RundownInv'
  <2>1. Holders' = Holders
    BY <1>0, <1>6 DEF CancelIrp, Holders, TypeOK
  <2> QED BY <1>6, <2>1, SameHolders DEF CancelIrp
<1>7. ASSUME NEW i \in Irps, CancelRemove(i)
      PROVE  RundownInv'
  <2>1. Holders' = Holders
    BY <1>0, <1>7 DEF CancelRemove, Holders, TypeOK
  <2> QED BY <1>7, <2>1, SameHolders DEF CancelRemove
<1>8. ASSUME NEW i \in Irps, CompleteCanceledIrp(i)
      PROVE  RundownInv'
  <2>1. Holders' = Holders
    BY <1>0, <1>8 DEF CompleteCanceledIrp, Holders, TypeOK
  <2> QED BY <1>8, <2>1, SameHolders DEF CompleteCanceledIrp
<1>9. ASSUME NEW t \in Threads, UserSend(t)
      PROVE  RundownInv'
  <2>1. Holders' = Holders
    BY <1>0, <1>9 DEF UserSend, Holders, TypeOK, InSend, ThreadInv
  <2> QED BY <1>9, <2>1, SameHolders DEF UserSend
<1>10. ASSUME NEW t \in Threads, DeliverEnter(t)
      PROVE  RundownInv'
  <2>1. /\ <<"callback", t>> \notin Holders
        /\ Holders' = Holders \cup {<<"callback", t>>}
    BY <1>0, <1>10 DEF DeliverEnter, Holders, TypeOK, InSend, ThreadInv
  <2>2. client'.count = client.count + 1
    BY <1>0, <1>10, RundownAcquire DEF DeliverEnter
  <2> QED
    BY <1>0, <1>10, <2>1, <2>2, HolderEnters DEF DeliverEnter, RundownInv
<1>11. ASSUME NEW t \in Threads, DeliverRefused(t)
      PROVE  RundownInv'
  <2>1. Holders' = Holders
    BY <1>0, <1>11 DEF DeliverRefused, Holders, TypeOK, InSend, ThreadInv
  <2> QED BY <1>11, <2>1, SameHolders DEF DeliverRefused
<1>41. ASSUME NEW t \in Threads, DeliverInvalid(t) \/ SendCall(t)
      PROVE  RundownInv'
  <2>1. Holders' = Holders
    BY <1>0, <1>41
       DEF DeliverInvalid, SendCall, MaySend, Holders, TypeOK, InSend
  <2> QED BY <1>41, <2>1, SameHolders DEF DeliverInvalid, SendCall
<1>12. ASSUME NEW t \in Threads, CallbackReturn(t)
      PROVE  RundownInv'
  <2>1. /\ <<"callback", t>> \in Holders
        /\ Holders' = Holders \ {<<"callback", t>>}
    BY <1>0, <1>12
       DEF CallbackReturn, Holders, TypeOK, InSend, ThreadInv, Returned
  <2>2. client'.count = client.count - 1
    BY <1>0, <1>12, <2>1, HolderCounted, RundownRelease DEF CallbackReturn
  <2> QED
    BY <1>0, <1>12, <2>1, <2>2, HolderLeaves DEF CallbackReturn, RundownInv
<1>13. ASSUME NEW t \in Threads, NEW n \in Lengths, NEW b \in HasTimeout,
             SendEnter(t, n, b)
      PROVE  RundownInv'
  <2>1. <<"send", t>> \notin Holders /\ Holders' = Holders \cup {<<"send", t>>}
    BY <1>0, <1>13 DEF SendEnter, Holders, TypeOK, InSend, ThreadInv, Acquiring
  <2>2. client'.count = client.count + 1
    BY <1>0, <1>13, RundownAcquire DEF SendEnter
  <2> QED
    BY <1>0, <1>13, <2>1, <2>2, HolderEnters DEF SendEnter, RundownInv
<1>14. ASSUME NEW t \in Threads, SendRefused(t)
      PROVE  RundownInv'
  <2>1. Holders' = Holders
    BY <1>0, <1>14
       DEF SendRefused, Holders, TypeOK, InSend, ThreadInv, Acquiring, Returned
  <2> QED BY <1>14, <2>1, SameHolders DEF SendRefused
<1>15. ASSUME NEW t \in Threads, WaitDisconnected(t)
      PROVE  RundownInv'
  <2>1. Holders' = Holders
    BY <1>0, <1>15 DEF WaitDisconnected, Holders, TypeOK, InSend, ThreadInv
  <2> QED BY <1>15, <2>1, SameHolders DEF WaitDisconnected
<1>16. ASSUME NEW t \in Threads, WaitSemaphore(t)
      PROVE  RundownInv'
  <2>1. Holders' = Holders
    BY <1>0, <1>16 DEF WaitSemaphore, Holders, TypeOK, InSend, ThreadInv
  <2> QED BY <1>16, <2>1, SameHolders DEF WaitSemaphore
<1>17. ASSUME NEW t \in Threads, WaitTimeout(t)
      PROVE  RundownInv'
  <2>1. Holders' = Holders
    BY <1>0, <1>17 DEF WaitTimeout, Holders, TypeOK, InSend, ThreadInv
  <2> QED BY <1>17, <2>1, SameHolders DEF WaitTimeout
<1>18. ASSUME NEW t \in Threads, WaitAlerted(t)
      PROVE  RundownInv'
  <2>1. Holders' = Holders
    BY <1>0, <1>18 DEF WaitAlerted, Holders, TypeOK, InSend, ThreadInv
  <2> QED BY <1>18, <2>1, SameHolders DEF WaitAlerted
<1>19. ASSUME NEW t \in Threads, NEW i \in Irps, SendDequeue(t, i)
      PROVE  RundownInv'
  <2>1. Holders' = Holders
    BY <1>0, <1>19 DEF SendDequeue, Holders, TypeOK, InSend, ThreadInv
  <2> QED BY <1>19, <2>1, SameHolders DEF SendDequeue
<1>20. ASSUME NEW t \in Threads, SendRetry(t)
      PROVE  RundownInv'
  <2>1. Holders' = Holders
    BY <1>0, <1>20 DEF SendRetry, Holders, TypeOK, InSend, ThreadInv
  <2> QED BY <1>20, <2>1, SameHolders DEF SendRetry
<1>21. ASSUME NEW t \in Threads, SendComplete(t)
      PROVE  RundownInv'
  <2>1. Holders' = Holders
    BY <1>0, <1>21 DEF SendComplete, Holders, TypeOK, InSend, ThreadInv
  <2> QED BY <1>21, <2>1, SameHolders DEF SendComplete
<1>22. ASSUME NEW t \in Threads, SendLeave(t)
      PROVE  RundownInv'
  <2>1. <<"send", t>> \in Holders /\ Holders' = Holders \ {<<"send", t>>}
    BY <1>0, <1>22 DEF SendLeave, Holders, TypeOK, InSend, ThreadInv, Returned
  <2>2. client'.count = client.count - 1
    BY <1>0, <1>22, <2>1, HolderCounted, RundownRelease DEF SendLeave
  <2> QED
    BY <1>0, <1>22, <2>1, <2>2, HolderLeaves DEF SendLeave, RundownInv
<1>23. ASSUME NEW d \in Disconnectors, CheckDisconnected(d)
      PROVE  RundownInv'
  <2>1. Holders' = Holders
    BY <1>23 DEF CheckDisconnected, Holders
  <2> QED
    BY <1>0, <1>23, <2>1
       DEF CheckDisconnected, RundownInv, Goto, TypeOK, Disconnectors
<1>24. ASSUME NEW d \in Disconnectors, SignalDisconnect(d)
      PROVE  RundownInv'
  <2>1. Holders' = Holders
    BY <1>24 DEF SignalDisconnect, Holders
  <2> QED
    BY <1>0, <1>24, <2>1
       DEF SignalDisconnect, RundownInv, Goto, TypeOK, Disconnectors
<1>25. ASSUME NEW d \in Disconnectors, BeginClientRundown(d)
      PROVE  RundownInv'
  <2>1. Holders' = Holders
    BY <1>25 DEF BeginClientRundown, Holders
  <2> QED
    BY <1>0, <1>25, <2>1, RundownBegin
       DEF BeginClientRundown, RundownInv, Goto, TypeOK, Disconnectors
<1>26. ASSUME NEW d \in Disconnectors, ClientRundownDone(d)
      PROVE  RundownInv'
  <2>1. Holders' = Holders
    BY <1>26 DEF ClientRundownDone, Holders
  <2> QED
    BY <1>0, <1>26, <2>1
       DEF ClientRundownDone, RundownInv, Goto, TypeOK, Disconnectors
<1>27. ASSUME NEW d \in Disconnectors, NEW i \in Irps, DrainNext(d, i)
      PROVE  RundownInv'
  <2>1. Holders' = Holders
    BY <1>27 DEF DrainNext, Holders
  <2> QED BY <1>27, <2>1, SameHolders DEF DrainNext
<1>28. ASSUME NEW d \in Disconnectors, DrainDone(d)
      PROVE  RundownInv'
  <2>1. Holders' = Holders
    BY <1>28 DEF DrainDone, Holders
  <2> QED
    BY <1>0, <1>28, <2>1
       DEF DrainDone, RundownInv, Goto, TypeOK, Disconnectors
<1>29. ASSUME StartCleanup
      PROVE  RundownInv'
  <2>1. Holders' = Holders
    BY <1>29 DEF StartCleanup, Holders
  <2> QED
    BY <1>0, <1>29, <2>1
       DEF StartCleanup, RundownInv, Goto, TypeOK, Disconnectors
<1>30. ASSUME CleanupNotify
      PROVE  RundownInv'
  <2>1. Holders' = Holders
    BY <1>30 DEF CleanupNotify, Holders
  <2> QED
    BY <1>0, <1>30, <2>1, RundownAcquire
       DEF CleanupNotify, RundownInv, Goto, TypeOK, Disconnectors
<1>31. ASSUME CleanupNotified
      PROVE  RundownInv'
  <2>1. Holders' = Holders
    BY <1>31 DEF CleanupNotified, Holders
  <2>2. libRundown.count = 1
    BY <1>0, <1>31 DEF RundownInv, CleanupNotified
  <2>3. libRundown'.count = 0
    BY <1>0, <1>31, <2>2, RundownRelease DEF CleanupNotified
  <2>4. disc'["cleanup"] = "told"
    BY <1>0, <1>31 DEF CleanupNotified, Goto, TypeOK, Disconnectors
  <2> QED BY <1>0, <1>31, <2>1, <2>3, <2>4 DEF CleanupNotified, RundownInv
<1>32. ASSUME CleanupSkipNotify \/ CleanupUncount
      PROVE  RundownInv'
  <2>1. Holders' = Holders
    BY <1>32 DEF CleanupSkipNotify, CleanupUncount, Holders
  <2> QED
    BY <1>0, <1>32, <2>1
       DEF CleanupSkipNotify, CleanupUncount, RundownInv, Goto, TypeOK,
           Disconnectors
<1>33. ASSUME CloseRequest
      PROVE  RundownInv'
  <2>1. Holders' = Holders
    BY <1>33 DEF CloseRequest, Holders
  <2> QED
    BY <1>0, <1>33, <2>1
       DEF CloseRequest, RundownInv, Goto, TypeOK, Disconnectors
<1>34. ASSUME StartRelease
      PROVE  RundownInv'
  <2>1. Holders' = Holders
    BY <1>34 DEF StartRelease, Holders
  <2> QED
    BY <1>0, <1>34, <2>1, RundownBegin
       DEF StartRelease, RundownInv, Goto, TypeOK, Disconnectors
<1>35. ASSUME LibraryRundownDone
      PROVE  RundownInv'
  <2>1. Holders' = Holders
    BY <1>35 DEF LibraryRundownDone, Holders
  <2> QED
    BY <1>0, <1>35, <2>1
       DEF LibraryRundownDone, RundownInv, Goto, TypeOK, Disconnectors
<1>36. ASSUME LockClientList
      PROVE  RundownInv'
  <2>1. Holders' = Holders
    BY <1>36 DEF LockClientList, Holders
  <2> QED
    BY <1>0, <1>36, <2>1
       DEF LockClientList, RundownInv, Goto, TypeOK, Disconnectors
<1>37. ASSUME ReleaseNotify
      PROVE  RundownInv'
  <2>1. Holders' = Holders
    BY <1>37 DEF ReleaseNotify, Holders
  <2> QED
    BY <1>0, <1>37, <2>1
       DEF ReleaseNotify, RundownInv, Goto, TypeOK, Disconnectors
<1>38. ASSUME ReleaseNotified \/ UnlockClientList
      PROVE  RundownInv'
  <2>1. Holders' = Holders
    BY <1>38 DEF ReleaseNotified, UnlockClientList, Holders
  <2> QED
    BY <1>0, <1>38, <2>1
       DEF ReleaseNotified, UnlockClientList, RundownInv, Goto, TypeOK,
           Disconnectors
<1>39. ASSUME Terminated
      PROVE  RundownInv'
  BY <1>39, <1>0
     DEF Terminated, vars, RundownInv, Holders
<1>40. CASE UNCHANGED vars
  BY <1>0, <1>40 DEF vars, RundownInv, Holders
<1> QED
  BY <1>1, <1>2, <1>3, <1>4, <1>5, <1>6, <1>7, <1>8, <1>9, <1>10, <1>11,
     <1>12, <1>13, <1>14, <1>15, <1>16, <1>17, <1>18, <1>19, <1>20, <1>21,
     <1>22, <1>23, <1>24, <1>25, <1>26, <1>27, <1>28, <1>29, <1>30, <1>31,
     <1>32, <1>33, <1>34, <1>35, <1>36, <1>37, <1>38, <1>39, <1>40, <1>41
     DEF Next, IrpStep, Insert, Cancellation, ThreadStep, Deliver,
         SendStart, Wake, Dequeue, SendFinish, DisconnectClient, Cleanup,
         Release

-----------------------------------------------------------------------------
(***************************************************************************)
(* Who changes what.                                                       *)
(***************************************************************************)
LEMMA IrpStepFrame ==
    ASSUME NEW i \in Irps, IrpStep(i)
    PROVE  UNCHANGED <<threadVars, discVars>>
BY DEF IrpStep, Insert, Cancellation, Issue, InsertAcquire, InsertRefused,
       InsertAdd, InsertFinish, CancelIrp, CancelRemove, CompleteCanceledIrp

\* What no step of a thread changes.
LEMMA ThreadStepFrame ==
    ASSUME NEW t \in Threads, ThreadStep(t)
    PROVE  UNCHANGED <<irpPc, irpLen, cancel, cancelPc, queueLock, discVars>>
BY DEF ThreadStep, Deliver, SendStart, Wake, Dequeue, SendFinish, UserSend,
       DeliverEnter, DeliverRefused, DeliverInvalid, CallbackReturn, SendCall,
       SendEnter, SendRefused, WaitDisconnected, WaitSemaphore, WaitTimeout,
       WaitAlerted, SendDequeue, SendRetry, SendComplete, SendLeave

\* What no step of NdfCommDisconnectClient changes.
LEMMA DisconnectFrame ==
    ASSUME NEW d \in Disconnectors, DisconnectClient(d)
    PROVE  UNCHANGED <<irpPc, irpLen, cancel, cancelPc, queueLock, threadVars,
                       libRundown, notified>>
BY DEF DisconnectClient, CheckDisconnected, SignalDisconnect,
       BeginClientRundown, ClientRundownDone, DrainNext, DrainDone

HandlerStep == StartCleanup \/ Cleanup \/ StartRelease \/ Release \/ Terminated

\* What no other step of the two handlers changes.
LEMMA HandlerFrame ==
    ASSUME HandlerStep
    PROVE  UNCHANGED <<irpVars, queueVars, threadVars, client,
                       disconnectEvent, broken>>
BY DEF HandlerStep, Cleanup, Release, StartCleanup, CleanupNotify,
       CleanupNotified, CleanupSkipNotify, CleanupUncount, CloseRequest,
       StartRelease, LibraryRundownDone, LockClientList, ReleaseNotify,
       ReleaseNotified, UnlockClientList, Terminated, vars

\* The five kinds of steps.
LEMMA NextSteps ==
    ASSUME [Next]_vars
    PROVE  \/ \E i \in Irps : IrpStep(i)
           \/ \E t \in Threads : ThreadStep(t)
           \/ \E d \in Disconnectors : DisconnectClient(d)
           \/ HandlerStep
           \/ UNCHANGED vars
BY DEF Next, HandlerStep

-----------------------------------------------------------------------------
(***************************************************************************)
(* The threads and the queue lock.                                         *)
(***************************************************************************)
LEMMA ThreadNext == IInv /\ [Next]_vars => ThreadInv'
<1> SUFFICES ASSUME IInv, [Next]_vars PROVE ThreadInv'
  OBVIOUS
<1>0. TypeOK /\ ThreadInv
  BY DEF IInv
<1>1. CASE UNCHANGED threadVars
  BY <1>0, <1>1 DEF ThreadInv
<1>2. ASSUME NEW t \in Threads, UserSend(t)
      PROVE  ThreadInv'
  BY <1>2, <1>0
     DEF UserSend, ThreadInv, TypeOK, InSend
<1>3. ASSUME NEW t \in Threads, DeliverEnter(t)
      PROVE  ThreadInv'
  BY <1>3, <1>0
     DEF DeliverEnter, ThreadInv, TypeOK, InSend
<1>4. ASSUME NEW t \in Threads, DeliverRefused(t)
      PROVE  ThreadInv'
  BY <1>4, <1>0
     DEF DeliverRefused, ThreadInv, TypeOK, InSend
<1>17. ASSUME NEW t \in Threads, DeliverInvalid(t) \/ SendCall(t)
      PROVE  ThreadInv'
  BY <1>17, <1>0
     DEF DeliverInvalid, SendCall, MaySend, ThreadInv, TypeOK, InSend
<1>5. ASSUME NEW t \in Threads, CallbackReturn(t)
      PROVE  ThreadInv'
  BY <1>5, <1>0
     DEF CallbackReturn, ThreadInv, TypeOK, InSend
<1>6. ASSUME NEW t \in Threads, NEW n \in Lengths, NEW b \in HasTimeout,
             SendEnter(t, n, b)
      PROVE  ThreadInv'
  BY <1>6, <1>0
     DEF SendEnter, ThreadInv, TypeOK, InSend, Acquiring
<1>7. ASSUME NEW t \in Threads, SendRefused(t)
      PROVE  ThreadInv'
  BY <1>7, <1>0
     DEF SendRefused, ThreadInv, TypeOK, InSend, Acquiring, Returned
<1>8. ASSUME NEW t \in Threads, WaitDisconnected(t)
      PROVE  ThreadInv'
  BY <1>8, <1>0
     DEF WaitDisconnected, ThreadInv, TypeOK, InSend
<1>9. ASSUME NEW t \in Threads, WaitSemaphore(t)
      PROVE  ThreadInv'
  BY <1>9, <1>0
     DEF WaitSemaphore, ThreadInv, TypeOK, InSend
<1>10. ASSUME NEW t \in Threads, WaitTimeout(t)
      PROVE  ThreadInv'
  BY <1>10, <1>0
     DEF WaitTimeout, ThreadInv, TypeOK, InSend
<1>11. ASSUME NEW t \in Threads, WaitAlerted(t)
      PROVE  ThreadInv'
  BY <1>11, <1>0
     DEF WaitAlerted, ThreadInv, TypeOK, InSend
<1>12. ASSUME NEW t \in Threads, NEW i \in Irps, SendDequeue(t, i)
      PROVE  ThreadInv'
  BY <1>12, <1>0
     DEF SendDequeue, ThreadInv, TypeOK, InSend
<1>13. ASSUME NEW t \in Threads, SendRetry(t)
      PROVE  ThreadInv'
  BY <1>13, <1>0
     DEF SendRetry, ThreadInv, TypeOK, InSend
<1>14. ASSUME NEW t \in Threads, SendComplete(t)
      PROVE  ThreadInv'
  BY <1>14, <1>0
     DEF SendComplete, ThreadInv, TypeOK, InSend
<1>15. ASSUME NEW t \in Threads, SendLeave(t)
      PROVE  ThreadInv'
  BY <1>15, <1>0
     DEF SendLeave, ThreadInv, TypeOK, InSend, Returned
<1>16. ASSUME NEW t \in Threads, ThreadStep(t) PROVE ThreadInv'
  BY <1>2, <1>3, <1>4, <1>5, <1>6, <1>7, <1>8, <1>9, <1>10, <1>11, <1>12,
     <1>13, <1>14, <1>15, <1>16, <1>17
     DEF ThreadStep, Deliver, SendStart, Wake, Dequeue, SendFinish
<1> QED
  BY <1>1, <1>16, NextSteps, IrpStepFrame, DisconnectFrame, HandlerFrame
     DEF vars

\* Every step keeps the queue lock with the insertion that holds it.
LEMMA LockNext == IInv /\ [Next]_vars => LockInv'
<1> SUFFICES ASSUME IInv, [Next]_vars PROVE LockInv'
  OBVIOUS
<1>0. TypeOK /\ LockInv
  BY DEF IInv
<1>1. CASE UNCHANGED <<irpPc, queueLock>>
  BY <1>0, <1>1 DEF LockInv
<1>2. ASSUME NEW i \in Irps, NEW n \in Lengths, Issue(i, n)
      PROVE  LockInv'
  BY <1>2, <1>0, NoneAssumption
     DEF Issue, LockInv, TypeOK
<1>3. ASSUME NEW i \in Irps, InsertAcquire(i)
      PROVE  LockInv'
  BY <1>3, <1>0, NoneAssumption
     DEF InsertAcquire, LockInv, TypeOK
<1>4. ASSUME NEW i \in Irps, InsertRefused(i)
      PROVE  LockInv'
  BY <1>4, <1>0, NoneAssumption
     DEF InsertRefused, LockInv, TypeOK
<1>5. ASSUME NEW i \in Irps, InsertAdd(i)
      PROVE  LockInv'
  BY <1>5, <1>0, NoneAssumption
     DEF InsertAdd, LockInv, TypeOK
<1>6. ASSUME NEW i \in Irps, InsertFinish(i)
      PROVE  LockInv'
  BY <1>6, <1>0, NoneAssumption
     DEF InsertFinish, LockInv, TypeOK
<1>7. ASSUME NEW i \in Irps, CancelIrp(i)
      PROVE  UNCHANGED <<irpPc, queueLock>>
  BY <1>7
     DEF CancelIrp
<1>8. ASSUME NEW i \in Irps, CancelRemove(i)
      PROVE  UNCHANGED <<irpPc, queueLock>>
  BY <1>8
     DEF CancelRemove
<1>9. ASSUME NEW i \in Irps, CompleteCanceledIrp(i)
      PROVE  UNCHANGED <<irpPc, queueLock>>
  BY <1>9
     DEF CompleteCanceledIrp
<1>10. ASSUME NEW i \in Irps, IrpStep(i) PROVE LockInv'
  BY <1>1, <1>2, <1>3, <1>4, <1>5, <1>6, <1>7, <1>8, <1>9, <1>10
     DEF IrpStep, Insert, Cancellation
<1> QED
  BY <1>1, <1>10, NextSteps, ThreadStepFrame, DisconnectFrame, HandlerFrame
     DEF vars

-----------------------------------------------------------------------------
(***************************************************************************)
(* Exactly one party completes a request.                                  *)
(***************************************************************************)
\* Steps that take no request and complete none leave its parties alone.
LEMMA SameParties ==
    ASSUME IInv,
           UNCHANGED <<irpPc, cancelRoutine, cancelPc, completions>>,
           \A t \in Threads : pc[t] = "complete" <=> pc'[t] = "complete",
           \A t \in Threads : pc[t] = "complete" => held'[t] = held[t]
    PROVE  IrpInv' /\ HeldOnce'
<1>1. \A i \in Irps : Taken(i)' <=> Taken(i)
  BY DEF Taken
<1>2. IrpInv'
  BY <1>1 DEF IInv, IrpInv
<1>3. HeldOnce'
  BY DEF IInv, HeldOnce
<1> QED BY <1>2, <1>3

\* Every step keeps one party for each uncompleted request, and none for a
\* completed one: it is completed at most once.
LEMMA PartiesNext == IInv /\ [Next]_vars => IrpInv' /\ HeldOnce'
<1> SUFFICES ASSUME IInv, [Next]_vars PROVE IrpInv' /\ HeldOnce'
  OBVIOUS
<1>0. TypeOK /\ IrpInv /\ HeldOnce /\ ThreadInv
  BY DEF IInv
<1>1. ASSUME NEW i \in Irps, NEW n \in Lengths, Issue(i, n)
      PROVE  IrpInv' /\ HeldOnce'
  <2>1. \A j \in Irps : Taken(j)' <=> Taken(j)
    BY <1>1 DEF Issue, Taken
  <2>2. IrpInv'
    BY <1>0, <1>1, <2>1 DEF Issue, IrpInv, TypeOK
  <2> QED BY <1>0, <1>1, <2>2 DEF Issue, HeldOnce
<1>2. ASSUME NEW i \in Irps, InsertAcquire(i)
      PROVE  IrpInv' /\ HeldOnce'
  <2>1. \A j \in Irps : Taken(j)' <=> Taken(j)
    BY <1>2 DEF InsertAcquire, Taken
  <2>2. IrpInv'
    BY <1>0, <1>2, <2>1 DEF InsertAcquire, IrpInv, TypeOK
  <2> QED BY <1>0, <1>2, <2>2 DEF InsertAcquire, HeldOnce
<1>3. ASSUME NEW i \in Irps, InsertRefused(i)
      PROVE  IrpInv' /\ HeldOnce'
  <2>1. \A j \in Irps : Taken(j)' <=> Taken(j)
    BY <1>3 DEF InsertRefused, Taken
  <2>2. IrpInv'
    BY <1>0, <1>3, <2>1 DEF InsertRefused, IrpInv, TypeOK, Complete
  <2> QED BY <1>0, <1>3, <2>2 DEF InsertRefused, HeldOnce
<1>4. ASSUME NEW i \in Irps, InsertAdd(i)
      PROVE  IrpInv' /\ HeldOnce'
  <2>1. \A j \in Irps : Taken(j)' <=> Taken(j)
    BY <1>4 DEF InsertAdd, Taken
  <2>2. IrpInv'
    BY <1>0, <1>4, <2>1 DEF InsertAdd, IrpInv, TypeOK
  <2> QED BY <1>0, <1>4, <2>2 DEF InsertAdd, HeldOnce
<1>5. ASSUME NEW i \in Irps, InsertFinish(i)
      PROVE  IrpInv' /\ HeldOnce'
  <2>1. \A j \in Irps : Taken(j)' <=> Taken(j)
    BY <1>5 DEF InsertFinish, Taken
  <2>2. IrpInv'
    BY <1>0, <1>5, <2>1 DEF InsertFinish, IrpInv, TypeOK
  <2> QED BY <1>0, <1>5, <2>2 DEF InsertFinish, HeldOnce
<1>6. ASSUME NEW i \in Irps, CancelIrp(i)
      PROVE  IrpInv' /\ HeldOnce'
  <2>1. \A j \in Irps : Taken(j)' <=> Taken(j)
    BY <1>6 DEF CancelIrp, Taken
  <2>2. IrpInv'
    <3>1. CASE cancelRoutine[i]
      <4>1. ASSUME NEW j \in Irps, j # i
            PROVE  UNCHANGED <<cancelRoutine[j], cancelPc[j]>>
        BY <1>0, <1>6, <3>1, <4>1 DEF CancelIrp, TypeOK
      <4>2. ~cancelRoutine'[i] /\ cancelPc'[i] = "remove"
        BY <1>0, <1>6, <3>1 DEF CancelIrp, TypeOK
      <4> QED
        BY <1>0, <1>6, <2>1, <3>1, <4>1, <4>2 DEF CancelIrp, IrpInv
    <3>2. CASE ~cancelRoutine[i]
      BY <1>0, <1>6, <2>1, <3>2 DEF CancelIrp, IrpInv
    <3> QED BY <3>1, <3>2
  <2> QED BY <1>0, <1>6, <2>2 DEF CancelIrp, HeldOnce
<1>7. ASSUME NEW i \in Irps, CancelRemove(i)
      PROVE  IrpInv' /\ HeldOnce'
  <2>1. \A j \in Irps : Taken(j)' <=> Taken(j)
    BY <1>7 DEF CancelRemove, Taken
  <2>2. IrpInv'
    BY <1>0, <1>7, <2>1 DEF CancelRemove, IrpInv, TypeOK
  <2> QED BY <1>0, <1>7, <2>2 DEF CancelRemove, HeldOnce
<1>8. ASSUME NEW i \in Irps, CompleteCanceledIrp(i)
      PROVE  IrpInv' /\ HeldOnce'
  <2>1. \A j \in Irps : Taken(j)' <=> Taken(j)
    BY <1>8 DEF CompleteCanceledIrp, Taken
  <2>2. IrpInv'
    BY <1>0, <1>8, <2>1 DEF CompleteCanceledIrp, IrpInv, TypeOK, Complete
  <2> QED BY <1>0, <1>8, <2>2 DEF CompleteCanceledIrp, HeldOnce
<1>9. ASSUME NEW t \in Threads, UserSend(t)
      PROVE  IrpInv' /\ HeldOnce'
  BY <1>9, <1>0, SameParties
     DEF UserSend, TypeOK
<1>10. ASSUME NEW t \in Threads, DeliverEnter(t)
      PROVE  IrpInv' /\ HeldOnce'
  BY <1>10, <1>0, SameParties
     DEF DeliverEnter, TypeOK
<1>11. ASSUME NEW t \in Threads, DeliverRefused(t)
      PROVE  IrpInv' /\ HeldOnce'
  BY <1>11, <1>0, SameParties
     DEF DeliverRefused, TypeOK
<1>27. ASSUME NEW t \in Threads, DeliverInvalid(t) \/ SendCall(t)
      PROVE  IrpInv' /\ HeldOnce'
  BY <1>27, <1>0, SameParties
     DEF DeliverInvalid, SendCall, MaySend, TypeOK
<1>12. ASSUME NEW t \in Threads, CallbackReturn(t)
      PROVE  IrpInv' /\ HeldOnce'
  BY <1>12, <1>0, SameParties
     DEF CallbackReturn, TypeOK
<1>13. ASSUME NEW t \in Threads, NEW n \in Lengths, NEW b \in HasTimeout,
             SendEnter(t, n, b)
      PROVE  IrpInv' /\ HeldOnce'
  BY <1>13, <1>0, SameParties
     DEF SendEnter, TypeOK, Acquiring
<1>14. ASSUME NEW t \in Threads, SendRefused(t)
      PROVE  IrpInv' /\ HeldOnce'
  BY <1>14, <1>0, SameParties
     DEF SendRefused, TypeOK, Acquiring, Returned
<1>15. ASSUME NEW t \in Threads, WaitDisconnected(t)
      PROVE  IrpInv' /\ HeldOnce'
  BY <1>15, <1>0, SameParties
     DEF WaitDisconnected, TypeOK
<1>16. ASSUME NEW t \in Threads, WaitSemaphore(t)
      PROVE  IrpInv' /\ HeldOnce'
  BY <1>16, <1>0, SameParties
     DEF WaitSemaphore, TypeOK
<1>17. ASSUME NEW t \in Threads, WaitTimeout(t)
      PROVE  IrpInv' /\ HeldOnce'
  BY <1>17, <1>0, SameParties
     DEF WaitTimeout, TypeOK
<1>18. ASSUME NEW t \in Threads, WaitAlerted(t)
      PROVE  IrpInv' /\ HeldOnce'
  BY <1>18, <1>0, SameParties
     DEF WaitAlerted, TypeOK
<1>19. ASSUME NEW t \in Threads, NEW i \in Irps, SendDequeue(t, i)
      PROVE  IrpInv' /\ HeldOnce'
  <2>1. cancelRoutine[i]
    BY <1>0, <1>19, NextIrp DEF SendDequeue, Suitable
  <2>2. \A j \in Irps : Taken(j)' <=> (j = i \/ Taken(j))
    BY <1>0, <1>19 DEF SendDequeue, Taken, TypeOK
  <2>3. IrpInv'
    BY <1>0, <1>19, <2>1, <2>2 DEF SendDequeue, IrpInv, TypeOK
  <2>4. ~Taken(i)
    BY <1>0, <2>1 DEF IrpInv
  <2>5. HeldOnce'
    BY <1>0, <1>19, <2>4 DEF SendDequeue, HeldOnce, Taken, TypeOK
  <2> QED BY <2>3, <2>5
<1>20. ASSUME NEW t \in Threads, SendRetry(t)
      PROVE  IrpInv' /\ HeldOnce'
  BY <1>20, <1>0, SameParties
     DEF SendRetry, TypeOK
<1>21. ASSUME NEW t \in Threads, SendComplete(t)
      PROVE  IrpInv' /\ HeldOnce'
  <2>1. held[t] \in Irps /\ Taken(held[t])
    BY <1>0, <1>21 DEF SendComplete, ThreadInv, Taken
  <2>2. \A j \in Irps : Taken(j)' <=> (j # held[t] /\ Taken(j))
    BY <1>0, <1>21 DEF SendComplete, Taken, HeldOnce, TypeOK
  <2>3. IrpInv'
    BY <1>0, <1>21, <2>1, <2>2 DEF SendComplete, Complete, IrpInv, TypeOK
  <2>4. HeldOnce'
    BY <1>0, <1>21 DEF SendComplete, HeldOnce, TypeOK
  <2> QED BY <2>3, <2>4
<1>22. ASSUME NEW t \in Threads, SendLeave(t)
      PROVE  IrpInv' /\ HeldOnce'
  BY <1>22, <1>0, SameParties
     DEF SendLeave, TypeOK, Returned
<1>23. ASSUME NEW i \in Irps, IrpStep(i) PROVE IrpInv' /\ HeldOnce'
  BY <1>1, <1>2, <1>3, <1>4, <1>5, <1>6, <1>7, <1>8, <1>23
     DEF IrpStep, Insert, Cancellation
<1>24. ASSUME NEW t \in Threads, ThreadStep(t) PROVE IrpInv' /\ HeldOnce'
  BY <1>9, <1>10, <1>11, <1>12, <1>13, <1>14, <1>15, <1>16, <1>17, <1>18,
     <1>19, <1>20, <1>21, <1>22, <1>24, <1>27
     DEF ThreadStep, Deliver, SendStart, Wake, Dequeue, SendFinish
<1>25. ASSUME NEW d \in Disconnectors, DisconnectClient(d)
       PROVE  IrpInv' /\ HeldOnce'
  <2>1. ASSUME NEW i \in Irps, DrainNext(d, i) PROVE IrpInv' /\ HeldOnce'
    <3>1. cancelRoutine[i]
      BY <1>0, <2>1, NextIrp DEF DrainNext, Suitable
    <3>2. \A j \in Irps : Taken(j)' <=> Taken(j)
      BY <2>1 DEF DrainNext, Taken
    <3>3. IrpInv'
      BY <1>0, <2>1, <3>1, <3>2 DEF DrainNext, Complete, IrpInv, TypeOK
    <3> QED BY <1>0, <2>1, <3>3 DEF DrainNext, HeldOnce
  <2>2. ASSUME ~\E i \in Irps : DrainNext(d, i) PROVE IrpInv' /\ HeldOnce'
    BY <1>25, <2>2, SameParties
       DEF DisconnectClient, CheckDisconnected, SignalDisconnect,
           BeginClientRundown, ClientRundownDone, DrainDone
  <2> QED BY <2>1, <2>2
<1>26. CASE HandlerStep \/ UNCHANGED vars
  BY <1>26, HandlerFrame, SameParties DEF vars
<1> QED BY <1>23, <1>24, <1>25, <1>26, NextSteps

-----------------------------------------------------------------------------
(***************************************************************************)
(* The list of the queue holds the queued requests.                        *)
(***************************************************************************)
LEMMA SameQueue ==
    ASSUME IInv, queue' = queue,
           \A i \in Irps : Queued(i)' <=> Queued(i),
           \A i \in Irps : Queued(i) => completions'[i] = completions[i]
    PROVE  QueueIntegrity'
<1>1. QueueIntegrity
  BY DEF IInv
<1>2. {i \in Irps : Queued(i)}' = {i \in Irps : Queued(i)}
  OBVIOUS
<1>3. ToSet(queue') = ToSet(queue)
  OBVIOUS
<1>4. \A i \in ToSet(queue) : i \in Irps /\ Queued(i)
  BY <1>1 DEF QueueIntegrity
<1> QED BY <1>1, <1>2, <1>3, <1>4 DEF QueueIntegrity

\* Whoever unlinks a request and takes over its completion keeps the list
\* exact.
LEMMA TakenOut ==
    ASSUME IInv, NEW i \in ToSet(queue), queue' = Unlink(queue, i),
           ~Queued(i)',
           \A j \in Irps : j # i =>
               /\ Queued(j)' <=> Queued(j)
               /\ completions'[j] = completions[j]
    PROVE  QueueIntegrity'
<1>1. QueueIntegrity /\ queue \in Seq(Irps)
  BY DEF IInv, TypeOK
<1>2. /\ ToSet(queue') = ToSet(queue) \ {i}
      /\ \A j, k \in DOMAIN queue' : queue'[j] = queue'[k] => j = k
  BY <1>1, UnlinkElement DEF QueueIntegrity
<1>3. {j \in Irps : Queued(j)}' = {j \in Irps : Queued(j)} \ {i}
  OBVIOUS
<1>4. ToSet(queue') = {j \in Irps : Queued(j)}'
  BY <1>1, <1>2, <1>3 DEF QueueIntegrity
<1>5. \A j \in ToSet(queue') : completions'[j] = 0
  BY <1>1, <1>2 DEF QueueIntegrity
<1> QED BY <1>2, <1>4, <1>5 DEF QueueIntegrity

\* Every step keeps the list of the queue exact.
LEMMA QueueNext == IInv /\ [Next]_vars => QueueIntegrity'
<1> SUFFICES ASSUME IInv, [Next]_vars PROVE QueueIntegrity'
  OBVIOUS
<1>0. TypeOK /\ QueueIntegrity /\ IrpInv /\ ThreadInv
  BY DEF IInv
<1>1. ASSUME NEW i \in Irps, NEW n \in Lengths, Issue(i, n)
      PROVE  QueueIntegrity'
  <2>1. \A j \in Irps : Queued(j)' <=> Queued(j)
    BY <1>0, <1>1 DEF Issue, Queued, IrpInv, TypeOK
  <2>2. \A j \in Irps : Queued(j) => completions'[j] = completions[j]
    BY <1>0, <1>1 DEF Issue, Queued, IrpInv, TypeOK
  <2> QED BY <1>1, <2>1, <2>2, SameQueue DEF Issue
<1>2. ASSUME NEW i \in Irps, InsertAcquire(i)
      PROVE  QueueIntegrity'
  <2>1. \A j \in Irps : Queued(j)' <=> Queued(j)
    BY <1>0, <1>2 DEF InsertAcquire, Queued, IrpInv, TypeOK
  <2>2. \A j \in Irps : Queued(j) => completions'[j] = completions[j]
    BY <1>0, <1>2 DEF InsertAcquire, Queued, IrpInv, TypeOK
  <2> QED BY <1>2, <2>1, <2>2, SameQueue DEF InsertAcquire
<1>3. ASSUME NEW i \in Irps, InsertRefused(i)
      PROVE  QueueIntegrity'
  <2>1. \A j \in Irps : Queued(j)' <=> Queued(j)
    BY <1>0, <1>3 DEF InsertRefused, Queued, IrpInv, TypeOK
  <2>2. \A j \in Irps : Queued(j) => completions'[j] = completions[j]
    BY <1>0, <1>3 DEF InsertRefused, Queued, IrpInv, TypeOK, Complete
  <2> QED BY <1>3, <2>1, <2>2, SameQueue DEF InsertRefused
<1>4. ASSUME NEW i \in Irps, InsertAdd(i)
      PROVE  QueueIntegrity'
  <2>1. i \notin ToSet(queue)
    BY <1>0, <1>4 DEF InsertAdd, QueueIntegrity, Queued, IrpInv
  <2>2. /\ ToSet(queue') = ToSet(queue) \cup {i}
        /\ \A j, l \in DOMAIN queue' : queue'[j] = queue'[l] => j = l
    <3>1. queue \in Seq(Irps) /\ queue' = Append(queue, i)
      BY <1>0, <1>4 DEF InsertAdd, TypeOK
    <3>2. \A j, l \in DOMAIN queue : queue[j] = queue[l] => j = l
      BY <1>0 DEF QueueIntegrity
    <3> QED BY <2>1, <3>1, <3>2, AppendElement
  <2>3. \A j \in Irps : Queued(j)' <=> (j = i \/ Queued(j))
    BY <1>0, <1>4 DEF InsertAdd, Queued, TypeOK
  <2>4. {j \in Irps : Queued(j)}' = {j \in Irps : Queued(j)} \cup {i}
    BY <2>3
  <2>5. \A j \in ToSet(queue') : completions'[j] = 0
    BY <1>0, <1>4, <2>2 DEF InsertAdd, QueueIntegrity, IrpInv
  <2> QED BY <1>0, <2>2, <2>4, <2>5 DEF QueueIntegrity
<1>5. ASSUME NEW i \in Irps, InsertFinish(i)
      PROVE  QueueIntegrity'
  <2>1. CASE cancel[i]
    <3>1. i \in ToSet(queue) /\ queue' = Unlink(queue, i)
      BY <1>0, <1>5, <2>1 DEF InsertFinish, QueueIntegrity, Queued
    <3>2. /\ ~Queued(i)'
          /\ \A j \in Irps : j # i => (Queued(j)' <=> Queued(j))
      BY <1>0, <1>5, <2>1 DEF InsertFinish, Queued, IrpInv, TypeOK
    <3> QED BY <1>5, <3>1, <3>2, TakenOut DEF InsertFinish
  <2>2. CASE ~cancel[i]
    <3>1. \A j \in Irps : Queued(j)' <=> Queued(j)
      BY <1>0, <1>5, <2>2 DEF InsertFinish, Queued, TypeOK
    <3> QED BY <1>5, <2>2, <3>1, SameQueue DEF InsertFinish
  <2> QED BY <2>1, <2>2
<1>6. ASSUME NEW i \in Irps, CancelIrp(i)
      PROVE  QueueIntegrity'
  <2>1. Queued(i)' <=> Queued(i)
    <3>1. CASE cancelRoutine[i]
      BY <1>0, <1>6, <3>1 DEF CancelIrp, Queued, TypeOK
    <3>2. CASE ~cancelRoutine[i]
      BY <1>6, <3>2 DEF CancelIrp, Queued
    <3> QED BY <3>1, <3>2
  <2>2. \A j \in Irps : j # i => (Queued(j)' <=> Queued(j))
    BY <1>0, <1>6 DEF CancelIrp, Queued, TypeOK
  <2> QED BY <1>6, <2>1, <2>2, SameQueue DEF CancelIrp
<1>7. ASSUME NEW i \in Irps, CancelRemove(i)
      PROVE  QueueIntegrity'
  <2>1. i \in ToSet(queue) /\ queue' = Unlink(queue, i)
    BY <1>0, <1>7 DEF CancelRemove, QueueIntegrity, Queued
  <2>2. /\ ~Queued(i)'
        /\ \A j \in Irps : j # i => (Queued(j)' <=> Queued(j))
    BY <1>0, <1>7 DEF CancelRemove, Queued, IrpInv, TypeOK
  <2> QED BY <1>7, <2>1, <2>2, TakenOut DEF CancelRemove
<1>8. ASSUME NEW i \in Irps, CompleteCanceledIrp(i)
      PROVE  QueueIntegrity'
  <2>1. \A j \in Irps : Queued(j)' <=> Queued(j)
    BY <1>0, <1>8 DEF CompleteCanceledIrp, Queued, IrpInv, TypeOK
  <2>2. \A j \in Irps : Queued(j) => completions'[j] = completions[j]
    BY <1>0, <1>8 DEF CompleteCanceledIrp, Queued, IrpInv, TypeOK, Complete
  <2> QED BY <1>8, <2>1, <2>2, SameQueue DEF CompleteCanceledIrp
<1>9. ASSUME NEW t \in Threads, NEW i \in Irps, SendDequeue(t, i)
      PROVE  QueueIntegrity'
  <2>1. i \in ToSet(queue) /\ cancelRoutine[i] /\ queue' = Unlink(queue, i)
    BY <1>0, <1>9, NextIrp DEF SendDequeue, Suitable
  <2>2. /\ ~Queued(i)'
        /\ \A j \in Irps : j # i => (Queued(j)' <=> Queued(j))
    BY <1>0, <1>9, <2>1 DEF SendDequeue, Queued, IrpInv, TypeOK
  <2> QED BY <1>9, <2>1, <2>2, TakenOut DEF SendDequeue
<1>10. ASSUME NEW t \in Threads, SendComplete(t)
      PROVE  QueueIntegrity'
  <2>1. held[t] \in Irps /\ Taken(held[t])
    BY <1>0, <1>10 DEF SendComplete, ThreadInv, Taken
  <2>2. ~Queued(held[t])
    BY <1>0, <2>1 DEF Queued, IrpInv
  <2>3. \A j \in Irps : j # held[t] => completions'[j] = completions[j]
    BY <1>0, <1>10 DEF SendComplete, Complete, TypeOK
  <2>4. \A j \in Irps : Queued(j)' <=> Queued(j)
    BY <1>10 DEF SendComplete, Queued
  <2> QED BY <1>10, <2>2, <2>3, <2>4, SameQueue DEF SendComplete
<1>11. ASSUME UNCHANGED <<queue, irpPc, cancelRoutine, cancelPc, completions>>
      PROVE  QueueIntegrity'
  BY <1>0, <1>11 DEF QueueIntegrity, Queued
<1>12. ASSUME NEW i \in Irps, IrpStep(i) PROVE QueueIntegrity'
  BY <1>1, <1>2, <1>3, <1>4, <1>5, <1>6, <1>7, <1>8, <1>12
     DEF IrpStep, Insert, Cancellation
<1>13. ASSUME NEW t \in Threads, ThreadStep(t) PROVE QueueIntegrity'
  <2>1. CASE \E i \in Irps : SendDequeue(t, i)
    BY <1>9, <2>1
  <2>2. CASE SendComplete(t)
    BY <1>10, <2>2
  <2>3. CASE ~SendComplete(t) /\ ~\E i \in Irps : SendDequeue(t, i)
    BY <1>11, <1>13, <2>3
       DEF ThreadStep, Deliver, SendStart, Wake, Dequeue, SendFinish,
           UserSend, DeliverEnter, DeliverRefused, DeliverInvalid,
           CallbackReturn, SendCall, SendEnter, SendRefused, WaitDisconnected,
           WaitSemaphore, WaitTimeout, WaitAlerted, SendRetry, SendLeave
  <2> QED BY <2>1, <2>2, <2>3
<1>14. ASSUME NEW d \in Disconnectors, DisconnectClient(d)
      PROVE  QueueIntegrity'
  <2>1. ASSUME NEW i \in Irps, DrainNext(d, i) PROVE QueueIntegrity'
    <3>1. i \in ToSet(queue) /\ cancelRoutine[i] /\ queue' = Unlink(queue, i)
      BY <1>0, <2>1, NextIrp DEF DrainNext, Suitable
    <3>2. /\ ~Queued(i)'
          /\ \A j \in Irps : j # i => (Queued(j)' <=> Queued(j))
      BY <1>0, <2>1, <3>1 DEF DrainNext, Queued, IrpInv, TypeOK
    <3>3. \A j \in Irps : j # i => completions'[j] = completions[j]
      BY <1>0, <2>1 DEF DrainNext, Complete, TypeOK
    <3> QED BY <3>1, <3>2, <3>3, TakenOut
  <2>2. CASE ~\E i \in Irps : DrainNext(d, i)
    BY <1>11, <1>14, <2>2
       DEF DisconnectClient, CheckDisconnected, SignalDisconnect,
           BeginClientRundown, ClientRundownDone, DrainDone
  <2> QED BY <2>1, <2>2
<1> QED BY <1>11, <1>12, <1>13, <1>14, NextSteps, HandlerFrame DEF vars

-----------------------------------------------------------------------------
(***************************************************************************)
(* NdfCommDisconnectClient and the end of the client.                      *)
(***************************************************************************)
DiscInv == OneRundownWaiter /\ DisconnectInv /\ NobodyInFreed

\* A client that is run down and empty has nobody inside.
LEMMA NobodyInside ==
    ASSUME IInv, Empty
    PROVE  /\ \A i \in Irps : irpPc[i] # "locked"
           /\ \A t \in Threads : pc[t] \notin InSend /\ ~inCallback[t]
<1>1. Holders = {}
  BY HoldersFinite, FS_EmptySet DEF IInv, RundownInv, Empty
<1> QED BY <1>1 DEF Holders

\* Steps outside NdfCommDisconnectClient: while the client is run down and
\* empty nobody gets in, and a drained queue stays drained.
LEMMA SameDisconnect ==
    ASSUME IInv, UNCHANGED <<disc, broken>>,
           client'.active = client.active,
           Empty => client' = client,
           Drained => \A i \in Irps : /\ cancelRoutine'[i] => cancelRoutine[i]
                                      /\ irpPc'[i] = "added" => irpPc[i] = "added"
    PROVE  OneRundownWaiter' /\ DisconnectInv'
<1>0. OneRundownWaiter /\ DisconnectInv
  BY DEF IInv
<1>1. OneRundownWaiter'
  BY <1>0 DEF OneRundownWaiter
<1>2. (Drained' <=> Drained) /\ (Closed' <=> Closed)
  BY DEF Drained, Closed
<1>3. Empty => Empty'
  BY DEF Empty
<1>4. DisconnectInv'
  BY <1>0, <1>2, <1>3 DEF DisconnectInv
<1> QED BY <1>1, <1>4

\* What the invariant says of a client that has been freed.
LEMMA ClosedFacts ==
    ASSUME IInv, Closed
    PROVE  /\ Drained /\ Empty /\ Cleaning
           /\ \A i \in Irps : ~cancelRoutine[i] /\ irpPc[i] # "added"
BY DEF IInv, DisconnectInv, Closed, Cleaning

\* No step of a request disturbs what the disconnection established.
LEMMA IrpDisc ==
    ASSUME IInv, NEW i \in Irps, IrpStep(i)
    PROVE  DiscInv'
<1>0. TypeOK /\ RundownInv /\ client \in RundownRef
  BY DEF IInv, TypeOK
<1>1. client'.active = client.active
  <2>1. CASE InsertAcquire(i)
    BY <1>0, <2>1, RundownAcquire DEF InsertAcquire
  <2>2. CASE InsertAdd(i)
    <3>1. <<"insert", i>> \in Holders
      BY <2>2 DEF InsertAdd, Holders
    <3> QED BY <1>0, <2>2, <3>1, HolderCounted, RundownRelease DEF InsertAdd
  <2>3. CASE ~InsertAcquire(i) /\ ~InsertAdd(i)
    BY <2>3
       DEF IrpStep, Insert, Cancellation, Issue, InsertRefused, InsertFinish,
           CancelIrp, CancelRemove, CompleteCanceledIrp
  <2> QED BY <2>1, <2>2, <2>3
<1>2. ASSUME Empty PROVE ~InsertAcquire(i) /\ ~InsertAdd(i)
  BY <1>2, NobodyInside DEF Empty, InsertAcquire, InsertAdd, CanAcquire
<1>3. Empty => client' = client
  BY <1>2
     DEF IrpStep, Insert, Cancellation, Issue, InsertRefused, InsertFinish,
         CancelIrp, CancelRemove, CompleteCanceledIrp
<1>4. ASSUME Drained, NEW j \in Irps
      PROVE  /\ cancelRoutine'[j] => cancelRoutine[j]
             /\ irpPc'[j] = "added" => irpPc[j] = "added"
  <2>1. Empty /\ irpPc[i] # "added"
    BY <1>4 DEF IInv, DisconnectInv
  <2> QED
    BY <1>0, <1>2, <2>1
       DEF IrpStep, Insert, Cancellation, Issue, InsertRefused, InsertFinish,
           CancelIrp, CancelRemove, CompleteCanceledIrp, TypeOK
<1>5. UNCHANGED <<disc, broken, pc, inCallback>>
  BY IrpStepFrame
<1>6. OneRundownWaiter' /\ DisconnectInv'
  BY <1>1, <1>3, <1>4, <1>5, SameDisconnect
<1>7. NobodyInFreed'
  <2> SUFFICES ASSUME Closed' PROVE NobodyInFreed'
    BY DEF NobodyInFreed
  <2>1. Closed /\ Cleaning /\ ~cancelRoutine[i]
    BY <1>5, ClosedFacts DEF Closed
  <2>2. NobodyInFreed
    BY DEF IInv
  <2>3. UNCHANGED <<queue, queueLock, irpPc, cancelPc>>
    BY <1>0, <2>1, <2>2
       DEF IrpStep, Insert, Cancellation, Issue, InsertAcquire, InsertRefused,
           InsertAdd, InsertFinish, CancelIrp, CancelRemove,
           CompleteCanceledIrp, NobodyInFreed, TypeOK
  <2> QED BY <1>5, <2>1, <2>2, <2>3 DEF NobodyInFreed
<1> QED BY <1>6, <1>7 DEF DiscInv

\* No step of a thread disturbs what the disconnection established.
LEMMA ThreadDisc ==
    ASSUME IInv, NEW t \in Threads, ThreadStep(t)
    PROVE  DiscInv'
<1>0. TypeOK /\ RundownInv /\ ThreadInv /\ client \in RundownRef
  BY DEF IInv, TypeOK
<1>1. client'.active = client.active
  <2>1. CASE DeliverEnter(t)
    BY <1>0, <2>1, RundownAcquire DEF DeliverEnter
  <2>2. CASE \E n \in Lengths, b \in HasTimeout : SendEnter(t, n, b)
    BY <1>0, <2>2, RundownAcquire DEF SendEnter
  <2>3. CASE CallbackReturn(t)
    <3>1. <<"callback", t>> \in Holders
      BY <1>0, <2>3 DEF CallbackReturn, Holders, ThreadInv
    <3> QED BY <1>0, <2>3, <3>1, HolderCounted, RundownRelease DEF CallbackReturn
  <2>4. CASE SendLeave(t)
    <3>1. <<"send", t>> \in Holders
      BY <2>4 DEF SendLeave, Holders, InSend
    <3> QED BY <1>0, <2>4, <3>1, HolderCounted, RundownRelease DEF SendLeave
  <2>5. CASE UNCHANGED client
    BY <2>5
  <2> QED
    BY <2>1, <2>2, <2>3, <2>4, <2>5
       DEF ThreadStep, Deliver, SendStart, Wake, Dequeue, SendFinish,
           UserSend, DeliverRefused, DeliverInvalid, SendCall, SendRefused,
           WaitDisconnected, WaitSemaphore, WaitTimeout, WaitAlerted,
           SendDequeue, SendRetry, SendComplete
<1>2. ASSUME Empty
      PROVE  \/ UserSend(t) \/ DeliverRefused(t) \/ DeliverInvalid(t)
             \/ SendCall(t) \/ SendRefused(t)
  <2>1. pc[t] \notin InSend /\ ~inCallback[t] /\ ~CanAcquire(client)
    BY <1>2, NobodyInside DEF Empty, CanAcquire
  <2> QED
    BY <1>0, <2>1
       DEF ThreadStep, Deliver, SendStart, Wake, Dequeue, SendFinish,
           DeliverEnter, CallbackReturn, SendEnter, WaitDisconnected,
           WaitSemaphore, WaitTimeout, WaitAlerted, SendDequeue, SendRetry,
           SendComplete, SendLeave, InSend, ThreadInv
<1>3. Empty => UNCHANGED <<client, cancelRoutine, irpPc, queueVars, inCallback>>
  BY <1>2
     DEF UserSend, DeliverRefused, DeliverInvalid, SendCall, SendRefused
<1>4. Drained => Empty
  BY DEF IInv, DisconnectInv
<1>5. UNCHANGED <<disc, broken, irpPc, cancelPc, queueLock>>
  BY ThreadStepFrame
<1>6. OneRundownWaiter' /\ DisconnectInv'
  BY <1>1, <1>3, <1>4, <1>5, SameDisconnect
<1>7. NobodyInFreed'
  <2> SUFFICES ASSUME Closed' PROVE NobodyInFreed'
    BY DEF NobodyInFreed
  <2>1. Closed /\ Empty /\ Cleaning
    BY <1>5, ClosedFacts DEF Closed
  <2>2. NobodyInFreed
    BY DEF IInv
  <2>3. pc'[t] \notin InSend
    BY <1>0, <1>2, <2>1, NobodyInside
       DEF UserSend, DeliverRefused, DeliverInvalid, SendCall, SendRefused,
           Returned, TypeOK, InSend
  <2>4. \A u \in Threads : u # t => pc'[u] = pc[u]
    BY <1>0, <1>2, <2>1
       DEF UserSend, DeliverRefused, DeliverInvalid, SendCall, SendRefused,
           TypeOK
  <2> QED
    BY <1>3, <1>5, <2>1, <2>2, <2>3, <2>4 DEF NobodyInFreed
<1> QED BY <1>6, <1>7 DEF DiscInv

\* The steps of NdfCommDisconnectClient itself.
LEMMA DisconnectDisc ==
    ASSUME IInv, NEW d \in Disconnectors, DisconnectClient(d)
    PROVE  DiscInv'
<1>0. /\ TypeOK /\ OneRundownWaiter /\ DisconnectInv /\ NobodyInFreed
      /\ client \in RundownRef
  BY DEF IInv, TypeOK
<1>1. disc[d] \in InDisconnect \cup {"disconnect"}
  BY DEF DisconnectClient, CheckDisconnected, SignalDisconnect,
         BeginClientRundown, ClientRundownDone, DrainNext, DrainDone,
         InDisconnect
<1>2. ~Closed
  BY <1>0, <1>1 DEF NobodyInFreed, Closed, Disconnectors, InDisconnect
<1>3. /\ \A e \in Disconnectors : e # d => disc'[e] = disc[e]
      /\ disc'[d] \in InDisconnect \cup {"notify"}
      /\ disc' \in [Disconnectors -> CleanupPc \cup ReleasePc]
  <2>1. CASE UNCHANGED disc /\ disc[d] \in InDisconnect
    BY <1>0, <2>1 DEF TypeOK
  <2>2. ASSUME NEW label \in InDisconnect \cup {"notify"}, Goto(d, label)
        PROVE  /\ \A e \in Disconnectors : e # d => disc'[e] = disc[e]
               /\ disc'[d] \in InDisconnect \cup {"notify"}
               /\ disc' \in [Disconnectors -> CleanupPc \cup ReleasePc]
    BY <1>0, <2>2 DEF Goto, TypeOK, CleanupPc, ReleasePc
  <2>3. CASE CheckDisconnected(d)
    BY <2>2, <2>3 DEF CheckDisconnected, InDisconnect
  <2>4. CASE SignalDisconnect(d) \/ BeginClientRundown(d)
    BY <2>2, <2>4 DEF SignalDisconnect, BeginClientRundown, InDisconnect
  <2>5. CASE ClientRundownDone(d) \/ DrainDone(d)
    BY <2>2, <2>5 DEF ClientRundownDone, DrainDone, InDisconnect
  <2>6. CASE \E i \in Irps : DrainNext(d, i)
    BY <2>1, <2>6 DEF DrainNext, InDisconnect
  <2> QED BY <2>3, <2>4, <2>5, <2>6 DEF DisconnectClient
<1>4. ~Closed'
  BY <1>2, <1>3 DEF Closed, Disconnectors, InDisconnect
<1>5. NobodyInFreed'
  BY <1>4 DEF NobodyInFreed
<1>6. CASE CheckDisconnected(d)
  <2>1. CASE broken
    <3>1. /\ \A e \in Disconnectors :
                (disc'[e] \in InDisconnect <=> disc[e] \in InDisconnect)
      BY <1>0, <1>3, <1>6, <2>1 DEF CheckDisconnected, Goto, InDisconnect, TypeOK
    <3>2. Drained' <=> Drained
      BY <1>6, <2>1, <3>1 DEF CheckDisconnected, Drained
    <3>3. \A e \in Disconnectors :
             disc'[e] \in {"wait", "drain"} => disc[e] = disc'[e]
      BY <1>0, <1>3, <1>6, <2>1 DEF CheckDisconnected, Goto, TypeOK
    <3>4. OneRundownWaiter'
      BY <1>0, <3>1 DEF OneRundownWaiter
    <3>5. DisconnectInv'
      BY <1>0, <1>4, <1>6, <2>1, <3>1, <3>2, <3>3
         DEF CheckDisconnected, DisconnectInv, Empty
    <3> QED BY <1>5, <3>4, <3>5 DEF DiscInv
  <2>2. CASE ~broken
    <3>1. \A e \in Disconnectors : disc[e] \notin InDisconnect
      BY <1>0, <2>2 DEF DisconnectInv
    <3>2. disc'[d] = "signal" /\ broken'
      BY <1>0, <1>6, <2>2 DEF CheckDisconnected, Goto, TypeOK
    <3>3. ~Drained' /\ OneRundownWaiter'
      BY <1>3, <3>1, <3>2 DEF Drained, OneRundownWaiter, InDisconnect
    <3>4. DisconnectInv'
      BY <1>3, <1>4, <3>1, <3>2, <3>3 DEF DisconnectInv, InDisconnect
    <3> QED BY <1>5, <3>3, <3>4 DEF DiscInv
  <2> QED BY <2>1, <2>2
<1>7. CASE disc[d] \in InDisconnect
  <2>1. broken /\ \A e \in Disconnectors : e # d => disc[e] \notin InDisconnect
    BY <1>0, <1>7 DEF DisconnectInv, OneRundownWaiter
  <2>2. broken'
    BY <1>7, <2>1
       DEF DisconnectClient, CheckDisconnected, SignalDisconnect,
           BeginClientRundown, ClientRundownDone, DrainNext, DrainDone,
           InDisconnect
  <2>3. OneRundownWaiter'
    BY <1>3, <2>1 DEF OneRundownWaiter
  <2>4. \A e \in Disconnectors : disc'[e] \in InDisconnect => e = d
    BY <1>3, <2>1
  <2>5. /\ disc'[d] = "wait" => client'.active
        /\ disc'[d] = "drain" => Empty'
    <3>1. CASE BeginClientRundown(d)
      BY <1>0, <3>1, RundownBegin DEF BeginClientRundown, Goto, TypeOK
    <3>2. CASE ClientRundownDone(d)
      BY <1>0, <3>2 DEF ClientRundownDone, Goto, TypeOK, RundownReleased, Empty
    <3>3. CASE \E i \in Irps : DrainNext(d, i)
      BY <1>0, <3>3 DEF DrainNext, DisconnectInv, Empty
    <3>4. CASE SignalDisconnect(d) \/ DrainDone(d)
      BY <1>0, <3>4 DEF SignalDisconnect, DrainDone, Goto, TypeOK
    <3> QED
      BY <1>7, <3>1, <3>2, <3>3, <3>4
         DEF DisconnectClient, CheckDisconnected, InDisconnect
  <2>6. Drained' => /\ Empty'
                    /\ \A i \in Irps : ~cancelRoutine'[i] /\ irpPc'[i] # "added"
    <3> SUFFICES ASSUME Drained'
                 PROVE  /\ Empty'
                        /\ \A i \in Irps : /\ ~cancelRoutine'[i]
                                           /\ irpPc'[i] # "added"
      OBVIOUS
    <3>1. disc'[d] \notin InDisconnect
      BY DEF Drained
    <3>2. DrainDone(d)
      BY <1>0, <1>7, <3>1
         DEF DisconnectClient, CheckDisconnected, SignalDisconnect,
             BeginClientRundown, ClientRundownDone, DrainNext, InDisconnect,
             Goto, TypeOK
    <3>3. Empty /\ Empty'
      BY <1>0, <3>2 DEF DrainDone, DisconnectInv, Empty
    <3>4. ASSUME NEW i \in Irps PROVE ~cancelRoutine[i]
      <4> SUFFICES ASSUME cancelRoutine[i] PROVE FALSE
        OBVIOUS
      <4>1. i \in ToSet(queue)
        BY DEF IInv, QueueIntegrity, Queued
      <4>2. irpLen[i] \in Nat
        <5>1. irpLen[i] \in Lengths \cup {0}
          BY <1>0 DEF TypeOK
        <5>2. irpLen[i] \in Lengths => irpLen[i] \in Nat
          BY LengthsAssumption
        <5> QED BY <5>1, <5>2
      <4>3. Suitable(i, 0)
        BY <4>2 DEF Suitable
      <4> QED BY <3>2, <4>1, <4>3 DEF DrainDone, NoNextIrp
    <3>5. \A i \in Irps : irpPc[i] # "added"
      BY <3>2, NoneAssumption DEF DrainDone, IInv, LockInv
    <3> QED BY <3>2, <3>3, <3>4, <3>5 DEF DrainDone
  <2>7. \A e \in Disconnectors : /\ disc'[e] \in InDisconnect => broken'
                                 /\ disc'[e] = "wait" => client'.active
                                 /\ disc'[e] = "drain" => Empty'
    BY <2>2, <2>4, <2>5 DEF InDisconnect
  <2>8. DisconnectInv'
    BY <1>4, <2>2, <2>6, <2>7 DEF DisconnectInv
  <2> QED BY <1>5, <2>3, <2>8 DEF DiscInv
<1> QED BY <1>1, <1>6, <1>7 DEF DisconnectClient, SignalDisconnect,
        BeginClientRundown, ClientRundownDone, DrainNext, DrainDone,
        InDisconnect

\* When the close handler runs the client is empty in every respect.
LEMMA CloseFindsNobody ==
    ASSUME IInv, CloseRequest
    PROVE  Drained /\ NobodyInFreed'
<1>0. /\ TypeOK /\ LockInv /\ IrpInv /\ QueueIntegrity /\ DisconnectInv
  BY DEF IInv
<1>1. /\ broken
      /\ disc["release"] \notin
            InDisconnect \cup {"disconnect", "notify", "notifying"}
  BY <1>0 DEF CloseRequest, DisconnectInv, ListLocked
<1>2. Drained
  BY <1>1 DEF Drained, Disconnectors, InDisconnect, CloseRequest
<1>3. Empty /\ \A i \in Irps : ~cancelRoutine[i]
  BY <1>0, <1>2 DEF DisconnectInv
<1>4. \A t \in Threads : pc[t] \notin InSend /\ ~inCallback[t]
  BY <1>3, NobodyInside
<1>5. \A i \in Irps : /\ irpPc[i] \notin {"insert", "locked", "added"}
                      /\ cancelPc[i] \notin {"remove", "complete"}
  BY <1>0 DEF CloseRequest, Outstanding, IrpInv, TypeOK
<1>6. ToSet(queue) = {}
  BY <1>0, <1>3, <1>5 DEF QueueIntegrity, Queued
<1>7. queue = <<>>
  <2>1. queue \in Seq(Irps) /\ DOMAIN queue = 1 .. Len(queue)
    BY <1>0 DEF TypeOK
  <2>2. \A k \in 1 .. Len(queue) : queue[k] \in ToSet(queue)
    BY <2>1 DEF ToSet
  <2>3. Len(queue) = 0
    BY <1>6, <2>1, <2>2
  <2> QED BY <2>1, <2>3
<1>8. queueLock = None
  BY <1>0, <1>5 DEF LockInv, TypeOK
<1>9. UNCHANGED <<queue, queueLock, irpPc, cancelPc, pc, inCallback>>
      /\ disc'["release"] = disc["release"]
  BY <1>0 DEF CloseRequest, Goto, TypeOK, Disconnectors
<1> QED BY <1>1, <1>2, <1>4, <1>5, <1>7, <1>8, <1>9 DEF NobodyInFreed

\* Nor does a step of the two handlers outside NdfCommDisconnectClient.
LEMMA HandlerDisc ==
    ASSUME IInv, HandlerStep
    PROVE  DiscInv'
<1>0. /\ TypeOK /\ OneRundownWaiter /\ DisconnectInv /\ NobodyInFreed
  BY DEF IInv
<1>1. UNCHANGED <<irpVars, queueVars, threadVars, client, broken>>
  BY HandlerFrame
<1>2. \A d \in Disconnectors :
         /\ disc'[d] \in InDisconnect <=> disc[d] \in InDisconnect
         /\ disc'[d] \in InDisconnect => disc'[d] = disc[d]
  BY <1>0
     DEF HandlerStep, Cleanup, Release, StartCleanup, CleanupNotify,
         CleanupNotified, CleanupSkipNotify, CleanupUncount, CloseRequest,
         StartRelease, LibraryRundownDone, LockClientList, ReleaseNotify,
         ReleaseNotified, UnlockClientList, Terminated, vars, Goto, TypeOK,
         InDisconnect, Disconnectors
<1>3. OneRundownWaiter'
  BY <1>0, <1>2 DEF OneRundownWaiter
<1>4. Drained' <=> Drained
  BY <1>1, <1>2 DEF Drained
<1>5. /\ disc'["cleanup"] \in {"notify", "notifying", "told", "cleaned",
                            "closed"} =>
            disc["cleanup"] \in {"notify", "notifying", "told", "cleaned",
                            "closed"}
      /\ disc'["release"] \in {"notify", "notifying"} =>
            disc["release"] \in {"notify", "notifying"}
  BY <1>0
     DEF HandlerStep, Cleanup, Release, StartCleanup, CleanupNotify,
         CleanupNotified, CleanupSkipNotify, CleanupUncount, CloseRequest,
         StartRelease, LibraryRundownDone, LockClientList, ReleaseNotify,
         ReleaseNotified, UnlockClientList, Terminated, vars, Goto, TypeOK,
         Disconnectors
<1>6. CASE CloseRequest
  <2>1. Drained /\ NobodyInFreed'
    BY <1>6, CloseFindsNobody
  <2>2. DisconnectInv'
    BY <1>0, <1>1, <1>2, <1>4, <1>5, <2>1 DEF DisconnectInv, Empty
  <2> QED BY <1>3, <2>1, <2>2 DEF DiscInv
<1>7. CASE ~CloseRequest
  <2>1. Closed' <=> Closed
    BY <1>0, <1>7
       DEF HandlerStep, Cleanup, Release, StartCleanup, CleanupNotify,
           CleanupNotified, CleanupSkipNotify, CleanupUncount, StartRelease,
           LibraryRundownDone, LockClientList, ReleaseNotify,
           ReleaseNotified, UnlockClientList, Terminated, vars, Goto, TypeOK,
           Disconnectors,
           Closed
  <2>2. DisconnectInv'
    <3>1. \A d \in Disconnectors : /\ disc'[d] \in InDisconnect => broken'
                                   /\ disc'[d] = "wait" => client'.active
                                   /\ disc'[d] = "drain" => Empty'
      BY <1>0, <1>1, <1>2 DEF DisconnectInv, Empty, InDisconnect
    <3> QED BY <1>0, <1>1, <1>4, <1>5, <2>1, <3>1 DEF DisconnectInv, Empty
  <2>3. ASSUME Closed
        PROVE  disc'["release"] \notin InDisconnect \cup
                   {"disconnect", "notify", "notifying"}
    BY <1>0, <1>7, <2>3
       DEF HandlerStep, Cleanup, Release, StartCleanup, CleanupNotify,
           CleanupNotified, CleanupSkipNotify, CleanupUncount, StartRelease,
           LibraryRundownDone, LockClientList, ReleaseNotify,
           ReleaseNotified, UnlockClientList, Terminated, vars, Goto, TypeOK,
           Disconnectors,
           Closed, NobodyInFreed, InDisconnect
  <2>4. NobodyInFreed'
    BY <1>0, <1>1, <2>1, <2>3 DEF NobodyInFreed
  <2> QED BY <1>3, <2>2, <2>4 DEF DiscInv
<1> QED BY <1>6, <1>7

-----------------------------------------------------------------------------
(***************************************************************************)
(* The driver's threads on their way into NdfCommSendMessage.              *)
(***************************************************************************)
\* A thread of the driver calls only before the driver is told, and the
\* DisconnectNotify callback outlasts the calls made before it.
LEMMA CalledNext == IInv /\ [Next]_vars => CalledInv'
<1> SUFFICES ASSUME IInv, [Next]_vars PROVE CalledInv'
  OBVIOUS
<1>0. TypeOK /\ ThreadInv /\ CalledInv
  BY DEF IInv
<1>1. ASSUME UNCHANGED <<pc, inCallback, disc, notified>>
      PROVE  CalledInv'
  BY <1>0, <1>1 DEF CalledInv, Notifying, DriverCallsOver
<1>2. ASSUME NEW t \in Threads, ThreadStep(t)
      PROVE  CalledInv'
  <2>1. UNCHANGED <<disc, notified>>
    BY <1>2, ThreadStepFrame
  <2>2. ASSUME notified > 0, DriverCallsOver
        PROVE  DriverCallsOver'
    <3>1. CASE SendCall(t)
      BY <1>0, <2>2, <3>1
         DEF SendCall, MaySend, DriverCallsOver, ThreadInv, TypeOK
    <3>2. CASE CallbackReturn(t)
      BY <1>0, <2>2, <3>2 DEF CallbackReturn, DriverCallsOver, TypeOK
    <3>3. CASE ~SendCall(t) /\ ~CallbackReturn(t)
      <4>1. \A u \in Threads : pc'[u] = "called" => pc[u] = "called"
        <5>1. \/ pc' = pc
              \/ \E l \in {"deliver", "callback", "done", "returned"}
                          \cup InSend : pc' = [pc EXCEPT ![t] = l]
          BY <1>2, <3>3
             DEF ThreadStep, Deliver, SendStart, Wake, Dequeue, SendFinish,
                 UserSend, DeliverEnter, DeliverRefused, DeliverInvalid,
                 SendEnter, SendRefused, WaitDisconnected, WaitSemaphore,
                 WaitTimeout, WaitAlerted, SendDequeue, SendRetry,
                 SendComplete, SendLeave, Returned, InSend
        <5>2. pc \in [Threads -> {"idle", "deliver", "callback", "called",
                                  "returned", "done"} \cup InSend]
          BY <1>0 DEF TypeOK
        <5> QED BY <5>1, <5>2 DEF InSend
      <4>2. \A u \in Threads : inCallback[u] => inCallback'[u]
        <5>1. inCallback \in [Threads -> BOOLEAN]
          BY <1>0 DEF TypeOK
        <5> QED
          BY <1>2, <3>3, <5>1
             DEF ThreadStep, Deliver, SendStart, Wake, Dequeue, SendFinish,
                 UserSend, DeliverEnter, DeliverRefused, DeliverInvalid,
                 SendEnter, SendRefused, WaitDisconnected, WaitSemaphore,
                 WaitTimeout, WaitAlerted, SendDequeue, SendRetry,
                 SendComplete, SendLeave
      <4> QED BY <2>2, <4>1, <4>2 DEF DriverCallsOver
    <3> QED BY <3>1, <3>2, <3>3
  <2> QED BY <1>0, <2>1, <2>2 DEF CalledInv, Notifying
<1>3. ASSUME NEW d \in Disconnectors, DisconnectClient(d)
      PROVE  CalledInv'
  <2>1. UNCHANGED <<pc, inCallback, notified>>
    BY <1>3, DisconnectFrame
  <2>2. disc[d] # "notifying"
    BY <1>3
       DEF DisconnectClient, CheckDisconnected, SignalDisconnect,
           BeginClientRundown, ClientRundownDone, DrainNext, DrainDone
  <2>3. \A e \in Disconnectors : e # d => disc'[e] = disc[e]
    BY <1>0, <1>3
       DEF DisconnectClient, CheckDisconnected, SignalDisconnect,
           BeginClientRundown, ClientRundownDone, DrainNext, DrainDone, Goto,
           TypeOK
  <2>4. Notifying => Notifying'
    BY <2>2, <2>3 DEF Notifying
  <2> QED BY <1>0, <2>1, <2>4 DEF CalledInv, DriverCallsOver
<1>4. CASE HandlerStep
  <2>1. UNCHANGED <<pc, inCallback>>
    BY <1>4, HandlerFrame
  <2>2. CASE CleanupNotify \/ ReleaseNotify
    <3>1. Notifying'
      BY <1>0, <2>2
         DEF CleanupNotify, ReleaseNotify, Goto, Notifying, Disconnectors,
             TypeOK
    <3> QED BY <3>1 DEF CalledInv
  <2>3. CASE CleanupNotified \/ ReleaseNotified
    <3>1. DriverCallsOver'
      BY <2>1, <2>3 DEF CleanupNotified, ReleaseNotified, DriverCallsOver
    <3> QED BY <3>1 DEF CalledInv
  <2>4. CASE ~(\/ CleanupNotify \/ ReleaseNotify \/ CleanupNotified
               \/ ReleaseNotified)
    <3>1. /\ notified' = notified
          /\ Notifying => Notifying'
      BY <1>0, <1>4, <2>4
         DEF HandlerStep, Cleanup, Release, StartCleanup, CleanupSkipNotify,
             CleanupUncount, CloseRequest, StartRelease, LibraryRundownDone,
             LockClientList, UnlockClientList, Terminated, vars, Goto,
             Notifying, Disconnectors, TypeOK
    <3> QED BY <1>0, <2>1, <3>1 DEF CalledInv, DriverCallsOver
  <2> QED BY <2>2, <2>3, <2>4
<1> QED
  BY <1>1, <1>2, <1>3, <1>4, NextSteps, IrpStepFrame DEF vars

-----------------------------------------------------------------------------
(***************************************************************************)
(* The theorems.                                                           *)
(***************************************************************************)
LEMMA Initial == Init => IInv
<1> SUFFICES ASSUME Init PROVE IInv
  OBVIOUS
<1>1. TypeOK /\ RundownInv
  BY TypeInit, RundownInit
<1>2. ThreadInv /\ LockInv /\ IrpInv /\ HeldOnce
  BY NoneAssumption DEF Init, ThreadInv, LockInv, IrpInv, HeldOnce, Taken, InSend
<1>3. QueueIntegrity
  BY DEF Init, QueueIntegrity, Queued, ToSet
<1>4. OneRundownWaiter /\ DisconnectInv /\ NobodyInFreed
  BY DEF Init, OneRundownWaiter, DisconnectInv, NobodyInFreed, Drained,
         Closed, InDisconnect, Disconnectors
<1>5. CalledInv
  BY DEF Init, CalledInv
<1> QED BY <1>1, <1>2, <1>3, <1>4, <1>5 DEF IInv

\* The invariant is inductive.
LEMMA Step == IInv /\ [Next]_vars => IInv'
<1> SUFFICES ASSUME IInv, [Next]_vars PROVE IInv'
  OBVIOUS
<1>1. DiscInv'
  <2>1. CASE UNCHANGED vars
    BY <2>1
       DEF vars, DiscInv, IInv, OneRundownWaiter, DisconnectInv, Drained,
           Closed, Empty, NobodyInFreed
  <2> QED BY <2>1, NextSteps, IrpDisc, ThreadDisc, DisconnectDisc, HandlerDisc
<1> QED
  BY <1>1, TypeNext, RundownNext, ThreadNext, LockNext, PartiesNext,
     QueueNext, CalledNext
     DEF IInv, DiscInv

\* The invariant holds in every reachable state.
THEOREM Invariant == Spec => []IInv
BY Initial, Step, PTL DEF Spec

\* Every variable keeps its type; in particular no release takes a rundown
\* count below zero.
THEOREM TypeCorrect == Spec => []TypeOK
<1>1. IInv => TypeOK
  BY DEF IInv
<1> QED BY <1>1, Invariant, PTL

\* No get-message request is completed twice, whatever races for it.
THEOREM RequestCompletedOnce == Spec => []CompletedOnce
<1>1. IInv => CompletedOnce
  BY DEF IInv, IrpInv, CompletedOnce
<1> QED BY <1>1, Invariant, PTL

\* The list of the queue is never corrupted and loses no request.
THEOREM QueueCorrect == Spec => []QueueIntegrity
<1>1. IInv => QueueIntegrity
  BY DEF IInv
<1> QED BY <1>1, Invariant, PTL

\* A disconnected client leaves no request behind.
THEOREM NobodyStranded == Spec => []NoStrandedIrp
<1>1. ASSUME IInv PROVE NoStrandedIrp
  <2> SUFFICES ASSUME Drained, NEW i \in Irps
               PROVE  \/ irpPc[i] \in {"idle", "insert"}
                      \/ completions[i] > 0
                      \/ cancelPc[i] \in {"remove", "complete"}
    BY DEF NoStrandedIrp
  <2>1. Empty /\ ~cancelRoutine[i] /\ irpPc[i] # "added"
    BY <1>1 DEF IInv, DisconnectInv
  <2>2. irpPc[i] # "locked" /\ ~Taken(i)
    BY <1>1, <2>1, NobodyInside DEF Taken, InSend
  <2> QED BY <1>1, <2>1, <2>2 DEF IInv, IrpInv, TypeOK
<1> QED BY <1>1, Invariant, PTL

\* Only one thread ever waits on the rundown reference of a client.
THEOREM SingleRundownWaiter == Spec => []OneRundownWaiter
<1>1. IInv => OneRundownWaiter
  BY DEF IInv
<1> QED BY <1>1, Invariant, PTL

\* The close handler frees a client that nobody is inside.
THEOREM NobodyLeftInside == Spec => []NobodyInFreed
<1>1. IInv => NobodyInFreed
  BY DEF IInv
<1> QED BY <1>1, Invariant, PTL
=============================================================================
