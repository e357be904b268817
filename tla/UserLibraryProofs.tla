--------------------------- MODULE UserLibraryProofs ---------------------------
(***************************************************************************)
(* The user library for every number of threads and calls and every length *)
(* of name: what threads that initialise the library at the same time may  *)
(* rely on, and what their callers get.                                    *)
(***************************************************************************)
EXTENDS UserLibrary, TLAPS

USE ThreadsAssumption, NameLengthsAssumption, NullAssumption
USE DEF globals, locals

\* Where a thread relies on the pointer that CommunicationpInitNtApi stored.
Resolved == {"flag", "name", "alloc", "open"}
BadNews == {"E_UNEXPECTED", "E_PROC_NOT_FOUND"}

\* What the threads have in common: the outcome of the search is decided by
\* what ntdll exports, so no thread ever undoes what another one has found.
VerdictInv ==
    /\ failed => ~exported
    /\ ~exported => ~initialized /\ \A t \in Threads : pc[t] \notin Resolved
    /\ initialized => ntCreateFile # Null
    /\ \A t \in Threads :
          /\ pc[t] \in Resolved => ntCreateFile # Null
          /\ result[t] \in BadNews => failed

\* A thread and what it has to give back: while it is inside, the handle of
\* the call it is in is not made yet.
Inside(t) ==
    /\ calls[t] \in 1 .. MaxCalls
    /\ connection[t] = "INVALID_HANDLE_VALUE"
    /\ result[t] = "none"
    /\ <<t, calls[t]>> \notin handles
    /\ pc[t] \in {"alloc", "open"} => UserNameFits(nameLength[t])
CallInv ==
    \A t \in Threads :
        /\ eaInfo[t] <=> pc[t] = "open"
        /\ pc[t] # "idle" => Inside(t)
        /\ \A c \in Nat : <<t, c>> \in handles => c =< calls[t]
        /\ pc[t] = "idle" =>
              /\ result[t] = "S_OK" <=> connection[t] = "handle"
              /\ result[t] = "S_OK" <=> <<t, calls[t]>> \in handles

IInv == TypeOK /\ VerdictInv /\ CallInv

-----------------------------------------------------------------------------
\* The initial state.
LEMMA InitInv == Init => IInv
<1> SUFFICES ASSUME Init PROVE IInv
  OBVIOUS
<1>1. exported \in BOOLEAN /\ initialized = FALSE /\ failed = FALSE
  BY Zenon DEF Init
<1>2. TypeOK
  <2>1. /\ ntCreateFile \in {Null, "ntdll!NtCreateFile"}
        /\ pc \in [Threads -> {"idle", "init", "tested", "resolve", "flag",
                               "name", "alloc", "open"}]
        /\ calls \in [Threads -> 0 .. MaxCalls]
        /\ nameLength \in [Threads -> NameLengths \cup {0}]
        /\ connection \in [Threads -> {"untouched", "INVALID_HANDLE_VALUE",
                                       "handle"}]
        /\ result \in [Threads -> Failures \cup {"none", "S_OK"}]
        /\ handles \subseteq Threads \X (1 .. MaxCalls)
    BY DEF Init
  <2>2. eaInfo \in [Threads -> BOOLEAN]
    BY DEF Init
  <2>3. initialized \in BOOLEAN /\ failed \in BOOLEAN
    BY <1>1
  <2> QED BY <1>1, <2>1, <2>2, <2>3, Zenon DEF TypeOK
<1>3. VerdictInv
  BY <1>1 DEF Init, VerdictInv, Resolved, BadNews
<1>4. CallInv
  BY DEF Init, CallInv, Inside
<1> QED BY <1>2, <1>3, <1>4 DEF IInv

\* The types.
LEMMA StepType ==
    ASSUME TypeOK, CallInv, [Next]_vars
    PROVE  TypeOK'
<1> USE DEF TypeOK, Goto, Return, Failures
<1>1. ASSUME NEW t \in Threads, ConnectInvalid(t) PROVE TypeOK'
  BY <1>1 DEF ConnectInvalid
<1>2. ASSUME NEW t \in Threads, NEW n \in NameLengths, Connect(t, n)
      PROVE  TypeOK'
  BY <1>2 DEF Connect
<1>3. ASSUME NEW t \in Threads, InitNtApi(t) PROVE TypeOK'
  <2>1. CASE InitDone(t) \/ InitNotDone(t) \/ InitBegin(t)
    BY <2>1 DEF InitDone, InitNotDone, InitBegin
  <2>2. CASE InitFailedBefore(t)
    BY <2>2 DEF InitFailedBefore
  <2>3. CASE Resolve(t)
    BY <2>3 DEF Resolve
  <2>4. CASE ResolveFails(t)
    BY <2>4 DEF ResolveFails
  <2>5. CASE SetInitialized(t)
    BY <2>5 DEF SetInitialized
  <2> QED BY <1>3, <2>1, <2>2, <2>3, <2>4, <2>5 DEF InitNtApi
<1>4. ASSUME NEW t \in Threads, OpenDevice(t) PROVE TypeOK'
  <2>1. CASE BuildName(t)
    BY <2>1 DEF BuildName
  <2>2. CASE BuildNameFails(t) \/ HeapAllocFails(t)
    BY <2>2 DEF BuildNameFails, HeapAllocFails
  <2>3. CASE HeapAlloc(t)
    BY <2>3 DEF HeapAlloc
  <2>4. CASE Open(t)
    <3>1. calls[t] \in 1 .. MaxCalls
      BY <2>4 DEF Open, CallInv, Inside
    <3> QED BY <2>4, <3>1 DEF Open
  <2>5. CASE OpenFails(t)
    BY <2>5 DEF OpenFails
  <2> QED BY <1>4, <2>1, <2>2, <2>3, <2>4, <2>5 DEF OpenDevice
<1>5. CASE UNCHANGED vars
  BY <1>5 DEF vars
<1> QED BY <1>1, <1>2, <1>3, <1>4, <1>5 DEF Next, Terminated

\* The common part.
LEMMA StepVerdict ==
    ASSUME TypeOK, VerdictInv, CallInv, [Next]_vars
    PROVE  VerdictInv'
<1> USE DEF TypeOK, VerdictInv, Resolved, BadNews, Goto, Return
<1>1. ASSUME NEW t \in Threads, ConnectInvalid(t) PROVE VerdictInv'
  BY <1>1 DEF ConnectInvalid
<1>2. ASSUME NEW t \in Threads, NEW n \in NameLengths, Connect(t, n)
      PROVE  VerdictInv'
  BY <1>2 DEF Connect
<1>3. ASSUME NEW t \in Threads, InitNtApi(t) PROVE VerdictInv'
  <2>1. CASE InitDone(t) \/ InitNotDone(t) \/ InitBegin(t)
    BY <2>1 DEF InitDone, InitNotDone, InitBegin
  <2>2. CASE InitFailedBefore(t)
    BY <2>2 DEF InitFailedBefore
  <2>3. CASE Resolve(t)
    BY <2>3 DEF Resolve
  <2>4. CASE ResolveFails(t)
    BY <2>4 DEF ResolveFails
  <2>5. CASE SetInitialized(t)
    BY <2>5 DEF SetInitialized
  <2> QED BY <1>3, <2>1, <2>2, <2>3, <2>4, <2>5 DEF InitNtApi
<1>4. ASSUME NEW t \in Threads, OpenDevice(t) PROVE VerdictInv'
  <2>1. CASE BuildName(t)
    BY <2>1 DEF BuildName
  <2>2. CASE BuildNameFails(t) \/ HeapAllocFails(t)
    BY <2>2 DEF BuildNameFails, HeapAllocFails
  <2>3. CASE HeapAlloc(t)
    BY <2>3 DEF HeapAlloc
  <2>4. CASE Open(t) \/ OpenFails(t)
    BY <2>4 DEF Open, OpenFails
  <2> QED BY <1>4, <2>1, <2>2, <2>3, <2>4 DEF OpenDevice
<1>5. CASE UNCHANGED vars
  BY <1>5 DEF vars
<1> QED BY <1>1, <1>2, <1>3, <1>4, <1>5 DEF Next, Terminated

\* The part of each thread.
LEMMA StepCall ==
    ASSUME TypeOK, CallInv, [Next]_vars
    PROVE  CallInv'
<1> USE DEF TypeOK, CallInv, Inside, Goto, Return, Failures
<1>1. ASSUME NEW t \in Threads, ConnectInvalid(t) PROVE CallInv'
  BY <1>1 DEF ConnectInvalid
<1>2. ASSUME NEW t \in Threads, NEW n \in NameLengths, Connect(t, n)
      PROVE  CallInv'
  BY <1>2 DEF Connect
<1>3. ASSUME NEW t \in Threads, InitNtApi(t) PROVE CallInv'
  <2>1. CASE InitDone(t) \/ InitNotDone(t) \/ InitBegin(t)
    BY <2>1 DEF InitDone, InitNotDone, InitBegin
  <2>2. CASE InitFailedBefore(t)
    BY <2>2 DEF InitFailedBefore
  <2>3. CASE Resolve(t) \/ SetInitialized(t)
    BY <2>3 DEF Resolve, SetInitialized
  <2>4. CASE ResolveFails(t)
    BY <2>4 DEF ResolveFails
  <2> QED BY <1>3, <2>1, <2>2, <2>3, <2>4 DEF InitNtApi
<1>4. ASSUME NEW t \in Threads, OpenDevice(t) PROVE CallInv'
  <2>1. CASE BuildName(t)
    BY <2>1 DEF BuildName
  <2>2. CASE BuildNameFails(t) \/ HeapAllocFails(t)
    BY <2>2 DEF BuildNameFails, HeapAllocFails
  <2>3. CASE HeapAlloc(t)
    BY <2>3 DEF HeapAlloc
  <2>4. CASE Open(t)
    BY <2>4 DEF Open
  <2>5. CASE OpenFails(t)
    BY <2>5 DEF OpenFails
  <2> QED BY <1>4, <2>1, <2>2, <2>3, <2>4, <2>5 DEF OpenDevice
<1>5. CASE UNCHANGED vars
  BY <1>5 DEF vars
<1> QED BY <1>1, <1>2, <1>3, <1>4, <1>5 DEF Next, Terminated

\* The inductive invariant.
THEOREM UserInvariant == Spec => []IInv
<1>1. Init => IInv
  BY InitInv
<1>2. IInv /\ [Next]_vars => IInv'
  BY StepType, StepVerdict, StepCall DEF IInv
<1> QED BY <1>1, <1>2, PTL DEF Spec

-----------------------------------------------------------------------------
\* The types of the variables.
THEOREM UserTypeCorrect == Spec => []TypeOK
<1>1. IInv => TypeOK
  BY DEF IInv
<1> QED BY <1>1, UserInvariant, PTL

\* Nobody calls NtCreateFile through a null pointer, however many threads
\* connect for the first time at once (NdfCommunicationConnect).
THEOREM NobodyCallsNull == Spec => []NoNullCall
<1>1. IInv => NoNullCall
  BY DEF IInv, VerdictInv, Resolved, NoNullCall
<1> QED BY <1>1, UserInvariant, PTL

\* The native API is never initialised for one thread and failed for another
\* (CommunicationpInitNtApi).
THEOREM VerdictIsOne == Spec => []OneVerdict
<1>1. IInv => OneVerdict
  BY DEF IInv, VerdictInv, Resolved, BadNews, OneVerdict
<1> QED BY <1>1, UserInvariant, PTL

\* A caller of NdfCommunicationConnect has the handle of its call exactly when
\* it was told so, and no buffer is left over.
THEOREM CallerHoldsItsHandle == Spec => []HandleIffSuccess
<1>1. IInv => HandleIffSuccess
  BY DEF IInv, CallInv, HandleIffSuccess
<1> QED BY <1>1, UserInvariant, PTL

\* Every name under which the device is opened is short enough to be the name
\* of a device and of a link that NdfCommInit makes.
THEOREM NameIsPossible == Spec => []OpenedNameExists
<1>1. ASSUME NEW n \in Nat, UserNameFits(n)
      PROVE  DeviceNameFits(n) /\ LinkNameFits(n)
  BY <1>1 DEF UserNameFits, DeviceNameFits, LinkNameFits, LinkPrefix,
              DevicePrefix, MaxNameSize
<1>2. ASSUME IInv, NEW t \in Threads, pc[t] = "open"
      PROVE  nameLength[t] \in Nat /\ UserNameFits(nameLength[t])
  <2>1. nameLength[t] \in Nat
    <3>1. nameLength \in [Threads -> NameLengths \cup {0}]
      BY <1>2, Zenon DEF IInv, TypeOK
    <3>2. NameLengths \cup {0} \subseteq Nat
      BY NameLengthsAssumption
    <3> QED BY <1>2, <3>1, <3>2, Zenon
  <2>2. Inside(t)
    BY <1>2, Zenon DEF IInv, CallInv
  <2> QED BY <1>2, <2>1, <2>2 DEF Inside
<1>3. IInv => OpenedNameExists
  BY <1>1, <1>2 DEF OpenedNameExists
<1> QED BY <1>3, UserInvariant, PTL
=============================================================================
