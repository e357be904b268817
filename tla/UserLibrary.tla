----------------------------- MODULE UserLibrary -----------------------------
(***************************************************************************)
(* The user library, NdfCommUm: threads of one process that connect to the *)
(* driver with NdfCommunicationConnect, and the lazy initialisation they   *)
(* run into, CommunicationpInitNtApi, which takes no lock.  An action ends *)
(* where another thread may see or change the globals.  The globals are    *)
(* plain variables; the processors the library is built for (x86 and x64)  *)
(* show the two stores of an initialisation to others in program order,    *)
(* and so does the model.                                                  *)
(***************************************************************************)
EXTENDS Naturals, FiniteSets, Names

CONSTANTS
    Threads,
    MaxCalls,     \* how often a thread connects
    NameLengths,  \* the possible lengths of DriverName
    Null          \* the null function pointer

ASSUME ThreadsAssumption == IsFiniteSet(Threads) /\ MaxCalls \in Nat \ {0}
ASSUME NameLengthsAssumption == NameLengths \subseteq Nat
ASSUME NullAssumption == Null # "ntdll!NtCreateFile"

VARIABLES
    exported,     \* does GetProcAddress find the function?  It never changes
    initialized,  \* CommunicationpNtApiInitialized
    failed,       \* CommunicationpNtApiInitializationFailed
    ntCreateFile, \* the pointer NtCreateFile
    pc,           \* where a thread is in NdfCommunicationConnect
    calls,        \* how many calls it has begun
    nameLength,   \* of its DriverName
    connection,   \* *Connection
    result,       \* the class of the HRESULT of its last call
    eaInfo,       \* has it an extended attribute allocated?
    handles       \* the handles that NtCreateFile made, by thread and call

globals == <<initialized, failed, ntCreateFile>>
locals == <<calls, nameLength, connection, result, eaInfo>>
vars == <<exported, globals, pc, locals, handles>>

Init ==
    /\ exported \in BOOLEAN
    /\ initialized = FALSE
    /\ failed = FALSE
    /\ ntCreateFile = Null
    /\ pc = [t \in Threads |-> "idle"]
    /\ calls = [t \in Threads |-> 0]
    /\ nameLength = [t \in Threads |-> 0]
    /\ connection = [t \in Threads |-> "untouched"]
    /\ result = [t \in Threads |-> "none"]
    /\ eaInfo = [t \in Threads |-> FALSE]
    /\ handles = {}

-----------------------------------------------------------------------------
Goto(t, label) == pc' = [pc EXCEPT ![t] = label]

\* NdfCommunicationConnect returns.
Return(t, r) ==
    /\ pc' = [pc EXCEPT ![t] = "idle"]
    /\ result' = [result EXCEPT ![t] = r]

\* Arguments that do not fit together, or no place for the handle: nothing is
\* touched.
ConnectInvalid(t) ==
    /\ pc[t] = "idle" /\ calls[t] < MaxCalls
    /\ calls' = [calls EXCEPT ![t] = @ + 1]
    /\ connection' = [connection EXCEPT ![t] = "untouched"]
    /\ Return(t, "E_INVALIDARG")
    /\ UNCHANGED <<exported, globals, nameLength, eaInfo, handles>>

Connect(t, n) ==
    /\ pc[t] = "idle" /\ calls[t] < MaxCalls
    /\ calls' = [calls EXCEPT ![t] = @ + 1]
    /\ nameLength' = [nameLength EXCEPT ![t] = n]
    /\ connection' = [connection EXCEPT ![t] = "INVALID_HANDLE_VALUE"]
    /\ result' = [result EXCEPT ![t] = "none"]
    /\ Goto(t, "init")
    /\ UNCHANGED <<exported, globals, eaInfo, handles>>

-----------------------------------------------------------------------------
(***************************************************************************)
(* CommunicationpInitNtApi.                                                *)
(***************************************************************************)
InitDone(t) ==
    /\ pc[t] = "init" /\ initialized
    /\ Goto(t, "name")
    /\ UNCHANGED <<exported, globals, locals, handles>>

\* The first flag is read before the second.
InitNotDone(t) ==
    /\ pc[t] = "init" /\ ~initialized
    /\ Goto(t, "tested")
    /\ UNCHANGED <<exported, globals, locals, handles>>

InitFailedBefore(t) ==
    /\ pc[t] = "tested" /\ failed
    /\ Return(t, "E_UNEXPECTED")
    /\ UNCHANGED <<exported, globals, calls, nameLength, connection, eaInfo,
                   handles>>

\* FAULT: the flag is set before the function is looked for.
InitBeginFlagged(t) ==
    /\ pc[t] = "tested" /\ ~failed
    /\ initialized' = TRUE
    /\ Goto(t, "resolve")
    /\ UNCHANGED <<exported, failed, ntCreateFile, locals, handles>>

\* The assertion that NtCreateFile is null is left out of the release build.
InitBegin(t) ==
    /\ pc[t] = "tested" /\ ~failed
    /\ Goto(t, "resolve")
    /\ UNCHANGED <<exported, globals, locals, handles>>

\* GetModuleHandle and GetProcAddress; the result is stored as it comes.
Resolve(t) ==
    /\ pc[t] = "resolve" /\ exported
    /\ ntCreateFile' = "ntdll!NtCreateFile"
    /\ Goto(t, "flag")
    /\ UNCHANGED <<exported, initialized, failed, locals, handles>>

\* FAULT: the failure counts as an initialisation.
ResolveFailsDone(t) ==
    /\ pc[t] = "resolve" /\ ~exported
    /\ ntCreateFile' = Null
    /\ initialized' = TRUE
    /\ Return(t, "E_PROC_NOT_FOUND")
    /\ UNCHANGED <<exported, failed, calls, nameLength, connection, eaInfo,
                   handles>>

ResolveFails(t) ==
    /\ pc[t] = "resolve" /\ ~exported
    /\ ntCreateFile' = Null
    /\ failed' = TRUE
    /\ Return(t, "E_PROC_NOT_FOUND")
    /\ UNCHANGED <<exported, initialized, calls, nameLength, connection,
                   eaInfo, handles>>

SetInitialized(t) ==
    /\ pc[t] = "flag"
    /\ initialized' = TRUE
    /\ Goto(t, "name")
    /\ UNCHANGED <<exported, failed, ntCreateFile, locals, handles>>

-----------------------------------------------------------------------------
(***************************************************************************)
(* The rest of NdfCommunicationConnect.                                    *)
(***************************************************************************)
BuildName(t) ==
    /\ pc[t] = "name" /\ UserNameFits(nameLength[t])
    /\ Goto(t, "alloc")
    /\ UNCHANGED <<exported, globals, locals, handles>>

BuildNameFails(t) ==
    /\ pc[t] = "name" /\ ~UserNameFits(nameLength[t])
    /\ Return(t, "E_BUFFER")
    /\ UNCHANGED <<exported, globals, calls, nameLength, connection, eaInfo,
                   handles>>

HeapAlloc(t) ==
    /\ pc[t] = "alloc"
    /\ eaInfo' = [eaInfo EXCEPT ![t] = TRUE]
    /\ Goto(t, "open")
    /\ UNCHANGED <<exported, globals, calls, nameLength, connection, result,
                   handles>>

HeapAllocFails(t) ==
    /\ pc[t] = "alloc"
    /\ Return(t, "E_OUTOFMEMORY")
    /\ UNCHANGED <<exported, globals, calls, nameLength, connection, eaInfo,
                   handles>>

\* FAULT: the variable that is returned was never assigned.
OpenUnassigned(t) ==
    /\ pc[t] = "open"
    /\ connection' = [connection EXCEPT ![t] = "handle"]
    /\ handles' = handles \cup {<<t, calls[t]>>}
    /\ eaInfo' = [eaInfo EXCEPT ![t] = FALSE]
    /\ Return(t, "unassigned")
    /\ UNCHANGED <<exported, globals, calls, nameLength>>

\* The call through the pointer; the kernel answers with a handle ...
Open(t) ==
    /\ pc[t] = "open"
    /\ connection' = [connection EXCEPT ![t] = "handle"]
    /\ handles' = handles \cup {<<t, calls[t]>>}
    /\ eaInfo' = [eaInfo EXCEPT ![t] = FALSE]
    /\ Return(t, "S_OK")
    /\ UNCHANGED <<exported, globals, calls, nameLength>>

\* FAULT: the status is not looked at.
OpenFailureIgnored(t) ==
    /\ pc[t] = "open"
    /\ eaInfo' = [eaInfo EXCEPT ![t] = FALSE]
    /\ Return(t, "S_OK")
    /\ UNCHANGED <<exported, globals, calls, nameLength, connection, handles>>

\* ... or with an error, which leaves *Connection alone.
OpenFails(t) ==
    /\ pc[t] = "open"
    /\ eaInfo' = [eaInfo EXCEPT ![t] = FALSE]
    /\ Return(t, "E_NT")
    /\ UNCHANGED <<exported, globals, calls, nameLength, connection, handles>>

-----------------------------------------------------------------------------
InitNtApi(t) ==
    InitDone(t) \/ InitNotDone(t) \/ InitFailedBefore(t) \/ InitBegin(t)
        \/ Resolve(t) \/ ResolveFails(t) \/ SetInitialized(t)
OpenDevice(t) ==
    BuildName(t) \/ BuildNameFails(t) \/ HeapAlloc(t) \/ HeapAllocFails(t)
        \/ Open(t) \/ OpenFails(t)

Terminated ==
    /\ \A t \in Threads : pc[t] = "idle"
    /\ UNCHANGED vars

Next ==
    \/ \E t \in Threads :
          \/ ConnectInvalid(t) \/ \E n \in NameLengths : Connect(t, n)
          \/ InitNtApi(t) \/ OpenDevice(t)
    \/ Terminated

Spec == Init /\ [][Next]_vars

-----------------------------------------------------------------------------
Failures == {"E_INVALIDARG", "E_UNEXPECTED", "E_PROC_NOT_FOUND", "E_BUFFER",
             "E_OUTOFMEMORY", "E_NT"}

\* The types of the variables.
TypeOK ==
    /\ exported \in BOOLEAN /\ initialized \in BOOLEAN /\ failed \in BOOLEAN
    /\ ntCreateFile \in {Null, "ntdll!NtCreateFile"}
    /\ pc \in [Threads -> {"idle", "init", "tested", "resolve", "flag", "name",
                           "alloc", "open"}]
    /\ calls \in [Threads -> 0 .. MaxCalls]
    /\ nameLength \in [Threads -> NameLengths \cup {0}]
    /\ connection \in [Threads -> {"untouched", "INVALID_HANDLE_VALUE",
                                   "handle"}]
    /\ result \in [Threads -> Failures \cup {"none", "S_OK"}]
    /\ eaInfo \in [Threads -> BOOLEAN]
    /\ handles \subseteq Threads \X (1 .. MaxCalls)

\* However many threads initialise at once, and whoever stores last, nobody
\* calls through a null pointer.
NoNullCall == \A t \in Threads : pc[t] = "open" => ntCreateFile # Null

\* All threads get the same verdict on the native API: it never counts as
\* initialised for one and as failed for another, and a thread that was told
\* that it failed is told so again.
OneVerdict ==
    /\ ~(initialized /\ failed)
    /\ \A t \in Threads :
          result[t] \in {"E_UNEXPECTED", "E_PROC_NOT_FOUND"} =>
              /\ failed
              /\ \A u \in Threads : pc[u] \notin {"name", "alloc", "open"}

\* A call that succeeds has given its caller the handle that was opened in
\* that call; after one that fails the caller holds none, none is leaked, and
\* no buffer is either.
HandleIffSuccess ==
    \A t \in Threads :
        pc[t] = "idle" =>
            /\ ~eaInfo[t]
            /\ result[t] = "S_OK" <=> connection[t] = "handle"
            /\ result[t] = "S_OK" <=> <<t, calls[t]>> \in handles

\* The name under which the user library opens the device is one that the
\* driver can have created: whatever passes the check here passes both checks
\* of NdfCommInit.
OpenedNameExists ==
    \A t \in Threads :
        pc[t] = "open" => /\ DeviceNameFits(nameLength[t])
                          /\ LinkNameFits(nameLength[t])
=============================================================================
