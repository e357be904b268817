----------------------------- MODULE LegacyDriver -----------------------------
(***************************************************************************)
(* How a driver loads and unloads the library: LegacyDrv's DriverEntry and *)
(* DriverUnload with the NdfCommInit and the NdfCommRelease they call, seen *)
(* as what they create and delete (device objects, symbolic links, the     *)
(* buffer of the link's name), and the dispatch table that NdfCommInit      *)
(* hooks while requests for the driver's own device already arrive.        *)
(* The clients are the business of NdfCommLibrary.                         *)
(***************************************************************************)
EXTENDS Integers, Sequences, FiniteSets, SequencesExt, UnicodeStrings,
        Names

CONSTANTS
    Requests,     \* requests for the driver's own device, each sent once
    NameLengths   \* the possible lengths of the DriverName parameter

ASSUME RequestsAssumption == IsFiniteSet(Requests)
ASSUME NameLengthsAssumption == NameLengths \subseteq Nat

VARIABLES
    pc,          \* progress of DriverEntry and DriverUnload
    nameLength,  \* length of DriverName
    devices,     \* the list DriverObject->DeviceObject, newest first
    links,       \* the symbolic links
    linkName,    \* NdfCommGlobals.SymbolicLinkName
    message,     \* is NdfCommGlobals.MessageDeviceObject set?
    ready,       \* is DO_DEVICE_INITIALIZING of the driver's device cleared?
    major,       \* DriverObject->MajorFunction
    original,    \* the Original...Dispatch fields of NdfCommGlobals
    reqPc,       \* where a request is: its handler, or how it was handled
    reqMajor     \* its major function

resources == <<devices, links, linkName, message>>
table == <<major, original>>
requests == <<reqPc, reqMajor>>
vars == <<pc, nameLength, resources, ready, table, requests>>

\* The hooked functions in the order in which they are hooked.
Hooked == <<"create", "cleanup", "close", "control">>
MajorFunctions == ToSet(Hooked)

Init ==
    /\ pc = "device"
    /\ nameLength \in NameLengths
    /\ devices = <<>>
    /\ links = {}
    /\ linkName = EmptyString
    /\ message = FALSE
    /\ ready = FALSE
    /\ major = [m \in MajorFunctions |-> "none"]
    /\ original = [m \in MajorFunctions |-> "none"]
    /\ reqPc = [r \in Requests |-> "idle"]
    /\ reqMajor = [r \in Requests |-> "create"]

-----------------------------------------------------------------------------
(***************************************************************************)
(* DriverEntry.  Every call that creates something may fail.               *)
(***************************************************************************)
IoCreateDevice ==
    /\ pc = "device"
    /\ devices' = <<"driver">> \o devices
    /\ pc' = "dispatch"
    /\ UNCHANGED <<nameLength, links, linkName, message, ready, table,
                   requests>>

\* The dispatch table is filled before the flag lets requests in.
SetDispatch ==
    /\ pc = "dispatch"
    /\ major' = [m \in MajorFunctions |-> "driver"]
    /\ ready' = TRUE
    /\ pc' = "link"
    /\ UNCHANGED <<nameLength, resources, original, requests>>

IoCreateSymbolicLink ==
    /\ pc = "link"
    /\ links' = links \cup {"driver"}
    /\ pc' = "init"
    /\ UNCHANGED <<nameLength, devices, linkName, message, ready, table,
                   requests>>

EntryDeviceFails ==
    /\ pc = "device"
    /\ pc' = "failed"
    /\ UNCHANGED <<nameLength, resources, ready, table, requests>>

EntryLinkFails ==
    /\ pc = "link"
    /\ devices' = RemoveFirst(devices, "driver")
    /\ pc' = "failed"
    /\ UNCHANGED <<nameLength, links, linkName, message, ready, table,
                   requests>>

\* NdfCommInit has failed: the driver deletes what is its own.
InitFailed ==
    /\ pc = "initfailed"
    /\ links' = links \ {"driver"}
    /\ devices' = RemoveFirst(devices, "driver")
    /\ pc' = "failed"
    /\ UNCHANGED <<nameLength, linkName, message, ready, table, requests>>

-----------------------------------------------------------------------------
(***************************************************************************)
(* NdfCommInit.                                                            *)
(***************************************************************************)
\* The device name is formatted and the message device created, or not.
InitDevice ==
    /\ pc = "init" /\ DeviceNameFits(nameLength)
    /\ devices' = <<"message">> \o devices
    /\ message' = TRUE
    /\ pc' = "alloc"
    /\ UNCHANGED <<nameLength, links, linkName, ready, table, requests>>

InitDeviceFails ==
    /\ pc = "init"
    /\ pc' = "initfailed"
    /\ UNCHANGED <<nameLength, resources, ready, table, requests>>

AllocLinkName(memory) ==
    NdfCommUnicodeStringAlloc(linkName, 2 * MaxNameSize, memory)
InitAlloc ==
    /\ pc = "alloc"
    /\ linkName' = AllocLinkName(TRUE).string
    /\ pc' = "print"
    /\ UNCHANGED <<nameLength, devices, links, message, ready, table, requests>>

\* The message device is not deleted on this path ...
InitAllocFails ==
    /\ pc = "alloc"
    /\ linkName' = AllocLinkName(FALSE).string
    /\ pc' = "initfailed"
    /\ UNCHANGED <<nameLength, devices, links, message, ready, table, requests>>

\* ... nor on this one, where the name of the link does not fit; ...
InitNameFails ==
    /\ pc = "print" /\ ~LinkNameFits(nameLength)
    /\ linkName' = NdfCommUnicodeStringFree(linkName)
    /\ pc' = "initfailed"
    /\ UNCHANGED <<nameLength, devices, links, message, ready, table, requests>>

InitLink ==
    /\ pc = "print" /\ LinkNameFits(nameLength)
    /\ linkName' = [linkName EXCEPT !.length = 2 * (LinkPrefix + nameLength)]
    /\ links' = links \cup {"message"}
    /\ pc' = "save"
    /\ UNCHANGED <<nameLength, devices, message, ready, table, requests>>

\* ... it is when IoCreateSymbolicLink fails.
InitLinkFails ==
    /\ pc = "print" /\ LinkNameFits(nameLength)
    /\ devices' = RemoveFirst(devices, "message")
    /\ message' = FALSE
    /\ linkName' = NdfCommUnicodeStringFree(linkName)
    /\ pc' = "initfailed"
    /\ UNCHANGED <<nameLength, links, ready, table, requests>>

\* FAULT: the handlers are saved after the first function is hooked.
SaveLate ==
    /\ pc = "save"
    /\ major' = [major EXCEPT !["create"] = "library"]
    /\ original' = major'
    /\ pc' = "hook"
    /\ UNCHANGED <<nameLength, resources, ready, requests>>

\* The handlers of the driver are saved ...
SaveOriginals ==
    /\ pc = "save"
    /\ original' = major
    /\ pc' = "hook"
    /\ UNCHANGED <<nameLength, resources, ready, major, requests>>

\* ... and replaced, one function after the other.
HookNext(k) ==
    /\ pc = "hook"
    /\ major[Hooked[k]] # "library"
    /\ \A j \in 1..(k - 1) : major[Hooked[j]] = "library"
    /\ major' = [major EXCEPT ![Hooked[k]] = "library"]
    /\ pc' = IF k = Len(Hooked) THEN "loaded" ELSE "hook"
    /\ UNCHANGED <<nameLength, resources, ready, original, requests>>

-----------------------------------------------------------------------------
(***************************************************************************)
(* Requests for the driver's own device, from the moment it takes them.    *)
(***************************************************************************)
SendRequest(r, m) ==
    /\ reqPc[r] = "idle" /\ ready /\ "driver" \in ToSet(devices)
    /\ reqMajor' = [reqMajor EXCEPT ![r] = m]
    /\ reqPc' = [reqPc EXCEPT ![r] = "sent"]
    /\ UNCHANGED <<pc, nameLength, resources, ready, table>>

\* IoCallDriver reads the dispatch table; DriverDispatch completes a request.
Call(r) ==
    /\ reqPc[r] = "sent"
    /\ reqPc' = [reqPc EXCEPT ![r] = IF major[reqMajor[r]] = "library"
                                     THEN "hooked" ELSE major[reqMajor[r]]]
    /\ UNCHANGED <<pc, nameLength, resources, ready, table, reqMajor>>

\* NdfCommpDispatch: the device is not the message device, so the request is
\* passed to the saved handler.
Forward(r) ==
    /\ reqPc[r] = "hooked"
    /\ reqPc' = [reqPc EXCEPT ![r] = original[reqMajor[r]]]
    /\ UNCHANGED <<pc, nameLength, resources, ready, table, reqMajor>>

-----------------------------------------------------------------------------
(***************************************************************************)
(* DriverUnload, called when the driver has no open file and no request.   *)
(***************************************************************************)
\* FAULT: the message device is not deleted.
ReleaseKeepsDevice ==
    /\ pc = "loaded"
    /\ \A r \in Requests : reqPc[r] \notin {"sent", "hooked"}
    /\ links' = links \ {"message"}
    /\ linkName' = NdfCommUnicodeStringFree(linkName)
    /\ pc' = "unload"
    /\ UNCHANGED <<nameLength, devices, message, ready, table, requests>>

\* NdfCommRelease; MessageDeviceObject keeps its value.
NdfCommRelease ==
    /\ pc = "loaded"
    /\ \A r \in Requests : reqPc[r] \notin {"sent", "hooked"}
    /\ IF linkName.length > 0
       THEN /\ links' = links \ {"message"}
            /\ linkName' = NdfCommUnicodeStringFree(linkName)
       ELSE UNCHANGED <<links, linkName>>
    /\ devices' = IF message THEN RemoveFirst(devices, "message") ELSE devices
    /\ pc' = "unload"
    /\ UNCHANGED <<nameLength, message, ready, table, requests>>

\* The driver deletes its link, and whatever device is first in its list.
DriverUnload ==
    /\ pc = "unload"
    /\ links' = links \ {"driver"}
    /\ devices' = Tail(devices)
    /\ pc' = "unloaded"
    /\ UNCHANGED <<nameLength, linkName, message, ready, table, requests>>

-----------------------------------------------------------------------------
Entry ==
    IoCreateDevice \/ EntryDeviceFails \/ SetDispatch \/ IoCreateSymbolicLink
        \/ EntryLinkFails \/ InitFailed
NdfCommInit ==
    InitDevice \/ InitDeviceFails \/ InitAlloc \/ InitAllocFails
        \/ InitNameFails \/ InitLink \/ InitLinkFails \/ SaveOriginals
        \/ \E k \in DOMAIN Hooked : HookNext(k)
Request(r) ==
    Call(r) \/ Forward(r) \/ \E m \in MajorFunctions : SendRequest(r, m)

\* The driver is gone, or was never loaded.
Terminated ==
    /\ pc \in {"unloaded", "failed"}
    /\ \A r \in Requests : reqPc[r] \notin {"sent", "hooked"}
    /\ UNCHANGED vars

Next ==
    \/ Entry \/ NdfCommInit \/ NdfCommRelease \/ DriverUnload
    \/ \E r \in Requests : Request(r)
    \/ Terminated

Spec == Init /\ [][Next]_vars

-----------------------------------------------------------------------------
\* The types of the variables.
Handlers == {"none", "driver", "library"}
TypeOK ==
    /\ pc \in {"device", "dispatch", "link", "init", "alloc", "print", "save",
               "hook", "loaded", "initfailed", "failed", "unload", "unloaded"}
    /\ nameLength \in NameLengths
    /\ devices \in Seq({"driver", "message"})
    /\ links \subseteq {"driver", "message"}
    /\ WellFormed(linkName)
    /\ message \in BOOLEAN
    /\ ready \in BOOLEAN
    /\ major \in [MajorFunctions -> Handlers]
    /\ original \in [MajorFunctions -> Handlers \ {"library"}]
    /\ reqPc \in [Requests -> {"idle", "sent", "hooked"} \cup Handlers]
    /\ reqMajor \in [Requests -> MajorFunctions]

\* A request for the driver's own device ends in the driver's own handler,
\* whenever it arrives while the functions are being hooked: never in an empty
\* pointer of the dispatch table or of the saved handlers, never back in the
\* library.
OriginalReached == \A r \in Requests : reqPc[r] \notin {"none", "library"}

\* When the driver is unloaded nothing of it is left: DriverUnload, which
\* deletes the first device of the list, must not meet the message device.  A
\* load that fails, at whatever step, leaves no symbolic link and no buffer
\* behind, and nothing of the driver's own.
EndsClean ==
    /\ pc \in {"unloaded", "failed"} => links = {} /\ ~linkName.buffer
    /\ pc = "unloaded" => devices = <<>>
    /\ pc = "failed" => "driver" \notin ToSet(devices)

\* A failed load leaves no device behind, as the path of NdfCommInit that
\* deletes it means to ensure.
FailureKeepsNoDevice == pc = "failed" => devices = <<>>
=============================================================================
