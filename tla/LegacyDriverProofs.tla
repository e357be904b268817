-------------------------- MODULE LegacyDriverProofs --------------------------
(***************************************************************************)
(* Loading and unloading for every set of requests, every length of the    *)
(* DriverName and every length of an assigned string.                      *)
(***************************************************************************)
EXTENDS LegacyDriver, SharedLemmas, TLAPS

USE RequestsAssumption, NameLengthsAssumption
USE DEF resources, table, requests

-----------------------------------------------------------------------------
(***************************************************************************)
(* The strings.                                                            *)
(***************************************************************************)
\* The numbers.
LEMMA StringSizes == UShortMax \in Nat /\ NullSize = 2
BY SMT DEF UShortMax, NullSize

\* Allocating for an empty string, and freeing.
LEMMA EmptyIsFormed ==
    /\ WellFormed(EmptyString)
    /\ Valid(EmptyString)
    /\ EmptyString.buffer = FALSE /\ EmptyString.length = 0
BY StringSizes DEF WellFormed, Valid, EmptyString, UnicodeString, UShort

\* NdfCommUnicodeStringFree leaves an empty string of any string.
LEMMA FreeEmpties ==
    ASSUME NEW s, WellFormed(s)
    PROVE  NdfCommUnicodeStringFree(s) = EmptyString
BY DEF WellFormed, NdfCommUnicodeStringFree

\* NdfCommUnicodeStringAlloc on an empty string.
LEMMA AllocFromEmpty ==
    ASSUME NEW n \in UShort, NEW memory \in BOOLEAN
    PROVE  LET a == NdfCommUnicodeStringAlloc(EmptyString, n, memory)
           IN  /\ a.status \in {"success", "nomemory"}
               /\ a.status = "success" =>
                     a.string = [buffer |-> TRUE, length |-> 0, maximum |-> n]
               /\ a.status = "nomemory" => a.string = EmptyString
<1>1. CASE memory = TRUE
  BY <1>1, EmptyIsFormed DEF NdfCommUnicodeStringAlloc, Result
<1>2. CASE memory = FALSE
  BY <1>2, EmptyIsFormed DEF NdfCommUnicodeStringAlloc, Result
<1> QED BY <1>1, <1>2

\* A change of the length alone.
LEMMA NewLength ==
    ASSUME NEW s \in UnicodeString, NEW n \in UShort
    PROVE  LET u == [s EXCEPT !.length = n]
           IN  /\ u \in UnicodeString
               /\ u.buffer = s.buffer /\ u.length = n /\ u.maximum = s.maximum
BY DEF UnicodeString

\* Assigning to any string of the library: room for the text and its null, or
\* the string is as it was, or empty.
THEOREM AssignKeepsFormed ==
    ASSUME NEW s, WellFormed(s), NEW n \in UShort, NEW memory \in BOOLEAN
    PROVE  LET a == NdfCommUnicodeStringAssignUnicodeString(s, n, memory)
           IN  IF a.status = "success"
               THEN /\ WellFormed(a.string)
                    /\ a.string.length = n
                    /\ n + NullSize =< a.string.maximum
               ELSE a.string \in {s, EmptyString}
<1> DEFINE a == NdfCommUnicodeStringAssignUnicodeString(s, n, memory)
           b == NdfCommUnicodeStringAlloc(EmptyString, n + NullSize, memory)
<1> USE StringSizes
<1>1. CASE n + NullSize > UShortMax
  BY <1>1 DEF NdfCommUnicodeStringAssignUnicodeString, Result
<1>2. CASE ~(n + NullSize > UShortMax) /\ n + NullSize =< s.maximum
  <2> DEFINE v == [s EXCEPT !.length = n]
  <2>1. a = Result(v, "success")
    BY <1>2 DEF NdfCommUnicodeStringAssignUnicodeString
  <2>2. s \in UnicodeString /\ s # EmptyString
    BY <1>2 DEF WellFormed, EmptyString, UShort
  <2>3. s.buffer
    BY <2>2 DEF WellFormed
  <2>4. /\ v \in UnicodeString /\ v.buffer = s.buffer
        /\ v.length = n /\ v.maximum = s.maximum
    BY <2>2, NewLength
  <2> HIDE DEF v
  <2>5. s.maximum \in Nat
    BY <2>2 DEF UnicodeString, UShort
  <2>6. v.length =< v.maximum /\ n + NullSize =< v.maximum
    BY <1>2, <2>4, <2>5 DEF UShort
  <2>7. WellFormed(v)
    BY <2>3, <2>4, <2>6 DEF WellFormed
  <2> QED BY <2>1, <2>4, <2>6, <2>7 DEF Result
<1>3. CASE ~(n + NullSize > UShortMax) /\ ~(n + NullSize =< s.maximum)
  <2>1. n + NullSize \in UShort
    BY <1>3 DEF UShort
  <2>2. a = IF b.status = "success"
            THEN Result([b.string EXCEPT !.length = n], "success") ELSE b
    BY <1>3, FreeEmpties DEF NdfCommUnicodeStringAssignUnicodeString
  <2>3. /\ b.status \in {"success", "nomemory"}
        /\ b.status = "success" =>
              b.string = [buffer |-> TRUE, length |-> 0,
                          maximum |-> n + NullSize]
        /\ b.status = "nomemory" => b.string = EmptyString
    BY <2>1, AllocFromEmpty
  <2> HIDE DEF b
  <2>5. CASE b.status = "success"
    <3> DEFINE c == [buffer |-> TRUE, length |-> 0, maximum |-> n + NullSize]
    <3>1. b.string = c
      BY <2>3, <2>5
    <3>2. /\ c \in UnicodeString /\ c.buffer = TRUE
          /\ c.maximum = n + NullSize
      BY <2>1 DEF UnicodeString, UShort
    <3> HIDE DEF c
    <3> DEFINE v == [c EXCEPT !.length = n]
    <3>3. a = Result(v, "success")
      BY <2>2, <2>5, <3>1
    <3>4. /\ v \in UnicodeString /\ v.buffer = TRUE
          /\ v.length = n /\ v.maximum = n + NullSize
      BY <3>2, NewLength
    <3> HIDE DEF v
    <3>5. WellFormed(v) /\ n + NullSize =< v.maximum
      BY <3>4 DEF WellFormed, UShort
    <3> QED BY <3>3, <3>4, <3>5 DEF Result
  <2>6. CASE b.status = "nomemory"
    BY <2>2, <2>3, <2>6
  <2> QED BY <2>3, <2>5, <2>6
<1> QED BY <1>1, <1>2, <1>3

-----------------------------------------------------------------------------
(***************************************************************************)
(* The devices, links and strings that are there at each step of loading   *)
(* and unloading.                                                          *)
(***************************************************************************)
OwnDevice == <<"driver">>
BothDevices == <<"message", "driver">>

\* What is there when DriverEntry or DriverUnload is at a step.
ResourceInv ==
    /\ pc = "device" =>
           devices = <<>> /\ links = {} /\ linkName = EmptyString /\ ~message
    /\ pc \in {"dispatch", "link"} =>
           /\ devices = OwnDevice /\ links = {}
           /\ linkName = EmptyString /\ ~message
    /\ pc = "init" =>
           /\ devices = OwnDevice /\ links = {"driver"}
           /\ linkName = EmptyString /\ ~message
    /\ pc = "alloc" =>
           /\ devices = BothDevices /\ links = {"driver"}
           /\ linkName = EmptyString /\ message
    /\ pc = "print" =>
           /\ devices = BothDevices /\ links = {"driver"} /\ message
           /\ linkName \in UnicodeString /\ linkName.buffer = TRUE
           /\ linkName.maximum = 2 * MaxNameSize
    /\ pc \in {"save", "hook", "loaded"} =>
           /\ devices = BothDevices /\ links = {"driver", "message"}
           /\ linkName.length > 0 /\ message
    /\ pc = "initfailed" =>
           /\ devices \in {OwnDevice, BothDevices} /\ links = {"driver"}
           /\ linkName = EmptyString
    /\ pc = "failed" =>
           /\ devices \in {<<>>, <<"message">>} /\ links = {}
           /\ linkName = EmptyString
    /\ pc = "unload" =>
           devices = OwnDevice /\ links = {"driver"} /\ linkName = EmptyString
    /\ pc = "unloaded" =>
           devices = <<>> /\ links = {} /\ linkName = EmptyString

\* The handlers are saved before the first function is hooked, and the driver
\* fills its table before it takes requests.
Saved == \A m \in MajorFunctions : original[m] = "driver"
TableInv ==
    /\ pc \in {"link", "init", "alloc", "print", "save"} =>
           \A m \in MajorFunctions : major[m] = "driver"
    /\ pc = "hook" => Saved
    /\ ready => \A m \in MajorFunctions : major[m] \in {"driver", "library"}
    /\ pc \in {"device", "dispatch"} => ~ready
    /\ \A m \in MajorFunctions : major[m] = "library" => Saved
    /\ \A r \in Requests :
          /\ reqPc[r] \in {"idle", "sent", "hooked", "driver"}
          /\ reqPc[r] # "idle" => ready
          /\ reqPc[r] = "hooked" => Saved

IInv == TypeOK /\ ResourceInv /\ TableInv

\* The first occurrence is the only one.
LEMMA OnlyOne ==
    ASSUME NEW S, NEW s \in Seq(S), NEW e, NEW k \in 1 .. Len(s), s[k] = e,
           \A j \in 1 .. Len(s) : s[j] = e => j = k
    PROVE  RemoveFirst(s, e) = RemoveAt(s, k)
<1>1. {j \in 1 .. Len(s) : s[j] = e} = {k}
  OBVIOUS
<1>2. Min({k}) = k
  BY DEF Min
<1>3. SelectInSeq(s, LAMBDA v : v = e) = k
  BY <1>1, <1>2 DEF SelectInSeq
<1> QED BY <1>3 DEF RemoveFirst

\* IoDeleteDevice on the lists that occur.
LEMMA DeviceLists ==
    /\ RemoveFirst(OwnDevice, "driver") = <<>>
    /\ RemoveFirst(BothDevices, "driver") = <<"message">>
    /\ RemoveFirst(BothDevices, "message") = OwnDevice
    /\ Tail(OwnDevice) = <<>>
    /\ <<"driver">> \o <<>> = OwnDevice
    /\ <<"message">> \o OwnDevice = BothDevices
<1> DEFINE D == {"driver", "message"}
           M == <<"message">>
<1>1. OwnDevice \in Seq(D) /\ Len(OwnDevice) = 1 /\ OwnDevice[1] = "driver"
  BY DEF OwnDevice
<1>2. /\ BothDevices \in Seq(D) /\ Len(BothDevices) = 2
      /\ BothDevices[1] = "message" /\ BothDevices[2] = "driver"
  BY DEF BothDevices
<1>3. M \in Seq(D) /\ Len(M) = 1 /\ M[1] = "message"
  OBVIOUS
<1>4. /\ Tail(OwnDevice) = <<>>
      /\ <<"driver">> \o <<>> = OwnDevice
      /\ <<"message">> \o OwnDevice = BothDevices
  <2>1. Tail(OwnDevice) = <<>>
    BY DEF OwnDevice
  <2>2. <<"driver">> \o <<>> = OwnDevice
    BY <1>1, ConcatEmptySeq DEF OwnDevice
  <2> DEFINE c == M \o OwnDevice
  <2>3. /\ c \in Seq(D) /\ Len(c) = Len(M) + Len(OwnDevice)
        /\ \A k \in 1 .. Len(M) + Len(OwnDevice) :
              c[k] = IF k =< Len(M) THEN M[k] ELSE OwnDevice[k - Len(M)]
    BY <1>1, <1>3, ConcatProperties, Zenon
  <2> HIDE DEF c, M, D
  <2>4. c[1] = "message" /\ c[2] = "driver" /\ Len(c) = 2
    BY <1>1, <1>3, <2>3
  <2>5. \A k \in 1 .. Len(c) : c[k] = BothDevices[k]
    BY <1>2, <2>4
  <2>6. c = BothDevices
    BY <1>2, <2>3, <2>4, <2>5, SeqEqual, Zenon
  <2> QED BY <2>1, <2>2, <2>6 DEF c, M
<1> HIDE DEF D, M
<1>5. RemoveFirst(OwnDevice, "driver") = <<>>
  <2>1. RemoveFirst(OwnDevice, "driver") = RemoveAt(OwnDevice, 1)
    <3>1. /\ 1 \in 1 .. Len(OwnDevice) /\ OwnDevice[1] = "driver"
          /\ \A j \in 1 .. Len(OwnDevice) : OwnDevice[j] = "driver" => j = 1
      BY <1>1
    <3> QED BY <1>1, <3>1, OnlyOne, Zenon
  <2>2. RemoveAt(OwnDevice, 1) \in Seq(D) /\ Len(RemoveAt(OwnDevice, 1)) = 0
    BY <1>1, RemoveAtElements
  <2> QED BY <2>1, <2>2, EmptySeq
<1>6. RemoveFirst(BothDevices, "driver") = M
  <2> DEFINE r == RemoveAt(BothDevices, 2)
  <2>1. RemoveFirst(BothDevices, "driver") = r
    <3>1. /\ 2 \in 1 .. Len(BothDevices) /\ BothDevices[2] = "driver"
          /\ \A j \in 1 .. Len(BothDevices) : BothDevices[j] = "driver" => j = 2
      BY <1>2
    <3> QED BY <1>2, <3>1, OnlyOne, Zenon
  <2>2. /\ r \in Seq(D) /\ Len(r) = Len(BothDevices) - 1
        /\ \A k \in 1 .. (Len(BothDevices) - 1) :
              r[k] = IF k < 2 THEN BothDevices[k] ELSE BothDevices[k + 1]
    <3>1. 2 \in 1 .. Len(BothDevices)
      BY <1>2
    <3> QED BY <1>2, <3>1, RemoveAtElements, Zenon
  <2> HIDE DEF r
  <2>3. Len(r) = 1 /\ r[1] = "message"
    BY <1>2, <2>2
  <2> QED BY <1>3, <2>1, <2>2, <2>3, SeqEqual
<1>7. RemoveFirst(BothDevices, "message") = OwnDevice
  <2> DEFINE r == RemoveAt(BothDevices, 1)
  <2>1. RemoveFirst(BothDevices, "message") = r
    <3>1. /\ 1 \in 1 .. Len(BothDevices) /\ BothDevices[1] = "message"
          /\ \A j \in 1 .. Len(BothDevices) : BothDevices[j] = "message" => j = 1
      BY <1>2
    <3> QED BY <1>2, <3>1, OnlyOne, Zenon
  <2>2. /\ r \in Seq(D) /\ Len(r) = Len(BothDevices) - 1
        /\ \A k \in 1 .. (Len(BothDevices) - 1) :
              r[k] = IF k < 1 THEN BothDevices[k] ELSE BothDevices[k + 1]
    <3>1. 1 \in 1 .. Len(BothDevices)
      BY <1>2
    <3> QED BY <1>2, <3>1, RemoveAtElements, Zenon
  <2> HIDE DEF r
  <2>3. Len(r) = 1 /\ r[1] = "driver"
    BY <1>2, <2>2
  <2> QED BY <1>1, <2>1, <2>2, <2>3, SeqEqual
<1> QED BY <1>4, <1>5, <1>6, <1>7 DEF M

\* The buffer that NdfCommInit allocates for the name of the link.
LEMMA LinkBuffer ==
    ASSUME linkName = EmptyString
    PROVE  /\ AllocLinkName(FALSE).string = EmptyString
           /\ AllocLinkName(TRUE).string \in UnicodeString
           /\ AllocLinkName(TRUE).string.buffer = TRUE
           /\ AllocLinkName(TRUE).string.length = 0
           /\ AllocLinkName(TRUE).string.maximum = 2 * MaxNameSize
<1> DEFINE c == [buffer |-> TRUE, length |-> 0, maximum |-> 2 * MaxNameSize]
<1>1. 2 * MaxNameSize \in UShort /\ 0 \in UShort
  BY SMT DEF MaxNameSize, UShort, UShortMax
<1>2. AllocLinkName(FALSE) = Result(EmptyString, "nomemory")
  BY EmptyIsFormed DEF AllocLinkName, NdfCommUnicodeStringAlloc
<1>3. AllocLinkName(TRUE) = Result(c, "success")
  BY EmptyIsFormed DEF AllocLinkName, NdfCommUnicodeStringAlloc
<1>4. /\ c \in UnicodeString /\ c.buffer = TRUE
      /\ c.length = 0 /\ c.maximum = 2 * MaxNameSize
  BY <1>1 DEF UnicodeString
<1> HIDE DEF c
<1>5. ASSUME NEW x, NEW y PROVE Result(x, y).string = x
  BY DEF Result
<1>6. AllocLinkName(TRUE).string = c
  BY <1>3, <1>5, Zenon
<1>7. AllocLinkName(FALSE).string = EmptyString
  BY <1>2, <1>5, Zenon
<1> QED BY <1>4, <1>6, <1>7, Zenon

\* The name of the link in its buffer.
LEMMA LinkNamed ==
    ASSUME linkName \in UnicodeString, linkName.buffer = TRUE,
           linkName.maximum = 2 * MaxNameSize, NEW n \in Nat, LinkNameFits(n)
    PROVE  LET u == [linkName EXCEPT !.length = 2 * (LinkPrefix + n)]
           IN  WellFormed(u) /\ u.length > 0
<1> DEFINE k == 2 * (LinkPrefix + n)
           u == [linkName EXCEPT !.length = k]
<1>1. k \in Nat /\ k > 0 /\ k =< 2 * MaxNameSize
  BY DEF LinkNameFits, LinkPrefix, MaxNameSize
<1>2. k \in UShort
  <2>1. 2 * MaxNameSize \in UShort
    BY SMT DEF MaxNameSize, UShort, UShortMax
  <2> HIDE DEF k
  <2> QED BY <1>1, <2>1, StringSizes DEF UShort
<1> HIDE DEF k
<1>3. /\ u \in UnicodeString /\ u.buffer = TRUE
      /\ u.length = k /\ u.maximum = 2 * MaxNameSize
  BY <1>2, NewLength
<1> HIDE DEF u
<1>4. WellFormed(u) /\ u.length > 0
  BY <1>1, <1>3 DEF WellFormed
<1> QED BY <1>4 DEF u, k

-----------------------------------------------------------------------------
\* The four functions that are hooked, and their number.
LEMMA Majors ==
    /\ MajorFunctions = {"create", "cleanup", "close", "control"}
    /\ DOMAIN Hooked = 1 .. 4 /\ Len(Hooked) = 4
    /\ \A k \in 1 .. 4 : Hooked[k] \in MajorFunctions
    /\ \A m \in MajorFunctions : \E k \in 1 .. 4 : Hooked[k] = m
<1>1. /\ DOMAIN Hooked = 1 .. 4 /\ Len(Hooked) = 4
      /\ Hooked[1] = "create" /\ Hooked[2] = "cleanup"
      /\ Hooked[3] = "close" /\ Hooked[4] = "control"
  BY DEF Hooked
<1>2. MajorFunctions = {Hooked[k] : k \in 1 .. 4}
  BY <1>1 DEF MajorFunctions, ToSet
<1> QED BY <1>1, <1>2

\* The initial state.
LEMMA InitInv == Init => IInv
<1> SUFFICES ASSUME Init PROVE IInv
  OBVIOUS
<1>1. /\ pc = "device" /\ devices = <<>> /\ links = {}
      /\ linkName = EmptyString /\ message = FALSE /\ ready = FALSE
      /\ nameLength \in NameLengths
  BY DEF Init
<1>2. /\ major = [m \in MajorFunctions |-> "none"]
      /\ original = [m \in MajorFunctions |-> "none"]
      /\ reqPc = [r \in Requests |-> "idle"]
      /\ reqMajor = [r \in Requests |-> "create"]
  BY DEF Init
<1>3. "create" \in MajorFunctions
  BY Majors
<1>4. TypeOK
  <2>1. message \in BOOLEAN /\ ready \in BOOLEAN
    BY <1>1
  <2>2. WellFormed(linkName)
    BY <1>1, EmptyIsFormed
  <2>3. /\ major \in [MajorFunctions -> Handlers]
        /\ original \in [MajorFunctions -> Handlers \ {"library"}]
        /\ reqPc \in [Requests -> {"idle", "sent", "hooked"} \cup Handlers]
        /\ reqMajor \in [Requests -> MajorFunctions]
    BY <1>2, <1>3 DEF Handlers
  <2>4. devices \in Seq({"driver", "message"})
    BY <1>1
  <2> QED BY <1>1, <2>1, <2>2, <2>3, <2>4, Zenon DEF TypeOK
<1>5. ResourceInv
  BY <1>1 DEF ResourceInv
<1>6. TableInv
  BY <1>1, <1>2 DEF TableInv
<1> QED BY <1>4, <1>5, <1>6 DEF IInv

\* The resources: the steps of DriverEntry and of NdfCommInit, which create
\* them and, on the paths of failure, delete them.
LEMMA EntryResources ==
    ASSUME TypeOK, ResourceInv, Entry
    PROVE  ResourceInv'
<1> USE DeviceLists DEF ResourceInv
<1>1. CASE IoCreateDevice
  BY <1>1 DEF IoCreateDevice
<1>2. CASE EntryDeviceFails
  BY <1>2 DEF EntryDeviceFails
<1>3. CASE SetDispatch
  BY <1>3 DEF SetDispatch
<1>4. CASE IoCreateSymbolicLink
  BY <1>4 DEF IoCreateSymbolicLink
<1>5. CASE EntryLinkFails
  BY <1>5 DEF EntryLinkFails
<1>6. CASE InitFailed
  BY <1>6 DEF InitFailed
<1> QED BY <1>1, <1>2, <1>3, <1>4, <1>5, <1>6 DEF Entry

\* The resources: the steps of NdfCommInit.
LEMMA InitResources ==
    ASSUME TypeOK, ResourceInv, NdfCommInit
    PROVE  ResourceInv' /\ WellFormed(linkName')
<1> USE DeviceLists DEF ResourceInv
<1>0. WellFormed(linkName) /\ nameLength \in Nat
  <2>1. WellFormed(linkName) /\ nameLength \in NameLengths
    BY Zenon DEF TypeOK
  <2> QED BY <2>1
<1>1. CASE InitDevice
  BY <1>0, <1>1 DEF InitDevice
<1>2. CASE InitDeviceFails
  BY <1>0, <1>2 DEF InitDeviceFails
<1>3. CASE InitAlloc
  <2>1. linkName = EmptyString
    BY <1>3 DEF InitAlloc
  <2> DEFINE s == AllocLinkName(TRUE).string
  <2>2. /\ s \in UnicodeString /\ s.buffer = TRUE
        /\ s.length = 0 /\ s.maximum = 2 * MaxNameSize
    BY <2>1, LinkBuffer
  <2>3. linkName' = s
    BY <1>3 DEF InitAlloc
  <2> HIDE DEF s
  <2>4. WellFormed(s)
    <3>1. 0 =< 2 * MaxNameSize
      BY DEF MaxNameSize
    <3> QED BY <2>2, <3>1 DEF WellFormed
  <2> QED BY <1>3, <2>2, <2>3, <2>4 DEF InitAlloc
<1>4. CASE InitAllocFails
  <2>1. linkName' = EmptyString
    BY <1>4, LinkBuffer DEF InitAllocFails
  <2> QED BY <1>4, <2>1, EmptyIsFormed DEF InitAllocFails
<1>5. CASE InitNameFails
  <2>1. linkName' = EmptyString
    BY <1>0, <1>5, FreeEmpties DEF InitNameFails
  <2> QED BY <1>5, <2>1, EmptyIsFormed DEF InitNameFails
<1>6. CASE InitLink
  <2>1. WellFormed(linkName') /\ linkName'.length > 0
    BY <1>0, <1>6, LinkNamed DEF InitLink
  <2> QED BY <1>6, <2>1 DEF InitLink
<1>7. CASE InitLinkFails
  <2>1. linkName' = EmptyString
    BY <1>0, <1>7, FreeEmpties DEF InitLinkFails
  <2> QED BY <1>7, <2>1, EmptyIsFormed DEF InitLinkFails
<1>8. CASE SaveOriginals
  BY <1>0, <1>8 DEF SaveOriginals
<1>9. ASSUME NEW k \in DOMAIN Hooked, HookNext(k)
      PROVE  ResourceInv' /\ WellFormed(linkName')
  <2>1. pc' \in {"hook", "loaded"}
    BY <1>9 DEF HookNext
  <2> QED BY <1>0, <1>9, <2>1 DEF HookNext
<1> QED BY <1>1, <1>2, <1>3, <1>4, <1>5, <1>6, <1>7, <1>8, <1>9
        DEF NdfCommInit

\* The resources: NdfCommRelease leaves the driver's own device the first in
\* the list, where DriverUnload looks for it.
LEMMA UnloadResources ==
    ASSUME TypeOK, ResourceInv, NdfCommRelease \/ DriverUnload
    PROVE  ResourceInv' /\ WellFormed(linkName')
<1> USE DeviceLists DEF ResourceInv
<1>0. WellFormed(linkName)
  BY Zenon DEF TypeOK
<1>1. CASE NdfCommRelease
  <2>1. pc = "loaded" /\ linkName.length > 0 /\ message
    BY <1>1 DEF NdfCommRelease
  <2>2. /\ linkName' = NdfCommUnicodeStringFree(linkName)
        /\ links' = links \ {"message"}
        /\ devices' = RemoveFirst(devices, "message")
        /\ pc' = "unload"
    BY <1>1, <2>1 DEF NdfCommRelease
  <2>3. linkName' = EmptyString
    BY <1>0, <2>2, FreeEmpties
  <2> QED BY <2>1, <2>2, <2>3, EmptyIsFormed
<1>2. CASE DriverUnload
  BY <1>0, <1>2 DEF DriverUnload
<1> QED BY <1>1, <1>2

-----------------------------------------------------------------------------
(***************************************************************************)
(* The dispatch table and the requests that go through it.                 *)
(***************************************************************************)
\* The steps of DriverEntry, of the release and of the unloading.
LEMMA EntryTable ==
    ASSUME TypeOK, TableInv, Entry \/ NdfCommRelease \/ DriverUnload
    PROVE  TableInv'
<1> USE DEF TypeOK, TableInv, Saved
<1>1. CASE SetDispatch
  BY <1>1 DEF SetDispatch
<1>2. CASE IoCreateDevice \/ EntryDeviceFails
  BY <1>2 DEF IoCreateDevice, EntryDeviceFails
<1>3. CASE IoCreateSymbolicLink \/ EntryLinkFails \/ InitFailed
  BY <1>3 DEF IoCreateSymbolicLink, EntryLinkFails, InitFailed
<1>4. CASE NdfCommRelease
  BY <1>4 DEF NdfCommRelease
<1>5. CASE DriverUnload
  BY <1>5 DEF DriverUnload
<1> QED BY <1>1, <1>2, <1>3, <1>4, <1>5 DEF Entry

\* NdfCommInit: the handlers are saved before any function is hooked.
LEMMA InitTable ==
    ASSUME TypeOK, TableInv, NdfCommInit
    PROVE  TableInv'
<1> USE DEF TypeOK, TableInv, Saved
<1>1. CASE InitDevice \/ InitDeviceFails \/ InitAlloc \/ InitAllocFails
  BY <1>1 DEF InitDevice, InitDeviceFails, InitAlloc, InitAllocFails
<1>2. CASE InitNameFails \/ InitLink \/ InitLinkFails
  BY <1>2 DEF InitNameFails, InitLink, InitLinkFails
<1>3. CASE SaveOriginals
  BY <1>3 DEF SaveOriginals
<1>4. ASSUME NEW k \in DOMAIN Hooked, HookNext(k) PROVE TableInv'
  <2>1. Hooked[k] \in MajorFunctions
    BY <1>4, Majors
  <2> QED BY <1>4, <2>1 DEF HookNext
<1> QED BY <1>1, <1>2, <1>3, <1>4 DEF NdfCommInit

\* A request on its way.
LEMMA RequestTable ==
    ASSUME TypeOK, TableInv, NEW r \in Requests, Request(r)
    PROVE  TableInv'
<1> USE DEF TypeOK, TableInv, Saved
<1>1. ASSUME NEW m \in MajorFunctions, SendRequest(r, m) PROVE TableInv'
  BY <1>1 DEF SendRequest
<1>2. CASE Call(r)
  <2>1. ready /\ reqMajor[r] \in MajorFunctions
    BY <1>2 DEF Call
  <2> QED BY <1>2, <2>1 DEF Call
<1>3. CASE Forward(r)
  <2>1. original[reqMajor[r]] = "driver"
    BY <1>3 DEF Forward
  <2> QED BY <1>3, <2>1 DEF Forward
<1> QED BY <1>1, <1>2, <1>3 DEF Request

\* The types of the table and of the requests.
LEMMA TableType ==
    ASSUME TypeOK, TableInv, Next
    PROVE  /\ major' \in [MajorFunctions -> Handlers]
           /\ original' \in [MajorFunctions -> Handlers \ {"library"}]
           /\ reqPc' \in [Requests -> {"idle", "sent", "hooked"} \cup Handlers]
           /\ reqMajor' \in [Requests -> MajorFunctions]
<1> USE DEF TypeOK, TableInv, Handlers
<1>1. CASE Entry
  BY <1>1 DEF Entry, IoCreateDevice, EntryDeviceFails, SetDispatch,
              IoCreateSymbolicLink, EntryLinkFails, InitFailed
<1>2. CASE NdfCommInit
  <2>1. CASE SaveOriginals
    BY <2>1 DEF SaveOriginals
  <2>2. ASSUME NEW k \in DOMAIN Hooked, HookNext(k)
        PROVE  /\ major' \in [MajorFunctions -> Handlers]
               /\ UNCHANGED <<original, requests>>
    BY <2>2 DEF HookNext
  <2>3. CASE \/ InitDevice \/ InitDeviceFails \/ InitAlloc \/ InitAllocFails
             \/ InitNameFails \/ InitLink \/ InitLinkFails
    BY <2>3 DEF InitDevice, InitDeviceFails, InitAlloc, InitAllocFails,
                InitNameFails, InitLink, InitLinkFails
  <2> QED BY <1>2, <2>1, <2>2, <2>3 DEF NdfCommInit
<1>3. CASE NdfCommRelease \/ DriverUnload
  BY <1>3 DEF NdfCommRelease, DriverUnload
<1>4. ASSUME NEW r \in Requests, Request(r)
      PROVE  /\ reqPc' \in [Requests -> {"idle", "sent", "hooked"}
                                        \cup Handlers]
             /\ reqMajor' \in [Requests -> MajorFunctions]
             /\ UNCHANGED table
  BY <1>4 DEF Request, SendRequest, Call, Forward
<1>5. CASE Terminated
  BY <1>5 DEF Terminated, vars
<1> QED BY <1>1, <1>2, <1>3, <1>4, <1>5 DEF Next

\* The types of the rest.
LEMMA RestType ==
    ASSUME TypeOK, ResourceInv, ResourceInv', Next
    PROVE  /\ pc' \in {"device", "dispatch", "link", "init", "alloc", "print",
                      "save", "hook", "loaded", "initfailed", "failed",
                      "unload", "unloaded"}
           /\ nameLength' \in NameLengths
           /\ devices' \in Seq({"driver", "message"})
           /\ links' \subseteq {"driver", "message"}
           /\ message' \in BOOLEAN
           /\ ready' \in BOOLEAN
<1>1. /\ pc' \in {"device", "dispatch", "link", "init", "alloc", "print",
                  "save", "hook", "loaded", "initfailed", "failed",
                  "unload", "unloaded"}
      /\ nameLength' \in NameLengths
      /\ links' \subseteq {"driver", "message"}
  BY DEF TypeOK, Next, Entry, IoCreateDevice, EntryDeviceFails, SetDispatch,
         IoCreateSymbolicLink, EntryLinkFails, InitFailed, NdfCommInit,
         InitDevice, InitDeviceFails, InitAlloc, InitAllocFails,
         InitNameFails, InitLink, InitLinkFails, SaveOriginals, HookNext,
         NdfCommRelease, DriverUnload, Request, SendRequest, Call, Forward,
         Terminated, vars
<1>2. devices' \in Seq({"driver", "message"})
  <2>1. devices' \in {<<>>, OwnDevice, BothDevices, <<"message">>}
    BY <1>1 DEF ResourceInv
  <2>2. <<>> \in Seq({"driver", "message"})
    BY EmptySeq
  <2>3. OwnDevice \in Seq({"driver", "message"})
    BY DEF OwnDevice
  <2>4. BothDevices \in Seq({"driver", "message"})
    BY DEF BothDevices
  <2>5. <<"message">> \in Seq({"driver", "message"})
    OBVIOUS
  <2> QED BY <2>1, <2>2, <2>3, <2>4, <2>5, Zenon
<1>3. message' \in BOOLEAN /\ ready' \in BOOLEAN
  <2>1. message \in BOOLEAN /\ ready \in BOOLEAN
    BY Zenon DEF TypeOK
  <2>2. message' \in {message, TRUE, FALSE} /\ ready' \in {ready, TRUE}
    <3>1. CASE Entry
      BY <3>1
         DEF Entry, IoCreateDevice, EntryDeviceFails, SetDispatch,
             IoCreateSymbolicLink, EntryLinkFails, InitFailed
    <3>2. CASE NdfCommInit
      BY <3>2
         DEF NdfCommInit, InitDevice, InitDeviceFails, InitAlloc,
             InitAllocFails, InitNameFails, InitLink, InitLinkFails,
             SaveOriginals, HookNext
    <3>3. CASE NdfCommRelease \/ DriverUnload \/ Terminated
      BY <3>3 DEF NdfCommRelease, DriverUnload, Terminated, vars
    <3>4. ASSUME NEW r \in Requests, Request(r)
          PROVE  UNCHANGED <<message, ready>>
      BY <3>4 DEF Request, SendRequest, Call, Forward
    <3> QED BY <3>1, <3>2, <3>3, <3>4 DEF Next
  <2> QED BY <2>1, <2>2, Zenon
<1> QED BY <1>1, <1>2, <1>3

\* A step keeps the invariant.
LEMMA StepInv == IInv /\ [Next]_vars => IInv'
<1> SUFFICES ASSUME IInv, [Next]_vars PROVE IInv'
  OBVIOUS
<1>0. TypeOK /\ ResourceInv /\ TableInv
  BY DEF IInv
<1>1. CASE Next
  <2>1. ResourceInv' /\ WellFormed(linkName')
    <3>1. CASE Entry
      <4>1. linkName' = linkName
        BY <3>1 DEF Entry, IoCreateDevice, EntryDeviceFails, SetDispatch,
                    IoCreateSymbolicLink, EntryLinkFails, InitFailed
      <4>2. WellFormed(linkName)
        BY <1>0, Zenon DEF TypeOK
      <4> QED BY <1>0, <3>1, <4>1, <4>2, EntryResources
    <3>2. CASE NdfCommInit
      BY <1>0, <3>2, InitResources
    <3>3. CASE NdfCommRelease \/ DriverUnload
      BY <1>0, <3>3, UnloadResources
    <3>4. ASSUME \/ \E r \in Requests : Request(r)
                 \/ Terminated
          PROVE  ResourceInv' /\ WellFormed(linkName')
      <4>1. UNCHANGED <<pc, resources>>
        BY <3>4 DEF Request, SendRequest, Call, Forward, Terminated, vars
      <4>2. WellFormed(linkName)
        BY <1>0, Zenon DEF TypeOK
      <4> QED BY <1>0, <4>1, <4>2 DEF ResourceInv
    <3> QED BY <1>1, <3>1, <3>2, <3>3, <3>4 DEF Next
  <2>2. TableInv'
    <3>1. CASE Terminated
      BY <1>0, <3>1 DEF TableInv, Saved, Terminated, vars
    <3> QED BY <1>0, <1>1, <3>1, EntryTable, InitTable, RequestTable DEF Next
  <2>3. TypeOK'
    BY <1>0, <1>1, <2>1, TableType, RestType, Zenon DEF TypeOK
  <2> QED BY <2>1, <2>2, <2>3 DEF IInv
<1>2. CASE UNCHANGED vars
  <2>1. TypeOK'
    BY <1>0, <1>2 DEF TypeOK, vars
  <2>2. ResourceInv' /\ TableInv'
    BY <1>0, <1>2 DEF ResourceInv, TableInv, Saved, vars
  <2> QED BY <2>1, <2>2 DEF IInv
<1> QED BY <1>1, <1>2

\* The inductive invariant.
THEOREM DriverInvariant == Spec => []IInv
<1> QED BY InitInv, StepInv, PTL DEF Spec

-----------------------------------------------------------------------------
\* The types of the variables.
THEOREM DriverTypeCorrect == Spec => []TypeOK
<1>1. IInv => TypeOK
  BY DEF IInv
<1> QED BY <1>1, DriverInvariant, PTL

\* No request for the driver's own device is lost while NdfCommInit hooks the
\* dispatch functions (NdfCommInit, NdfCommpDispatch).
THEOREM RequestsReachTheDriver == Spec => []OriginalReached
<1>1. IInv => OriginalReached
  BY DEF IInv, TableInv, OriginalReached
<1> QED BY <1>1, DriverInvariant, PTL

\* An unloaded driver leaves nothing behind, a failed load neither a link nor
\* a buffer nor the driver's own device (DriverEntry, DriverUnload).
THEOREM DriverEndsClean == Spec => []EndsClean
<1>1. IInv => EndsClean
  <2>1. "driver" \notin ToSet(<<>>) /\ "driver" \notin ToSet(<<"message">>)
    BY DEF ToSet
  <2> QED BY <2>1, EmptyIsFormed DEF IInv, ResourceInv, EndsClean
<1> QED BY <1>1, DriverInvariant, PTL
=============================================================================
