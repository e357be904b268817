------------------------- MODULE NdfCommLibraryProofs -------------------------
(***************************************************************************)
(* The books of the library for every set of file objects, as long as the  *)
(* opens of one driver, the refused ones included, do not outnumber the    *)
(* values of a LONG: InterlockedIncrement would wrap round after that.     *)
(***************************************************************************)
EXTENDS NdfCommLibrary, SharedLemmas, FiniteSetTheorems, TLAPS

USE FilesAssumption, MaxClientsAssumption
USE DEF fileVars, globals

FewFiles == Cardinality(Files) =< LongMax

-----------------------------------------------------------------------------
(***************************************************************************)
(* The inductive invariant.                                                *)
(***************************************************************************)
\* Who holds the rundown reference of the library, who a place, and who took a
\* place away for ever.
Inside == {f \in Files : filePc[f] \in InCreate \cup {"notifying"}}
Holding == {f \in Files : Admitted(f)}
Lost == {f \in Files : Leaked(f)}

\* How far a file object is says how its open ended.
OutcomeInv ==
    \A f \in Files :
        /\ filePc[f] \in {"idle", "count", "make", "connect", "add"} =>
               outcome[f] = "none"
        /\ filePc[f] = "uncount" => outcome[f] = "rejected"
        /\ filePc[f] = "leave" =>
               outcome[f] \in {"limit", "nomemory", "rejected", "connected"}
        /\ filePc[f] = "failed" =>
               outcome[f] \in {"invalid", "refused", "limit", "nomemory",
                               "rejected"}
        /\ filePc[f] \in {"open", "cleaned", "closed"} \cup InCleanup =>
               outcome[f] = "connected"

\* The reference counts who is inside; NdfCommRelease is past its wait only
\* when nobody is.
ReferenceInv ==
    /\ libRundown.count = Cardinality(Inside)
    /\ libRundown.active <=> releasePc # "idle"
    /\ releasePc \notin {"idle", "wait"} => Inside = {}

\* NdfCommRelease goes through a list that nobody changes.
CursorInv ==
    /\ releasePc \in {"idle", "wait", "lock"} => cursor = 1
    /\ releasePc \in {"disconnect", "drain", "notify"} =>
           cursor \in 1 .. Len(clientList)

\* Until the library is released only a cleanup request tells the driver.
ToldInv ==
    \A f \in Files :
        /\ told[f] > 0 => outcome[f] = "connected"
        /\ releasePc = "idle" =>
              told[f] = IF filePc[f] \in {"notifying", "told", "cleaned",
                                          "closed"} THEN 1 ELSE 0

\* The invariant.
IInv ==
    /\ TypeOK /\ OutcomeInv /\ ReferenceInv /\ CursorInv
    /\ ListIntegrity /\ ToldInv /\ CountAccounts /\ ClientLimit

-----------------------------------------------------------------------------
(***************************************************************************)
(* Sets of file objects.                                                   *)
(***************************************************************************)
\* Every set of file objects is finite.
LEMMA SomeFiles ==
    ASSUME NEW S \in SUBSET Files
    PROVE  /\ IsFiniteSet(S) /\ Cardinality(S) \in Nat
           /\ Cardinality(S) =< Cardinality(Files)
           /\ Cardinality(Files) \in Nat
           /\ Cardinality(S) = 0 <=> S = {}
BY FS_Subset, FS_CardinalityType, FS_EmptySet

\* One more.
LEMMA OneMore ==
    ASSUME NEW S \in SUBSET Files, NEW f \in Files, f \notin S
    PROVE  Cardinality(S \cup {f}) = Cardinality(S) + 1
BY SomeFiles, FS_AddElement

\* One less.
LEMMA OneLess ==
    ASSUME NEW S \in SUBSET Files, NEW f \in S
    PROVE  /\ Cardinality(S \ {f}) = Cardinality(S) - 1
           /\ Cardinality(S) > 0
<1>1. Cardinality(S \ {f}) = Cardinality(S) - 1
  BY SomeFiles, FS_RemoveElement
<1>2. Cardinality(S) \in Nat /\ Cardinality(S) # 0
  BY SomeFiles
<1> QED BY <1>1, <1>2

\* The places are those held and those lost.
LEMMA PlacesTaken ==
    /\ {f \in Files : Admitted(f) \/ Leaked(f)} = Holding \cup Lost
    /\ Holding \in SUBSET Files /\ Lost \in SUBSET Files
    /\ Inside \in SUBSET Files
BY DEF Holding, Lost, Inside

-----------------------------------------------------------------------------
\* The initial state.
LEMMA InitInv == Init => IInv
<1> SUFFICES ASSUME Init PROVE IInv
  OBVIOUS
<1>1. TypeOK
  BY RundownInitial DEF Init, TypeOK, ReleasePc
<1>2. OutcomeInv /\ CursorInv /\ ToldInv
  BY DEF Init, OutcomeInv, CursorInv, ToldInv, InCleanup
<1>3. Inside = {} /\ Holding = {} /\ Lost = {}
  BY DEF Init, Inside, InCreate, Holding, Lost, Admitted, Connected, Leaked
<1>4. Cardinality({}) = 0
  BY FS_EmptySet
<1>5. ReferenceInv
  BY <1>3, <1>4, RundownInitial DEF Init, ReferenceInv
<1>6. ListIntegrity
  BY DEF Init, ListIntegrity, Listed, ToSet
<1>7. CountAccounts /\ ClientLimit
  <2>1. {f \in Files : Admitted(f) \/ Leaked(f)} = {}
    BY <1>3, PlacesTaken
  <2>2. {f \in Files : Admitted(f)} = {}
    BY <1>3 DEF Holding
  <2>3. activeClients = 0
    BY DEF Init
  <2>4. CountAccounts
    BY <1>4, <2>1, <2>3 DEF CountAccounts
  <2>5. ClientLimit
    BY <1>4, <2>2 DEF ClientLimit
  <2> QED BY <2>4, <2>5
<1> QED BY <1>1, <1>2, <1>5, <1>6, <1>7 DEF IInv

-----------------------------------------------------------------------------
(***************************************************************************)
(* The parts of the invariant that do not count anything.                  *)
(***************************************************************************)
\* The outcomes.
LEMMA StepOutcome ==
    ASSUME TypeOK, OutcomeInv, Next
    PROVE  OutcomeInv'
<1> USE DEF TypeOK, OutcomeInv, InCreate, InCleanup, Goto, End, Tell
<1>1. ASSUME NEW f \in Files, Create(f) PROVE OutcomeInv'
  BY <1>1 DEF Create, MayCreate, CreateInvalid, CreateRefused, CreateEnter
<1>2. ASSUME NEW f \in Files, CreateStep(f) PROVE OutcomeInv'
  BY <1>2 DEF CreateStep, CreateAdmitted, CreateLimit, CreateNoMemory,
         CreateClient, ConnectRejected, CreateUncount, ConnectAccepted,
         CreateAdd, CreateLeave
<1>3. ASSUME NEW f \in Files, StartCleanup(f) \/ CleanupStep(f) PROVE OutcomeInv'
  BY <1>3 DEF StartCleanup, CleanupStep, CleanupDisconnect, CleanupDrained,
         CleanupNotify, CleanupNotified, CleanupSkipNotify, CleanupUncount,
         CloseRequest
<1>4. CASE StartRelease \/ ReleaseStep
  BY <1>4 DEF StartRelease, ReleaseStep, LibraryRundownDone, LockClientList,
         ReleaseDisconnect, ReleaseDrained, ReleaseNotify, UnlockClientList
<1>5. CASE Terminated
  BY <1>5 DEF Terminated, vars
<1> QED BY <1>1, <1>2, <1>3, <1>4, <1>5 DEF Next

\* The list is frozen while NdfCommpDisconnectAllClients goes through it.
LEMMA StepCursor ==
    ASSUME TypeOK, CursorInv, Next
    PROVE  CursorInv'
<1> USE DEF TypeOK, CursorInv, ListFree, Goto, End, Tell
<1>1. ASSUME NEW f \in Files, Create(f) PROVE CursorInv'
  BY <1>1 DEF Create, MayCreate, CreateInvalid, CreateRefused, CreateEnter
<1>2. ASSUME NEW f \in Files, CreateStep(f) PROVE CursorInv'
  BY <1>2 DEF CreateStep, CreateAdmitted, CreateLimit, CreateNoMemory,
         CreateClient, ConnectRejected, CreateUncount, ConnectAccepted,
         CreateAdd, CreateLeave
<1>3. ASSUME NEW f \in Files, StartCleanup(f) \/ CleanupStep(f) PROVE CursorInv'
  BY <1>3 DEF StartCleanup, CleanupStep, CleanupDisconnect, CleanupDrained,
         CleanupNotify, CleanupNotified, CleanupSkipNotify, CleanupUncount,
         CloseRequest
<1>4. CASE StartRelease \/ ReleaseStep
  BY <1>4 DEF StartRelease, ReleaseStep, LibraryRundownDone, LockClientList,
         ReleaseDisconnect, ReleaseDrained, ReleaseNotify, UnlockClientList
<1>5. CASE Terminated
  BY <1>5 DEF Terminated, vars
<1> QED BY <1>1, <1>2, <1>3, <1>4, <1>5 DEF Next

\* The driver is told of what it accepted, once.
LEMMA StepTold ==
    ASSUME TypeOK, OutcomeInv, ReferenceInv, CursorInv, ListIntegrity,
           ToldInv, Next
    PROVE  ToldInv'
<1> USE DEF TypeOK, OutcomeInv, CursorInv, ToldInv, InCreate, InCleanup, Goto,
            End, Tell
<1>1. ASSUME NEW f \in Files, Create(f) PROVE ToldInv'
  BY <1>1 DEF Create, MayCreate, CreateInvalid, CreateRefused, CreateEnter
<1>2. ASSUME NEW f \in Files, CreateStep(f) PROVE ToldInv'
  BY <1>2 DEF CreateStep, CreateAdmitted, CreateLimit, CreateNoMemory,
         CreateClient, ConnectRejected, CreateUncount, ConnectAccepted,
         CreateAdd, CreateLeave
<1>3. ASSUME NEW f \in Files, StartCleanup(f) \/ CleanupStep(f) PROVE ToldInv'
  <2>1. CleanupSkipNotify(f) => releasePc # "idle"
    BY Zenon DEF CleanupSkipNotify, CanAcquire, ReferenceInv
  <2>2. CASE CleanupNotify(f)
    BY <1>3, <2>2 DEF CleanupNotify
  <2>3. CASE CleanupSkipNotify(f)
    BY <1>3, <2>1, <2>3 DEF CleanupSkipNotify
  <2>4. CASE StartCleanup(f) \/ CleanupDisconnect(f) \/ CleanupDrained(f)
    BY <1>3, <2>4 DEF StartCleanup, CleanupDisconnect, CleanupDrained
  <2>5. CASE CleanupNotified(f) \/ CleanupUncount(f)
    BY <1>3, <2>5 DEF CleanupNotified, CleanupUncount
  <2>6. CASE CloseRequest(f)
    BY <1>3, <2>6 DEF CloseRequest
  <2> QED
    BY <1>3, <2>2, <2>3, <2>4, <2>5, <2>6 DEF CleanupStep
<1>4. CASE StartRelease \/ ReleaseStep
  <2>1. ReleaseNotify => /\ clientList[cursor] \in Files
                         /\ outcome[clientList[cursor]] = "connected"
    BY DEF ReleaseNotify, ListIntegrity, Listed, ToSet
  <2> QED
    BY <1>4, <2>1
       DEF StartRelease, ReleaseStep, LibraryRundownDone, LockClientList,
           ReleaseDisconnect, ReleaseDrained, ReleaseNotify, UnlockClientList
<1>5. CASE Terminated
  BY <1>5 DEF Terminated, vars
<1> QED BY <1>1, <1>2, <1>3, <1>4, <1>5 DEF Next

-----------------------------------------------------------------------------
(***************************************************************************)
(* The list: only the end of a create request and a close request touch it. *)
(***************************************************************************)
\* What is listed, and by which steps that changes.
ListedFiles == {f \in Files : Listed(f)}

\* The steps that leave the list alone.
LEMMA ListUntouched ==
    ASSUME TypeOK, OutcomeInv, Next,
           \A f \in Files : ~CreateAdd(f) /\ ~CloseRequest(f)
    PROVE  clientList' = clientList /\ ListedFiles' = ListedFiles
<1> USE DEF TypeOK, OutcomeInv, InCreate, InCleanup, ListedFiles, Listed,
            Goto, End, Tell
<1> DEFINE Same == clientList' = clientList /\ ListedFiles' = ListedFiles
<1>1. ASSUME NEW f \in Files, Create(f) PROVE Same
  BY <1>1 DEF Create, MayCreate, CreateInvalid, CreateRefused, CreateEnter
<1>2. ASSUME NEW f \in Files, CreateStep(f) PROVE Same
  BY <1>2 DEF CreateStep, CreateAdmitted, CreateLimit, CreateNoMemory,
              CreateClient, ConnectRejected, CreateUncount, ConnectAccepted,
              CreateLeave
<1>3. ASSUME NEW f \in Files, StartCleanup(f) \/ CleanupStep(f) PROVE Same
  BY <1>3 DEF StartCleanup, CleanupStep, CleanupDisconnect, CleanupDrained,
              CleanupNotify, CleanupNotified, CleanupSkipNotify, CleanupUncount
<1>4. CASE StartRelease \/ ReleaseStep
  BY <1>4 DEF StartRelease, ReleaseStep, LibraryRundownDone, LockClientList,
              ReleaseDisconnect, ReleaseDrained, ReleaseNotify,
              UnlockClientList
<1>5. CASE Terminated
  BY <1>5 DEF Terminated, vars
<1> QED BY <1>1, <1>2, <1>3, <1>4, <1>5 DEF Next

\* Every client is in the list, once, from its connection to its close.
LEMMA StepList ==
    ASSUME TypeOK, OutcomeInv, ListIntegrity, Next
    PROVE  ListIntegrity' /\ clientList' \in Seq(Files)
<1>0. clientList \in Seq(Files) /\ ToSet(clientList) = ListedFiles
  BY DEF TypeOK, ListIntegrity, ListedFiles
<1>1. ASSUME NEW f \in Files, CreateAdd(f)
      PROVE  ListIntegrity' /\ clientList' \in Seq(Files)
  <2>1. f \notin ListedFiles /\ ListedFiles' = ListedFiles \cup {f}
    BY <1>1
       DEF TypeOK, OutcomeInv, CreateAdd, ListedFiles, Listed, Goto, End
  <2>2. clientList' = Append(clientList, f)
    BY <1>1 DEF CreateAdd
  <2>3. /\ Append(clientList, f) \in Seq(Files)
        /\ ToSet(Append(clientList, f)) = ToSet(clientList) \cup {f}
        /\ \A j, k \in DOMAIN Append(clientList, f) :
              Append(clientList, f)[j] = Append(clientList, f)[k] => j = k
    BY <1>0, <1>1, <2>1, AppendElement DEF ListIntegrity
  <2> QED BY <1>0, <2>1, <2>2, <2>3, Zenon DEF ListIntegrity, ListedFiles
<1>2. ASSUME NEW f \in Files, CloseRequest(f)
      PROVE  ListIntegrity' /\ clientList' \in Seq(Files)
  <2>1. f \in ListedFiles /\ ListedFiles' = ListedFiles \ {f}
    BY <1>2
       DEF TypeOK, OutcomeInv, CloseRequest, ListedFiles, Listed, Goto
  <2>2. clientList' = Removed(clientList, f)
    BY <1>2 DEF CloseRequest, ListRemove, Removed
  <2>3. /\ Removed(clientList, f) \in Seq(Files)
        /\ ToSet(Removed(clientList, f)) = ToSet(clientList) \ {f}
        /\ \A j, k \in DOMAIN Removed(clientList, f) :
              Removed(clientList, f)[j] = Removed(clientList, f)[k] => j = k
    BY <1>0, <2>1, RemoveOnly DEF ListIntegrity
  <2> QED BY <1>0, <2>1, <2>2, <2>3, Zenon DEF ListIntegrity, ListedFiles
<1>3. CASE \A f \in Files : ~CreateAdd(f) /\ ~CloseRequest(f)
  <2>1. clientList' = clientList /\ ListedFiles' = ListedFiles
    BY <1>3, ListUntouched
  <2> QED BY <1>0, <2>1, Zenon DEF ListIntegrity, ListedFiles
<1> QED BY <1>1, <1>2, <1>3

-----------------------------------------------------------------------------
(***************************************************************************)
(* The reference.                                                          *)
(***************************************************************************)
\* Who comes in or goes out counts.
LEMMA StepReference ==
    ASSUME TypeOK, OutcomeInv, ReferenceInv, Next
    PROVE  ReferenceInv' /\ libRundown' \in RundownRef
<1>0. /\ libRundown \in RundownRef /\ Inside \in SUBSET Files
      /\ libRundown.count \in Nat
      /\ libRundown.count = Cardinality(Inside)
  BY RundownFields DEF TypeOK, ReferenceInv, Inside
<1>1. ASSUME NEW f \in Files, CreateEnter(f) \/ CleanupNotify(f)
      PROVE  ReferenceInv' /\ libRundown' \in RundownRef
  <2>1. f \notin Inside /\ Inside' = Inside \cup {f} /\ releasePc' = releasePc
    BY <1>1 DEF TypeOK, CreateEnter, CleanupNotify, MayCreate, Inside,
                InCreate, Goto
  <2>2. releasePc = "idle" /\ libRundown.active = FALSE
    <3>1. CanAcquire(libRundown)
      BY <1>1 DEF CreateEnter, CleanupNotify
    <3>2. ~libRundown.active /\ libRundown.active \in BOOLEAN
      BY <1>0, <3>1, RundownFields, Zenon DEF CanAcquire
    <3> QED BY <3>2, Zenon DEF ReferenceInv
  <2>3. libRundown' = ExAcquireRundownProtection(libRundown)
    BY <1>1 DEF CreateEnter, CleanupNotify
  <2>4. Cardinality(Inside') = libRundown.count + 1
    BY <1>0, <2>1, OneMore
  <2>5. /\ libRundown' \in RundownRef
        /\ libRundown'.count = libRundown.count + 1
        /\ libRundown'.active = FALSE
    BY <1>0, <2>2, <2>3, RundownAcquire
  <2> QED BY <2>1, <2>2, <2>4, <2>5 DEF ReferenceInv
<1>2. ASSUME NEW f \in Files, CreateLeave(f) \/ CleanupNotified(f)
      PROVE  ReferenceInv' /\ libRundown' \in RundownRef
  <2>1. f \in Inside /\ Inside' = Inside \ {f} /\ releasePc' = releasePc
    BY <1>2 DEF TypeOK, CreateLeave, CleanupNotified, Inside, InCreate, Goto
  <2>2. releasePc \in {"idle", "wait"}
    BY <2>1 DEF ReferenceInv
  <2>3. libRundown' = ExReleaseRundownProtection(libRundown)
    BY <1>2 DEF CreateLeave, CleanupNotified
  <2>4. Cardinality(Inside') = libRundown.count - 1 /\ libRundown.count > 0
    BY <1>0, <2>1, OneLess
  <2>5. /\ libRundown' \in RundownRef
        /\ libRundown'.count = libRundown.count - 1
        /\ libRundown'.active = libRundown.active
    BY <1>0, <2>3, <2>4, RundownRelease
  <2>6. libRundown'.active <=> releasePc' # "idle"
    BY <2>1, <2>5, Zenon DEF ReferenceInv
  <2> QED BY <2>1, <2>2, <2>4, <2>5, <2>6 DEF ReferenceInv
<1>3. CASE StartRelease
  <2>1. Inside' = Inside
    BY <1>3 DEF StartRelease, Inside
  <2>2. /\ libRundown' \in RundownRef
        /\ libRundown'.count = libRundown.count
        /\ libRundown'.active = TRUE
    BY <1>0, <1>3, RundownBegin DEF StartRelease
  <2>3. releasePc' = "wait"
    BY <1>3 DEF StartRelease
  <2> QED BY <1>0, <2>1, <2>2, <2>3 DEF ReferenceInv
<1>4. CASE ReleaseStep
  <2>1. Inside' = Inside /\ libRundown' = libRundown
    BY <1>4 DEF ReleaseStep, LibraryRundownDone, LockClientList,
                ReleaseDisconnect, ReleaseDrained, ReleaseNotify,
                UnlockClientList, Inside
  <2>2. releasePc # "idle" /\ releasePc' # "idle"
    BY <1>4 DEF ReleaseStep, LibraryRundownDone, LockClientList,
                ReleaseDisconnect, ReleaseDrained, ReleaseNotify,
                UnlockClientList
  <2>3. Inside = {}
    <3>1. CASE LibraryRundownDone
      <4>1. libRundown.count = 0
        BY <3>1, Zenon DEF LibraryRundownDone, RundownReleased
      <4> QED BY <1>0, <4>1, SomeFiles
    <3>2. CASE ~LibraryRundownDone
      BY <1>4, <3>2
         DEF ReleaseStep, LockClientList, ReleaseDisconnect, ReleaseDrained,
             ReleaseNotify, UnlockClientList, ReferenceInv
    <3> QED BY <3>1, <3>2
  <2>4. libRundown'.active <=> releasePc' # "idle"
    BY <2>1, <2>2, Zenon DEF ReferenceInv
  <2> QED BY <1>0, <2>1, <2>2, <2>3, <2>4 DEF ReferenceInv
<1>5. ASSUME NEW f \in Files,
             \/ CreateInvalid(f) \/ CreateRefused(f)
             \/ CreateStep(f) /\ ~CreateLeave(f)
             \/ StartCleanup(f)
             \/ CleanupStep(f) /\ ~CleanupNotify(f) /\ ~CleanupNotified(f)
      PROVE  ReferenceInv' /\ libRundown' \in RundownRef
  <2>1. Inside' = Inside
    BY <1>5
       DEF TypeOK, InCreate, Goto, Inside, CreateInvalid, CreateRefused,
           MayCreate, CreateStep, CreateAdmitted, CreateLimit,
           CreateNoMemory, CreateClient, ConnectRejected, CreateUncount,
           ConnectAccepted, CreateAdd, StartCleanup, CleanupStep,
           CleanupDisconnect, CleanupDrained, CleanupSkipNotify,
           CleanupUncount, CloseRequest
  <2>2. UNCHANGED <<libRundown, releasePc>>
    BY <1>5
       DEF CreateInvalid, CreateRefused, CreateStep, CreateAdmitted,
           CreateLimit, CreateNoMemory, CreateClient, ConnectRejected,
           CreateUncount, ConnectAccepted, CreateAdd, StartCleanup,
           CleanupStep, CleanupDisconnect, CleanupDrained, CleanupSkipNotify,
           CleanupUncount, CloseRequest
  <2> QED BY <1>0, <2>1, <2>2 DEF ReferenceInv
<1>6. CASE Terminated
  BY <1>0, <1>6 DEF Terminated, vars, ReferenceInv, Inside
<1> QED BY <1>1, <1>2, <1>3, <1>4, <1>5, <1>6
        DEF Next, Create, CreateStep, CleanupStep

-----------------------------------------------------------------------------
(***************************************************************************)
(* The places.                                                             *)
(***************************************************************************)
\* A place is taken, by an open that is admitted ...
LEMMA PlaceTaken ==
    ASSUME TypeOK, OutcomeInv, NEW f \in Files, CreateAdmitted(f)
    PROVE  /\ f \notin Holding \cup Lost
           /\ Holding' = Holding \cup {f} /\ Lost' = Lost
BY DEF TypeOK, OutcomeInv, CreateAdmitted, Holding, Lost, Admitted, Connected,
       Leaked, Goto

\* ... or refused, ...
LEMMA PlaceRefused ==
    ASSUME TypeOK, OutcomeInv, NEW f \in Files, CreateLimit(f)
    PROVE  /\ f \notin Holding \cup Lost
           /\ Holding' = Holding /\ Lost' = Lost \cup {f}
BY DEF TypeOK, OutcomeInv, CreateLimit, Holding, Lost, Admitted, Connected,
       Leaked, Goto, End

\* ... kept by one that fails for want of memory, ...
LEMMA PlaceLost ==
    ASSUME TypeOK, OutcomeInv, NEW f \in Files, CreateNoMemory(f)
    PROVE  /\ f \in Holding \ Lost /\ outcome[f] = "none"
           /\ Holding' = Holding \ {f} /\ Lost' = Lost \cup {f}
BY DEF TypeOK, OutcomeInv, CreateNoMemory, Holding, Lost, Admitted, Connected,
       Leaked, Goto, End

\* ... and given back by one the driver rejects, or by a cleanup request.
LEMMA PlaceGivenBack ==
    ASSUME TypeOK, OutcomeInv, NEW f \in Files,
           CreateUncount(f) \/ CleanupUncount(f)
    PROVE  /\ f \in Holding \ Lost
           /\ Holding' = Holding \ {f} /\ Lost' = Lost
BY DEF TypeOK, OutcomeInv, CreateUncount, CleanupUncount, InCleanup, Holding,
       Lost, Admitted, Connected, Leaked, Goto, End

\* The steps that change who has a place.
Placing(f) ==
    \/ CreateAdmitted(f) \/ CreateLimit(f) \/ CreateNoMemory(f)
    \/ CreateUncount(f) \/ CleanupUncount(f)

\* No other step does.
LEMMA PlacesKept ==
    ASSUME TypeOK, OutcomeInv, Next, \A f \in Files : ~Placing(f)
    PROVE  /\ Holding' = Holding /\ Lost' = Lost
           /\ activeClients' = activeClients
<1> USE DEF TypeOK, OutcomeInv, InCreate, InCleanup, Placing, Holding, Lost,
            Admitted, Connected, Leaked, Goto, End, Tell
<1> DEFINE Same == /\ Holding' = Holding /\ Lost' = Lost
                   /\ activeClients' = activeClients
<1>1. ASSUME NEW f \in Files, Create(f) PROVE Same
  BY <1>1 DEF Create, MayCreate, CreateInvalid, CreateRefused, CreateEnter
<1>2. ASSUME NEW f \in Files, CreateStep(f) PROVE Same
  BY <1>2 DEF CreateStep, CreateClient, ConnectRejected, ConnectAccepted,
              CreateAdd, CreateLeave
<1>3. ASSUME NEW f \in Files, StartCleanup(f) \/ CleanupStep(f) PROVE Same
  BY <1>3 DEF StartCleanup, CleanupStep, CleanupDisconnect, CleanupDrained,
              CleanupNotify, CleanupNotified, CleanupSkipNotify, CloseRequest
<1>4. CASE StartRelease \/ ReleaseStep
  BY <1>4 DEF StartRelease, ReleaseStep, LibraryRundownDone, LockClientList,
              ReleaseDisconnect, ReleaseDrained, ReleaseNotify,
              UnlockClientList
<1>5. CASE Terminated
  BY <1>5 DEF Terminated, vars
<1> QED BY <1>1, <1>2, <1>3, <1>4, <1>5 DEF Next

\* The counter follows: while the opens do not outnumber the values of a LONG
\* the increment does not wrap.
LEMMA StepCount ==
    ASSUME FewFiles, TypeOK, OutcomeInv, CountAccounts, ClientLimit, Next
    PROVE  /\ CountAccounts' /\ ClientLimit'
           /\ activeClients' \in (-LongMax - 1) .. LongMax
<1> DEFINE Places == Holding \cup Lost
<1> USE DEF FewFiles
<1>1. /\ activeClients = Cardinality(Places)
      /\ Places \in SUBSET Files /\ Places' \in SUBSET Files
      /\ Cardinality(Holding) =< MaxClients
  BY PlacesTaken DEF CountAccounts, ClientLimit, Holding, Lost
<1>2. SUFFICES /\ activeClients' = Cardinality(Places')
               /\ Cardinality(Holding') =< MaxClients
  <2>1. /\ {f \in Files : Admitted(f) \/ Leaked(f)}' = Places'
        /\ {f \in Files : Admitted(f)}' = Holding'
    BY DEF Holding, Lost
  <2>2. Cardinality(Places') \in 0 .. LongMax
    BY <1>1, SomeFiles
  <2> QED BY <1>2, <2>1, <2>2 DEF CountAccounts, ClientLimit
<1>3. ASSUME NEW f \in Files, f \notin Places
      PROVE  /\ Increment(activeClients) = Cardinality(Places \cup {f})
             /\ Cardinality(Places \cup {f}) = Cardinality(Places) + 1
  <2>1. Cardinality(Places \cup {f}) = Cardinality(Places) + 1
    BY <1>1, <1>3, OneMore
  <2>2. Places \cup {f} \in SUBSET Files
    BY <1>1, <1>3
  <2>3. Cardinality(Places \cup {f}) =< LongMax
    BY <2>2, SomeFiles
  <2>4. Cardinality(Places) \in Nat
    BY <1>1, SomeFiles
  <2> HIDE DEF Places
  <2> QED BY <1>1, <2>1, <2>3, <2>4 DEF Increment
<1>4. ASSUME NEW f \in Files, CreateAdmitted(f)
      PROVE  /\ activeClients' = Cardinality(Places')
             /\ Cardinality(Holding') =< MaxClients
  <2>1. /\ f \notin Places /\ Places' = Places \cup {f}
        /\ Holding' \in SUBSET Places'
    BY <1>4, PlaceTaken
  <2>2. /\ activeClients' = Increment(activeClients)
        /\ Increment(activeClients) =< MaxClients
    BY <1>4 DEF CreateAdmitted, WithinLimit
  <2>3. Cardinality(Holding') =< Cardinality(Places')
    BY <1>1, <2>1, SomeFiles, FS_Subset
  <2>4. Cardinality(Holding') \in Nat /\ Cardinality(Places') \in Nat
    BY <1>1, <2>1, SomeFiles
  <2> HIDE DEF Places
  <2> QED BY <1>3, <1>4, <2>1, <2>2, <2>3, <2>4
<1>5. ASSUME NEW f \in Files, CreateLimit(f)
      PROVE  /\ activeClients' = Cardinality(Places')
             /\ Cardinality(Holding') =< MaxClients
  <2>1. /\ f \notin Places /\ Places' = Places \cup {f}
        /\ Holding' = Holding
    BY <1>5, PlaceRefused
  <2>2. activeClients' = Increment(activeClients)
    BY <1>5 DEF CreateLimit
  <2> HIDE DEF Places
  <2> QED BY <1>1, <1>3, <1>5, <2>1, <2>2
<1>6. ASSUME NEW f \in Files, CreateNoMemory(f)
      PROVE  /\ activeClients' = Cardinality(Places')
             /\ Cardinality(Holding') =< MaxClients
  <2>1. Places' = Places /\ Holding' = Holding \ {f} /\ f \in Holding
    BY <1>6, PlaceLost
  <2>2. activeClients' = activeClients
    BY <1>6 DEF CreateNoMemory
  <2>3. Cardinality(Holding') = Cardinality(Holding) - 1
    BY <2>1, OneLess, PlacesTaken
  <2>4. Cardinality(Holding) \in Nat
    BY SomeFiles, PlacesTaken
  <2> HIDE DEF Places
  <2> QED BY <1>1, <2>1, <2>2, <2>3, <2>4
<1>7. ASSUME NEW f \in Files, CreateUncount(f) \/ CleanupUncount(f)
      PROVE  /\ activeClients' = Cardinality(Places')
             /\ Cardinality(Holding') =< MaxClients
  <2>1. /\ f \in Places /\ Places' = Places \ {f}
        /\ f \in Holding /\ Holding' = Holding \ {f}
    BY <1>7, PlaceGivenBack
  <2>2. activeClients' = activeClients - 1
    BY <1>7 DEF CreateUncount, CleanupUncount
  <2>3. /\ Cardinality(Holding') = Cardinality(Holding) - 1
        /\ Cardinality(Places') = Cardinality(Places) - 1
    BY <1>1, <2>1, OneLess, PlacesTaken
  <2>4. Cardinality(Holding) \in Nat
    BY SomeFiles, PlacesTaken
  <2> HIDE DEF Places
  <2> QED BY <1>1, <2>2, <2>3, <2>4
<1>8. CASE \A f \in Files : ~Placing(f)
  <2>1. /\ Holding' = Holding /\ Places' = Places
        /\ activeClients' = activeClients
    BY <1>8, PlacesKept
  <2> HIDE DEF Places
  <2> QED BY <1>1, <2>1
<1> QED BY <1>4, <1>5, <1>6, <1>7, <1>8 DEF Placing

-----------------------------------------------------------------------------
\* The types that the parts above leave.
LEMMA StepType ==
    ASSUME TypeOK, CursorInv, Next
    PROVE  /\ filePc' \in [Files -> {"idle", "failed", "open", "cleaned",
                                     "closed"} \cup InCreate \cup InCleanup]
           /\ outcome' \in [Files -> {"none", "invalid", "refused", "limit",
                                      "nomemory", "rejected", "connected"}]
           /\ told' \in [Files -> Nat]
           /\ broken' \subseteq Files
           /\ releasePc' \in ReleasePc
           /\ cursor' \in Nat \ {0}
<1> USE DEF TypeOK, InCreate, InCleanup, ReleasePc, Goto, End, Tell
<1> DEFINE Typed ==
             /\ filePc' \in [Files -> {"idle", "failed", "open", "cleaned",
                                      "closed"} \cup InCreate \cup InCleanup]
             /\ outcome' \in [Files -> {"none", "invalid", "refused", "limit",
                                       "nomemory", "rejected", "connected"}]
             /\ told' \in [Files -> Nat]
             /\ broken' \subseteq Files
             /\ releasePc' \in ReleasePc
             /\ cursor' \in Nat \ {0}
<1>1. ASSUME NEW f \in Files, Create(f) PROVE Typed
  BY <1>1 DEF Create, MayCreate, CreateInvalid, CreateRefused, CreateEnter
<1>2. ASSUME NEW f \in Files, CreateStep(f) PROVE Typed
  BY <1>2 DEF CreateStep, CreateAdmitted, CreateLimit, CreateNoMemory,
              CreateClient, ConnectRejected, CreateUncount, ConnectAccepted,
              CreateAdd, CreateLeave
<1>3. ASSUME NEW f \in Files, StartCleanup(f) \/ CleanupStep(f) PROVE Typed
  BY <1>3 DEF StartCleanup, CleanupStep, CleanupDisconnect, CleanupDrained,
              CleanupNotify, CleanupNotified, CleanupSkipNotify,
              CleanupUncount, CloseRequest
<1>4. CASE StartRelease \/ ReleaseStep
  <2>1. CASE UnlockClientList
    BY <2>1 DEF UnlockClientList
  <2> QED
    BY <1>4, <2>1
       DEF StartRelease, ReleaseStep, LibraryRundownDone, LockClientList,
           ReleaseDisconnect, ReleaseDrained, ReleaseNotify, CursorInv
<1>5. CASE Terminated
  BY <1>5 DEF Terminated, vars
<1> QED BY <1>1, <1>2, <1>3, <1>4, <1>5 DEF Next

\* A step keeps the invariant.
LEMMA StepInv ==
    ASSUME FewFiles
    PROVE  IInv /\ [Next]_vars => IInv'
<1> SUFFICES ASSUME IInv, [Next]_vars PROVE IInv'
  OBVIOUS
<1>0. /\ TypeOK /\ OutcomeInv /\ ReferenceInv /\ CursorInv
      /\ ListIntegrity /\ ToldInv /\ CountAccounts /\ ClientLimit
  BY DEF IInv
<1>1. CASE Next
  <2>1. OutcomeInv' /\ CursorInv' /\ ToldInv'
    BY <1>0, <1>1, StepOutcome, StepCursor, StepTold
  <2>2. ListIntegrity' /\ clientList' \in Seq(Files)
    BY <1>0, <1>1, StepList
  <2>3. ReferenceInv' /\ libRundown' \in RundownRef
    BY <1>0, <1>1, StepReference
  <2>4. /\ CountAccounts' /\ ClientLimit'
        /\ activeClients' \in (-LongMax - 1) .. LongMax
    BY <1>0, <1>1, StepCount
  <2>5. TypeOK'
    BY <1>0, <1>1, <2>2, <2>3, <2>4, StepType, Zenon DEF TypeOK
  <2> QED BY <2>1, <2>2, <2>3, <2>4, <2>5 DEF IInv
<1>2. CASE UNCHANGED vars
  <2>1. TypeOK' /\ OutcomeInv' /\ CursorInv' /\ ToldInv'
    BY <1>0, <1>2 DEF vars, TypeOK, OutcomeInv, CursorInv, ToldInv
  <2>2. ListIntegrity'
    BY <1>0, <1>2 DEF vars, ListIntegrity, Listed
  <2>3. ReferenceInv'
    BY <1>0, <1>2, Zenon DEF vars, ReferenceInv, Inside
  <2>4. CountAccounts' /\ ClientLimit'
    BY <1>0, <1>2
       DEF vars, CountAccounts, ClientLimit, Admitted, Connected, Leaked
  <2> QED BY <2>1, <2>2, <2>3, <2>4 DEF IInv
<1> QED BY <1>1, <1>2

\* The inductive invariant.
THEOREM LibraryInvariant ==
    ASSUME FewFiles
    PROVE  Spec => []IInv
<1>1. Init => IInv
  BY InitInv
<1>2. IInv /\ [Next]_vars => IInv'
  BY StepInv
<1> QED BY <1>1, <1>2, PTL DEF Spec

-----------------------------------------------------------------------------
\* The types of the variables, among them the range of a LONG and the count of
\* the reference.
THEOREM LibraryTypeCorrect == ASSUME FewFiles PROVE Spec => []TypeOK
<1>1. IInv => TypeOK
  BY DEF IInv
<1> QED BY <1>1, LibraryInvariant, PTL

\* The driver never has more clients than it allowed (NdfCommInit,
\* NdfCommpProcessCreateRequest).
THEOREM LimitHolds == ASSUME FewFiles PROVE Spec => []ClientLimit
<1>1. IInv => ClientLimit
  BY DEF IInv
<1> QED BY <1>1, LibraryInvariant, PTL

\* ActiveClientsCount is what its name says, plus what failed opens left on it.
THEOREM CounterAccounts == ASSUME FewFiles PROVE Spec => []CountAccounts
<1>1. IInv => CountAccounts
  BY DEF IInv
<1> QED BY <1>1, LibraryInvariant, PTL

\* ClientList has every client once (NdfCommConcurentListAdd, ...Remove).
THEOREM ListCorrect == ASSUME FewFiles PROVE Spec => []ListIntegrity
<1>1. IInv => ListIntegrity
  BY DEF IInv
<1> QED BY <1>1, LibraryInvariant, PTL

\* The driver hears once of the end of every client it accepted, before the
\* client is freed, while the library is not being released
\* (NdfCommpProcessCleanupRequest).
THEOREM DriverToldOnce == ASSUME FewFiles PROVE Spec => []ToldOnce
<1>1. IInv => ToldOnce
  BY DEF IInv, ToldInv, ToldOnce
<1> QED BY <1>1, LibraryInvariant, PTL

\* No connect callback, nor a disconnect callback of a cleanup request, runs
\* once NdfCommRelease is past its wait.
THEOREM CallbacksAreOver == ASSUME FewFiles PROVE Spec => []CallbacksOver
<1>1. IInv => CallbacksOver
  BY DEF IInv, ReferenceInv, Inside, CallbacksOver
<1> QED BY <1>1, LibraryInvariant, PTL

-----------------------------------------------------------------------------
(***************************************************************************)
(* The refinement of ClientSlots.                                          *)
(***************************************************************************)
Members == ToSet(clientList)
Open == releasePc \in {"idle", "wait"}

\* Cardinality, as the abstract specification has it.
LEMMA SlotsCardinality ==
    ASSUME NEW S
    PROVE  Slots!Cardinality(S) = Cardinality(S)
BY Zenon DEF Slots!Cardinality, Cardinality

\* The library begins as the abstract specification does.
LEMMA SlotsInit == Init => Slots!Init
<1> SUFFICES ASSUME Init PROVE Slots!Init
  OBVIOUS
<1>1. Holding = {} /\ Lost = {}
  BY DEF Init, Holding, Lost, Admitted, Connected, Leaked
<1>2. Members = {}
  BY DEF Init, Members, ToSet
<1>3. Open = TRUE
  BY DEF Init, Open
<1> QED BY <1>1, <1>2, <1>3, Zenon DEF Slots!Init, Holding, Lost, Members, Open

\* The members are the clients whose open has succeeded, until they are closed.
LEMMA MembersListed ==
    ASSUME IInv
    PROVE  /\ Members = {f \in Files : Listed(f)}
           /\ \A f \in Files : filePc[f] \in InCreate => Open
BY DEF IInv, ListIntegrity, Members, ReferenceInv, Inside, Open, TypeOK,
       ReleasePc

\* The steps that leave the list and the release as they are, for the abstract
\* specification.
LEMMA Unmoved ==
    ASSUME NEW f \in Files,
           \/ CreateAdmitted(f) \/ CreateLimit(f) \/ CreateNoMemory(f)
           \/ CreateUncount(f) \/ CleanupUncount(f)
    PROVE  Members' = Members /\ Open' = Open
<1>1. clientList' = clientList /\ releasePc' = releasePc
  BY DEF CreateAdmitted, CreateLimit, CreateNoMemory, CreateUncount,
         CleanupUncount
<1> QED BY <1>1, Zenon DEF Members, Open

\* Each step of the library is a step of the abstract specification, or leaves
\* what that sees as it is.
LEMMA SlotsStep ==
    ASSUME FewFiles, IInv, IInv', [Next]_vars
    PROVE  [Slots!Next]_(Slots!vars)
<1>0. TypeOK /\ OutcomeInv /\ ReferenceInv /\ ListIntegrity
  BY DEF IInv
<1> DEFINE Places == Holding \cup Lost
<1>a. /\ activeClients = Cardinality(Places)
      /\ Places \in SUBSET Files
      /\ Cardinality(Places) \in Nat
  BY PlacesTaken, SomeFiles DEF IInv, CountAccounts
<1>b. ASSUME NEW f \in Files, filePc[f] \in InCreate \ {"leave"}
      PROVE  Open /\ f \notin Members
  BY <1>0, <1>b, MembersListed DEF OutcomeInv, InCreate, Listed
<1>1. ASSUME NEW f \in Files, CreateAdmitted(f) PROVE Slots!Take(f)
  <2>1. /\ f \notin Holding \cup Lost
        /\ Holding' = Holding \cup {f} /\ Lost' = Lost
    BY <1>0, <1>1, PlaceTaken
  <2>2. Open /\ f \notin Members
    BY <1>1, <1>b, MembersListed DEF CreateAdmitted, InCreate, Listed, OutcomeInv
  <2>3. Members' = Members /\ Open' = Open
    BY <1>1, Unmoved
  <2>4. Cardinality(Holding \cup Lost) < MaxClients
    <3>1. /\ activeClients' = Increment(activeClients)
          /\ Increment(activeClients) =< MaxClients
      BY <1>1 DEF CreateAdmitted, WithinLimit
    <3>2. Places' = Places \cup {f} /\ Places' \in SUBSET Files
      BY <2>1 DEF Holding, Lost
    <3>3. activeClients' = Cardinality(Places')
      BY PlacesTaken DEF IInv, CountAccounts, Holding, Lost
    <3>4. Cardinality(Places') = Cardinality(Places) + 1
      BY <1>a, <2>1, <3>2, OneMore
    <3> HIDE DEF Places
    <3>5. Cardinality(Places) < MaxClients
      BY <1>a, <3>1, <3>3, <3>4
    <3> QED BY <3>5 DEF Places
  <2>5. f \notin Holding \cup Lost \cup Members
    BY <2>1, <2>2
  <2> QED
    BY <2>1, <2>2, <2>3, <2>4, <2>5, SlotsCardinality, Zenon
       DEF Slots!Take, Slots!Outside, Slots!SlotFree, Holding, Lost, Members,
           Open
<1>2. ASSUME NEW f \in Files, CreateLimit(f) PROVE Slots!Refuse(f)
  <2>1. /\ f \notin Holding \cup Lost
        /\ Holding' = Holding /\ Lost' = Lost \cup {f}
    BY <1>0, <1>2, PlaceRefused
  <2>2. Open /\ f \notin Members
    BY <1>2, <1>b DEF CreateLimit, InCreate
  <2>3. Members' = Members /\ Open' = Open
    BY <1>2, Unmoved
  <2>4. ~(Cardinality(Holding \cup Lost) < MaxClients)
    <3>1. ~(Increment(activeClients) =< MaxClients)
      BY <1>2 DEF CreateLimit, WithinLimit
    <3>2. activeClients \in Int /\ Increment(activeClients) =< activeClients + 1
      BY <1>a DEF Increment
    <3> HIDE DEF Places
    <3>3. ~(Cardinality(Places) < MaxClients)
      BY <1>a, <3>1, <3>2 DEF Increment
    <3> QED BY <3>3 DEF Places
  <2>5. f \notin Holding \cup Lost \cup Members
    BY <2>1, <2>2
  <2> QED
    BY <2>1, <2>2, <2>3, <2>4, <2>5, SlotsCardinality, Zenon
       DEF Slots!Refuse, Slots!Outside, Slots!SlotFree, Holding, Lost,
           Members, Open
<1>3. ASSUME NEW f \in Files, CreateNoMemory(f) PROVE Slots!Lose(f)
  <2>1. /\ f \in Holding
        /\ Holding' = Holding \ {f} /\ Lost' = Lost \cup {f}
    BY <1>0, <1>3, PlaceLost
  <2>2. Open /\ f \notin Members
    BY <1>3, <1>b DEF CreateNoMemory, InCreate
  <2>3. Members' = Members /\ Open' = Open
    BY <1>3, Unmoved
  <2>4. f \in Holding \ Members
    BY <2>1, <2>2
  <2> QED
    BY <2>1, <2>2, <2>3, <2>4, Zenon
       DEF Slots!Lose, Holding, Lost, Members, Open
<1>4. ASSUME NEW f \in Files, CreateUncount(f) \/ CleanupUncount(f)
      PROVE  Slots!GiveBack(f)
  <2>1. f \in Holding /\ Holding' = Holding \ {f} /\ Lost' = Lost
    BY <1>0, <1>4, PlaceGivenBack
  <2>2. Open \/ f \in Members
    <3>1. CASE CreateUncount(f)
      BY <3>1, <1>b DEF CreateUncount, InCreate
    <3>2. CASE CleanupUncount(f)
      BY <1>0, <3>2, MembersListed
         DEF CleanupUncount, OutcomeInv, InCleanup, Listed
    <3> QED BY <1>4, <3>1, <3>2
  <2>3. Members' = Members /\ Open' = Open
    BY <1>4, Unmoved
  <2> QED
    BY <2>1, <2>2, <2>3, Zenon
       DEF Slots!GiveBack, Holding, Lost, Members, Open
<1>5. ASSUME NEW f \in Files, CreateAdd(f) PROVE Slots!Accept(f)
  <2>1. /\ f \in Holding /\ ~Placing(f)
        /\ \A g \in Files : ~Placing(g)
    BY <1>0, <1>5
       DEF Holding, Admitted, CreateAdd, Placing, CreateAdmitted, CreateLimit,
           CreateNoMemory, CreateUncount, CleanupUncount, Goto, TypeOK
  <2>2. Holding' = Holding /\ Lost' = Lost
    BY <1>0, <1>5, <2>1, PlacesKept DEF Next, CreateStep
  <2>3. Open /\ f \notin Members
    BY <1>5, <1>b DEF CreateAdd, InCreate
  <2>4. Members' = Members \cup {f}
    <3>1. clientList' = Append(clientList, f) /\ clientList \in Seq(Files)
      BY <1>0, <1>5 DEF CreateAdd, TypeOK
    <3>2. ToSet(Append(clientList, f)) = ToSet(clientList) \cup {f}
      BY <1>0, <2>3, <3>1, AppendElement DEF ListIntegrity, Members
    <3> QED BY <3>1, <3>2 DEF Members
  <2>5. releasePc' = releasePc
    BY <1>5 DEF CreateAdd
  <2>6. f \in Holding \ Members
    BY <2>1, <2>3
  <2> QED
    BY <2>2, <2>3, <2>4, <2>5, <2>6, Zenon
       DEF Slots!Accept, Holding, Lost, Members, Open
<1>6. ASSUME NEW f \in Files, CloseRequest(f) PROVE Slots!Forget(f)
  <2>1. /\ f \notin Holding
        /\ \A g \in Files : ~Placing(g)
    BY <1>0, <1>6
       DEF Holding, Admitted, Connected, CloseRequest, Placing, CreateAdmitted,
           CreateLimit, CreateNoMemory, CreateUncount, CleanupUncount, Goto,
           TypeOK
  <2>2. Holding' = Holding /\ Lost' = Lost
    BY <1>0, <1>6, <2>1, PlacesKept DEF Next, CleanupStep
  <2>3. f \in Members
    BY <1>0, <1>6, MembersListed DEF CloseRequest, OutcomeInv, Listed
  <2>4. Members' = Members \ {f}
    <3>1. clientList' = Removed(clientList, f) /\ clientList \in Seq(Files)
      BY <1>0, <1>6 DEF CloseRequest, ListRemove, Removed, TypeOK
    <3>2. ToSet(Removed(clientList, f)) = ToSet(clientList) \ {f}
      BY <1>0, <2>3, <3>1, RemoveOnly DEF ListIntegrity, Members
    <3> QED BY <3>1, <3>2 DEF Members
  <2>5. releasePc' = releasePc
    BY <1>6 DEF CloseRequest
  <2>6. f \in Members \ Holding
    BY <2>1, <2>3
  <2> QED
    BY <2>2, <2>4, <2>5, <2>6, Zenon
       DEF Slots!Forget, Holding, Lost, Members, Open
<1>7. ASSUME LibraryRundownDone PROVE Slots!Shut
  <2>1. \A g \in Files : ~Placing(g)
    BY <1>7 DEF LibraryRundownDone, Placing, CreateAdmitted, CreateLimit,
                CreateNoMemory, CreateUncount, CleanupUncount
  <2>2. Holding' = Holding /\ Lost' = Lost
    BY <1>0, <1>7, <2>1, PlacesKept DEF Next, ReleaseStep
  <2>3. Members' = Members
    BY <1>7 DEF LibraryRundownDone, Members
  <2>4. releasePc = "wait" /\ releasePc' = "lock"
    BY <1>7 DEF LibraryRundownDone
  <2>5. Open = TRUE /\ Open' = FALSE
    BY <2>4 DEF Open
  <2>6. Holding \subseteq Members
    <3>1. Inside = {}
      <4>1. libRundown.count = 0
        BY <1>7, Zenon DEF LibraryRundownDone, RundownReleased
      <4> QED BY <1>0, <4>1, SomeFiles, PlacesTaken DEF ReferenceInv
    <3> QED BY <1>0, <3>1, MembersListed
            DEF Inside, InCreate, Holding, Admitted, Connected, Listed
  <2> QED
    BY <2>2, <2>3, <2>5, <2>6, Zenon
       DEF Slots!Shut, Holding, Lost, Members, Open
<1>8. ASSUME \A f \in Files : /\ ~Placing(f)
                             /\ ~CreateAdd(f) /\ ~CloseRequest(f),
             ~LibraryRundownDone, Next
      PROVE  UNCHANGED Slots!vars
  <2>1. Holding' = Holding /\ Lost' = Lost
    BY <1>0, <1>8, PlacesKept
  <2>2. clientList' = clientList
    BY <1>0, <1>8, ListUntouched
  <2>3. Open' = Open
    BY <1>8
       DEF Open, Next, Create, MayCreate, CreateInvalid, CreateRefused,
           CreateEnter, CreateStep, Placing, CreateClient, ConnectRejected,
           ConnectAccepted, CreateLeave, StartCleanup, CleanupStep,
           CleanupDisconnect, CleanupDrained, CleanupNotify, CleanupNotified,
           CleanupSkipNotify, StartRelease, ReleaseStep, LockClientList,
           ReleaseDisconnect, ReleaseDrained, ReleaseNotify,
           UnlockClientList, Terminated, vars
  <2> QED BY <2>1, <2>2, <2>3, Zenon
          DEF Slots!vars, Holding, Lost, Members, Open
<1>9. CASE UNCHANGED vars
  <2>1. Holding' = Holding /\ Lost' = Lost
    BY <1>9 DEF vars, Holding, Lost, Admitted, Connected, Leaked
  <2>2. clientList' = clientList /\ releasePc' = releasePc
    BY <1>9 DEF vars
  <2> QED BY <2>1, <2>2, Zenon DEF Slots!vars, Holding, Lost
<1>10. CASE Next
  <2>1. CASE \A f \in Files : ~Placing(f) /\ ~CreateAdd(f) /\ ~CloseRequest(f)
    BY <1>7, <1>8, <1>10, <2>1, Zenon DEF Slots!Next
  <2>2. ASSUME NEW f \in Files, Placing(f) \/ CreateAdd(f) \/ CloseRequest(f)
        PROVE  Slots!Next
    BY <1>1, <1>2, <1>3, <1>4, <1>5, <1>6, <2>2, Zenon DEF Slots!Next, Placing
  <2> QED BY <2>1, <2>2
<1> QED BY <1>9, <1>10

\* The library keeps the books of its places as ClientSlots says.
THEOREM LibraryImplementsSlots ==
    ASSUME FewFiles
    PROVE  Spec => ImplementsSlots
<1>1. Init => Slots!Init
  BY SlotsInit
<1>2. IInv /\ IInv' /\ [Next]_vars => [Slots!Next]_(Slots!vars)
  BY SlotsStep
<1> QED BY <1>1, <1>2, LibraryInvariant, PTL
        DEF Spec, ImplementsSlots, Slots!Spec
-----------------------------------------------------------------------------
(***************************************************************************)
(* Why the handlers and NdfCommRelease come to their end.  That they do,   *)
(* under fairness, is for TLC; that nothing turns back and that no two     *)
(* wait for each other is proved.                                          *)
(***************************************************************************)
\* How far the requests of a file object are.
StageOf(label) ==
    CASE label = "idle" -> 0
      [] label = "count" -> 1
      [] label = "make" -> 2
      [] label = "connect" -> 3
      [] label \in {"uncount", "add"} -> 4
      [] label = "leave" -> 5
      [] label = "open" -> 6
      [] label = "disconnect" -> 7
      [] label = "drain" -> 8
      [] label = "notify" -> 9
      [] label = "notifying" -> 10
      [] label = "told" -> 11
      [] label = "cleaned" -> 12
      [] OTHER -> 13

\* How far NdfCommRelease is, and with one client of the list.
InWalk == {"disconnect", "drain", "notify"}
ReleaseStageOf(label) ==
    CASE label = "idle" -> 0
      [] label = "wait" -> 1
      [] label = "lock" -> 2
      [] label \in InWalk -> 3
      [] label = "unlock" -> 4
      [] OTHER -> 5
WalkOf(label) ==
    CASE label = "disconnect" -> 0
      [] label = "drain" -> 1
      [] OTHER -> 2

FileMovesOn(f) ==
    /\ StageOf(filePc'[f]) > StageOf(filePc[f])
    /\ \A g \in Files \ {f} : filePc'[g] = filePc[g]
    /\ UNCHANGED <<releasePc, cursor>>
ReleaseMovesOn ==
    /\ UNCHANGED filePc
    /\ ReleaseStageOf(releasePc') > ReleaseStageOf(releasePc)
ReleaseWalksOn ==
    /\ UNCHANGED <<filePc, clientList>>
    /\ releasePc \in InWalk /\ releasePc' \in InWalk
    /\ \/ cursor' = cursor /\ WalkOf(releasePc') > WalkOf(releasePc)
       \/ cursor' = cursor + 1 /\ cursor' \in 1 .. Len(clientList)

\* Every step brings one file object, or NdfCommRelease, further, and the
\* latter takes at most three steps with each client of a list that nobody
\* changes meanwhile.
OneMovesOn ==
    (\E f \in Files : FileMovesOn(f)) \/ ReleaseMovesOn \/ ReleaseWalksOn

\* A step of a handler.
LEMMA FilesMoveOn ==
    ASSUME TypeOK, NEW f \in Files,
           Create(f) \/ CreateStep(f) \/ StartCleanup(f) \/ CleanupStep(f)
    PROVE  FileMovesOn(f)
<1>0. filePc \in [Files -> {"idle", "failed", "open", "cleaned", "closed"}
                           \cup InCreate \cup InCleanup]
  BY DEF TypeOK
<1>1. UNCHANGED <<releasePc, cursor>>
  BY DEF Create, CreateStep, StartCleanup, CleanupStep, CreateInvalid,
         CreateRefused, CreateEnter, CreateAdmitted, CreateLimit,
         CreateNoMemory, CreateClient, ConnectRejected, CreateUncount,
         ConnectAccepted, CreateAdd, CreateLeave, CleanupDisconnect,
         CleanupDrained, CleanupNotify, CleanupNotified, CleanupSkipNotify,
         CleanupUncount, CloseRequest
<1>2. \/ filePc[f] = "idle" /\ Goto(f, "failed")
      \/ filePc[f] = "idle" /\ Goto(f, "count")
      \/ filePc[f] = "count" /\ Goto(f, "make")
      \/ filePc[f] = "count" /\ Goto(f, "leave")
      \/ filePc[f] = "make" /\ Goto(f, "leave")
      \/ filePc[f] = "make" /\ Goto(f, "connect")
      \/ filePc[f] = "connect" /\ Goto(f, "uncount")
      \/ filePc[f] = "connect" /\ Goto(f, "add")
      \/ filePc[f] = "uncount" /\ Goto(f, "leave")
      \/ filePc[f] = "add" /\ Goto(f, "leave")
      \/ filePc[f] = "leave" /\ Goto(f, "open")
      \/ filePc[f] = "leave" /\ Goto(f, "failed")
      \/ filePc[f] = "open" /\ Goto(f, "disconnect")
      \/ filePc[f] = "disconnect" /\ Goto(f, "drain")
      \/ filePc[f] = "disconnect" /\ Goto(f, "notify")
      \/ filePc[f] = "drain" /\ Goto(f, "notify")
      \/ filePc[f] = "notify" /\ Goto(f, "notifying")
      \/ filePc[f] = "notify" /\ Goto(f, "told")
      \/ filePc[f] = "notifying" /\ Goto(f, "told")
      \/ filePc[f] = "told" /\ Goto(f, "cleaned")
      \/ filePc[f] = "cleaned" /\ Goto(f, "closed")
  BY DEF Create, CreateStep, StartCleanup, CleanupStep, CreateInvalid,
         CreateRefused, CreateEnter, CreateAdmitted, CreateLimit,
         CreateNoMemory, CreateClient, ConnectRejected, CreateUncount,
         ConnectAccepted, CreateAdd, CreateLeave, CleanupDisconnect,
         CleanupDrained, CleanupNotify, CleanupNotified, CleanupSkipNotify,
         CleanupUncount, CloseRequest, MayCreate
<1>3. StageOf(filePc'[f]) > StageOf(filePc[f])
  BY <1>0, <1>2 DEF Goto, StageOf
<1>4. \A g \in Files \ {f} : filePc'[g] = filePc[g]
  BY <1>0, <1>2 DEF Goto
<1> QED BY <1>1, <1>3, <1>4 DEF FileMovesOn

\* A step of NdfCommRelease.
LEMMA ReleaseGoesOn ==
    ASSUME TypeOK, CursorInv, StartRelease \/ ReleaseStep
    PROVE  ReleaseMovesOn \/ ReleaseWalksOn
<1>0. cursor \in Nat \ {0} /\ clientList \in Seq(Files)
  BY DEF TypeOK
<1>1. UNCHANGED <<filePc, clientList>>
  BY DEF StartRelease, ReleaseStep, LibraryRundownDone, LockClientList,
         ReleaseDisconnect, ReleaseDrained, ReleaseNotify, UnlockClientList
<1>2. \/ releasePc = "idle" /\ releasePc' = "wait"
      \/ releasePc = "wait" /\ releasePc' = "lock"
      \/ releasePc = "lock" /\ releasePc' \in {"unlock", "disconnect"}
      \/ releasePc = "notify" /\ releasePc' = "unlock"
      \/ releasePc = "unlock" /\ releasePc' = "done"
      \/ /\ releasePc = "disconnect" /\ releasePc' \in {"notify", "drain"}
         /\ cursor' = cursor
      \/ releasePc = "drain" /\ releasePc' = "notify" /\ cursor' = cursor
      \/ /\ releasePc = "notify" /\ releasePc' = "disconnect"
         /\ cursor' = cursor + 1 /\ cursor # Len(clientList)
  BY DEF StartRelease, ReleaseStep, LibraryRundownDone, LockClientList,
         ReleaseDisconnect, ReleaseDrained, ReleaseNotify, UnlockClientList
<1>3. releasePc = "notify" => cursor \in 1 .. Len(clientList)
  BY DEF CursorInv
<1>4. CASE \/ releasePc = "idle" /\ releasePc' = "wait"
           \/ releasePc = "wait" /\ releasePc' = "lock"
           \/ releasePc = "lock" /\ releasePc' \in {"unlock", "disconnect"}
           \/ releasePc = "notify" /\ releasePc' = "unlock"
           \/ releasePc = "unlock" /\ releasePc' = "done"
  BY <1>1, <1>4 DEF ReleaseMovesOn, ReleaseStageOf, InWalk
<1>5. CASE \/ /\ releasePc = "disconnect" /\ releasePc' \in {"notify", "drain"}
              /\ cursor' = cursor
           \/ releasePc = "drain" /\ releasePc' = "notify" /\ cursor' = cursor
  BY <1>1, <1>5 DEF ReleaseWalksOn, WalkOf, InWalk
<1>6. CASE /\ releasePc = "notify" /\ releasePc' = "disconnect"
           /\ cursor' = cursor + 1 /\ cursor # Len(clientList)
  BY <1>0, <1>1, <1>3, <1>6 DEF ReleaseWalksOn, InWalk
<1> QED BY <1>2, <1>4, <1>5, <1>6

\* No handler and no release ever goes back, whatever fails and however they
\* interleave: a file object takes at most thirteen steps, NdfCommRelease five
\* and three for each client of the list (NdfCommRelease,
\* NdfCommpDisconnectAllClients and the IRP handlers).
THEOREM NothingTurnsBack == ASSUME FewFiles PROVE Spec => [][OneMovesOn]_vars
<1>1. ASSUME IInv, [Next]_vars PROVE OneMovesOn \/ UNCHANGED vars
  BY <1>1, FilesMoveOn, ReleaseGoesOn DEF Next, Terminated, OneMovesOn, IInv
<1> QED BY <1>1, LibraryInvariant, PTL DEF Spec

\* Nothing the file object needs for its next step is missing.
CanGoOn(f) == filePc[f] \in {"add", "cleaned"} => ListFree

\* While NdfCommRelease waits for the library's rundown reference everybody it
\* waits for can go on by himself, the one that needs the list lock included;
\* and when it has the list lock no create request is left that would want it.
WaitersAreServed ==
    /\ releasePc = "wait" /\ ~RundownReleased(libRundown) =>
           Inside # {} /\ \A f \in Inside : CanGoOn(f)
    /\ ~ListFree => \A f \in Files : filePc[f] # "add"

\* No circular wait between NdfCommRelease, which waits for the rundown of the
\* library and then takes the list lock, and the handlers, of which the create
\* handler takes the list lock inside the rundown protection (NdfCommRelease).
THEOREM NobodyWaitsInACircle ==
    ASSUME FewFiles
    PROVE  Spec => []WaitersAreServed
<1>1. ASSUME IInv PROVE WaitersAreServed
  <2>0. ReferenceInv /\ TypeOK
    BY <1>1 DEF IInv
  <2>1. ASSUME releasePc = "wait", ~RundownReleased(libRundown)
        PROVE  Inside # {} /\ \A f \in Inside : CanGoOn(f)
    <3>1. libRundown.active
      BY <2>0, <2>1 DEF ReferenceInv
    <3>2. libRundown.count # 0
      BY <2>1, <3>1 DEF RundownReleased
    <3>3. Inside # {}
      BY <2>0, <3>2, FS_EmptySet DEF ReferenceInv
    <3> QED BY <2>1, <3>3 DEF CanGoOn, ListFree
  <2>2. ASSUME ~ListFree, NEW f \in Files PROVE filePc[f] # "add"
    BY <2>0, <2>2 DEF ListFree, ReferenceInv, Inside, InCreate
  <2> QED BY <2>1, <2>2 DEF WaitersAreServed
<1> QED BY <1>1, LibraryInvariant, PTL

\* As long as no open has failed with its place kept, an open is refused for
\* the limit only while MaxClients others hold a place.
FirstRefusal ==
    \A f \in Files :
        /\ outcome[f] = "none" /\ outcome'[f] = "limit"
        /\ \A g \in Files : ~Leaked(g)
        => Cardinality({g \in Files : Admitted(g)}) >= MaxClients

\* What RefusedOnlyWhenFull wants, and the code does not give in general, does
\* hold up to the first refusal or failed allocation: the places those keep
\* are all that is wrong with the count (NdfCommpProcessCreateRequest).
THEOREM FirstRefusalIsRight ==
    ASSUME FewFiles
    PROVE  Spec => [][FirstRefusal]_vars
<1>1. ASSUME FewFiles, IInv, Next PROVE FirstRefusal
  <2> SUFFICES ASSUME NEW f \in Files, outcome[f] = "none",
                      outcome'[f] = "limit", \A g \in Files : ~Leaked(g)
               PROVE  Cardinality(Holding) >= MaxClients
    BY DEF FirstRefusal, Holding
  <2>0. TypeOK /\ CountAccounts
    BY <1>1 DEF IInv
  <2>1. CreateLimit(f)
    BY <1>1, <2>0
       DEF Next, Create, CreateInvalid, CreateRefused, CreateEnter,
           CreateStep, CreateAdmitted, CreateLimit, CreateNoMemory,
           CreateClient, ConnectRejected, CreateUncount, ConnectAccepted,
           CreateAdd, CreateLeave, StartCleanup, CleanupStep,
           CleanupDisconnect, CleanupDrained, CleanupNotify, CleanupNotified,
           CleanupSkipNotify, CleanupUncount, CloseRequest, StartRelease,
           ReleaseStep, LibraryRundownDone, LockClientList,
           ReleaseDisconnect, ReleaseDrained, ReleaseNotify,
           UnlockClientList, Terminated, vars, End, TypeOK
  <2>2. Lost = {}
    BY DEF Lost
  <2>3. activeClients = Cardinality(Holding)
    BY <2>0, <2>2, PlacesTaken DEF CountAccounts
  <2>4. f \notin Holding
    BY <2>0, <2>1, PlacesTaken
       DEF CreateLimit, Holding, Admitted, Connected, TypeOK
  <2>5. Cardinality(Holding) \in Nat /\ Cardinality(Holding) < LongMax
    <3>1. Cardinality(Holding \cup {f}) = Cardinality(Holding) + 1
      BY <2>4, OneMore, PlacesTaken
    <3>2. Holding \cup {f} \in SUBSET Files
      BY PlacesTaken
    <3>3. Cardinality(Holding \cup {f}) =< Cardinality(Files)
      BY <3>2, SomeFiles
    <3>4. Cardinality(Files) =< LongMax /\ Cardinality(Files) \in Nat
      BY <1>1, <3>2, SomeFiles DEF FewFiles
    <3>5. Cardinality(Holding) \in Nat
      BY SomeFiles, PlacesTaken
    <3> QED BY <3>1, <3>3, <3>4, <3>5
  <2>6. ~(Increment(activeClients) =< MaxClients)
    BY <2>1 DEF CreateLimit, WithinLimit
  <2>7. Increment(activeClients) = Cardinality(Holding) + 1
    BY <2>3, <2>5 DEF Increment
  <2> QED BY <2>5, <2>6, <2>7
<1>2. ASSUME UNCHANGED vars PROVE FirstRefusal
  BY <1>2 DEF vars, FirstRefusal
<1> QED BY <1>1, <1>2, LibraryInvariant, PTL DEF Spec
=============================================================================
