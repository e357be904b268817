---------------------------- MODULE ClientAppProofs ----------------------------
(***************************************************************************)
(* The client application for every number of processes, of failing calls  *)
(* and of kills: what runs of it leave behind in the service manager.      *)
(***************************************************************************)
EXTENDS ClientApp, TLAPS

USE AppsAssumption, MishapsAssumption
USE DEF Keep, Goto

-----------------------------------------------------------------------------
(***************************************************************************)
(* The inductive invariant.                                                *)
(***************************************************************************)
\* An entry that is gone keeps nothing, a stopped driver has no device, and
\* the manager has nothing left to do.
Coherent(s) ==
    /\ ~s.registered => /\ ~s.marked /\ s.driver = "stopped"
                        /\ \A a \in Apps : s.handles[a] = 0
    /\ s.driver = "stopped" => s.files = {}
Quiet(s) ==
    /\ s.driver = "stopping" => s.files # {}
    /\ s.marked /\ s.driver = "stopped" => \E a \in Apps : s.handles[a] > 0
Sound(s) == s \in Entry(Apps) /\ Coherent(s)
Whole(s) == Sound(s) /\ Quiet(s)

\* What a process has open, by its position.
Holding == {"query", "answered", "unanswered", "control", "mark", "created",
            "start"}
Installing == {"path", "create", "created", "open", "start", "connect", "talk",
               "pause"}
ProcessInv ==
    \A a \in Apps :
        /\ pc[a] \in Holding => svc.handles[a] > 0
        /\ ~Running(a) => svc.handles[a] = 0
        /\ a \in svc.files => pc[a] \in {"talk", "pause"}
        /\ pc[a] \in Installing \cup {"privileges", "idle"} =>
               phase[a] = "install"

\* Who will still stop the driver, and who will delete the service, if no call
\* fails and nobody is killed.
WillStop(a) ==
    \/ Running(a) /\ pc[a] \notin {"unanswered", "mark", "exit"}
    \/ pc[a] = "mark" /\ phase[a] = "install"
WillDelete(a) == Running(a) /\ pc[a] \notin {"unanswered", "exit"}

\* A driver that runs and a service that is not marked have somebody who will
\* see to them ...
DutyInv ==
    failures = 0 /\ kills = 0 =>
        /\ svc.driver = "running" => \E a \in Apps : WillStop(a)
        /\ svc.registered /\ ~svc.marked => \E a \in Apps : WillDelete(a)

\* ... and an undisturbed process does it itself.
CleanInv ==
    \A a \in Apps :
        clean[a] /\ Running(a) =>
            /\ \A b \in Apps : Running(b) => b = a
            /\ svc.driver = "running" => WillStop(a)
            /\ svc.registered /\ ~svc.marked => WillDelete(a)

IInv == TypeOK /\ Whole(svc) /\ ProcessInv /\ DutyInv /\ CleanInv

-----------------------------------------------------------------------------
(***************************************************************************)
(* The service manager.                                                    *)
(***************************************************************************)
\* u needs nobody to stop its driver or to delete it who s did not need.
NoMoreDuty(s, u) ==
    /\ u.driver = "running" => s.driver = "running"
    /\ u.registered /\ ~u.marked => s.registered /\ ~s.marked

\* Settling keeps handles and files and leaves nothing to settle.
LEMMA SettledWhole ==
    ASSUME NEW s, Sound(s)
    PROVE  /\ Whole(Settled(s)) /\ NoMoreDuty(s, Settled(s))
           /\ Settled(s).handles = s.handles /\ Settled(s).files = s.files
           /\ s.driver # "stopping" => Settled(s).driver = s.driver
           /\ s.driver = "stopping" => Settled(s).driver # "running"
<1> DEFINE driver == IF s.driver = "stopping" /\ s.files = {} THEN "stopped"
                     ELSE s.driver
           gone == s.marked /\ driver = "stopped"
                   /\ \A a \in DOMAIN s.handles : s.handles[a] = 0
           u == Settled(s)
<1>1. /\ s.handles \in [Apps -> Nat] /\ DOMAIN s.handles = Apps
      /\ s.files \in SUBSET Apps
      /\ s.driver \in {"stopped", "running", "stopping"}
      /\ s.registered \in BOOLEAN /\ s.marked \in BOOLEAN
      /\ s.full \in BOOLEAN
  BY DEF Sound, Entry
<1>2. u = [s EXCEPT !.driver = driver, !.registered = @ /\ ~gone,
                    !.marked = @ /\ ~gone, !.full = @ /\ driver # "stopped"]
  BY DEF Settled
<1>3. /\ u.handles = s.handles /\ u.files = s.files /\ u.driver = driver
      /\ u.registered = (s.registered /\ ~gone)
      /\ u.marked = (s.marked /\ ~gone)
  BY <1>2 DEF Sound, Entry
<1>4. u \in Entry(Apps)
  <2> HIDE DEF driver, gone
  <2>1. /\ driver \in {"stopped", "running", "stopping"}
        /\ gone \in BOOLEAN
    BY <1>1 DEF driver, gone
  <2>2. /\ (s.registered /\ ~gone) \in BOOLEAN
        /\ (s.marked /\ ~gone) \in BOOLEAN
        /\ (s.full /\ driver # "stopped") \in BOOLEAN
    OBVIOUS
  <2> HIDE DEF u
  <2> QED BY <1>2, <2>1, <2>2 DEF Sound, Entry
<1> HIDE DEF u
<1>5. Coherent(u)
  BY <1>1, <1>3 DEF Sound, Coherent
<1>6. Quiet(u)
  <2>1. ASSUME u.marked, u.driver = "stopped"
        PROVE  \E a \in Apps : u.handles[a] > 0
    <3>1. ~gone /\ s.marked
      BY <1>3, <2>1
    <3>2. PICK a \in Apps : s.handles[a] # 0
      BY <1>1, <1>3, <2>1, <3>1
    <3> QED BY <1>1, <1>3, <3>2
  <2>2. u.driver = "stopping" => u.files # {}
    BY <1>3
  <2> QED BY <2>1, <2>2 DEF Quiet
<1>7. NoMoreDuty(s, u)
  BY <1>1, <1>3 DEF NoMoreDuty
<1> QED
  BY <1>1, <1>3, <1>4, <1>5, <1>6, <1>7 DEF u, Whole, Sound

LEMMA HandleOpenedWhole ==
    ASSUME NEW s, Whole(s), s.registered, NEW a \in Apps
    PROVE  /\ Whole(HandleOpened(s, a)) /\ NoMoreDuty(s, HandleOpened(s, a))
           /\ HandleOpened(s, a).files = s.files
           /\ HandleOpened(s, a).handles = [s.handles EXCEPT ![a] = @ + 1]
<1> DEFINE u == HandleOpened(s, a)
<1>1. /\ s.handles \in [Apps -> Nat]
      /\ [s.handles EXCEPT ![a] = @ + 1] \in [Apps -> Nat]
  BY DEF Whole, Sound, Entry
<1>2. u = [s EXCEPT !.handles = [s.handles EXCEPT ![a] = @ + 1]]
  BY DEF HandleOpened, Whole, Sound, Entry
<1>3. /\ u \in Entry(Apps) /\ u.handles = [s.handles EXCEPT ![a] = @ + 1]
      /\ u.files = s.files /\ u.driver = s.driver
      /\ u.registered = s.registered /\ u.marked = s.marked
  BY <1>1, <1>2 DEF Whole, Sound, Entry
<1> HIDE DEF u
<1>4. Coherent(u)
  BY <1>3 DEF Whole, Sound, Coherent
<1>5. Quiet(u)
  <2>1. u.handles[a] > 0
    BY <1>1, <1>3
  <2> QED BY <1>3, <2>1 DEF Whole, Quiet
<1>6. NoMoreDuty(s, u)
  BY <1>3 DEF NoMoreDuty
<1> QED BY <1>3, <1>4, <1>5, <1>6 DEF u, Whole, Sound

LEMMA HandleClosedWhole ==
    ASSUME NEW s, Whole(s), NEW a \in Apps, s.handles[a] > 0
    PROVE  /\ Whole(HandleClosed(s, a)) /\ NoMoreDuty(s, HandleClosed(s, a))
           /\ HandleClosed(s, a).files = s.files
           /\ HandleClosed(s, a).handles = [s.handles EXCEPT ![a] = @ - 1]
<1> DEFINE u == [s EXCEPT !.handles[a] = @ - 1]
<1>1. /\ s.handles \in [Apps -> Nat]
      /\ [s.handles EXCEPT ![a] = @ - 1] \in [Apps -> Nat]
  BY DEF Whole, Sound, Entry
<1>2. u = [s EXCEPT !.handles = [s.handles EXCEPT ![a] = @ - 1]]
  BY DEF Whole, Sound, Entry
<1>3. /\ u \in Entry(Apps) /\ u.handles = [s.handles EXCEPT ![a] = @ - 1]
      /\ u.files = s.files /\ u.driver = s.driver
      /\ u.registered = s.registered /\ u.marked = s.marked
  BY <1>1, <1>2 DEF Whole, Sound, Entry
<1> HIDE DEF u
<1>4. s.registered
  BY DEF Whole, Sound, Coherent
<1>5. Sound(u)
  BY <1>3, <1>4 DEF Whole, Sound, Coherent
<1>6. NoMoreDuty(s, Settled(u))
  BY <1>3, <1>5, SettledWhole DEF NoMoreDuty
<1>7. HandleClosed(s, a) = Settled(u)
  BY DEF HandleClosed, u
<1> QED BY <1>3, <1>5, <1>6, <1>7, SettledWhole

\* The service is created with an open handle.
LEMMA CreatedWhole ==
    ASSUME NEW s, Whole(s), ~s.registered, NEW a \in Apps
    PROVE  /\ Whole(HandleOpened(Registered(s), a))
           /\ HandleOpened(Registered(s), a).files = s.files
           /\ HandleOpened(Registered(s), a).handles =
                  [s.handles EXCEPT ![a] = @ + 1]
           /\ HandleOpened(Registered(s), a).driver = s.driver
<1> DEFINE u == Registered(s)
<1>1. /\ u \in Entry(Apps) /\ u.handles = s.handles /\ u.files = s.files
      /\ u.driver = s.driver /\ u.registered /\ u.marked = s.marked
  BY DEF Registered, Whole, Sound, Entry
<1> HIDE DEF u
<1>2. Whole(u)
  BY <1>1 DEF Whole, Sound, Coherent, Quiet
<1>3. HandleOpened(u, a).driver = u.driver
  BY <1>1 DEF HandleOpened, Entry
<1> QED BY <1>1, <1>2, <1>3, HandleOpenedWhole DEF u

\* A service that was marked needs nobody to delete it.
LEMMA MarkedWhole ==
    ASSUME NEW s, Whole(s), s.registered
    PROVE  /\ Whole(Marked(s)) /\ NoMoreDuty(s, Marked(s))
           /\ ~(Marked(s).registered /\ ~Marked(s).marked)
           /\ Marked(s).files = s.files /\ Marked(s).handles = s.handles
<1> DEFINE u == [s EXCEPT !.marked = TRUE]
<1>1. /\ u \in Entry(Apps) /\ u.handles = s.handles /\ u.files = s.files
      /\ u.driver = s.driver /\ u.registered = s.registered /\ u.marked
  BY DEF Whole, Sound, Entry
<1> HIDE DEF u
<1>2. Sound(u)
  BY <1>1 DEF Whole, Sound, Coherent
<1>3. Marked(s) = Settled(u)
  BY DEF Marked, u
<1> QED BY <1>1, <1>2, <1>3, SettledWhole DEF NoMoreDuty

LEMMA StartedWhole ==
    ASSUME NEW s, Whole(s), MayStart(s)
    PROVE  /\ Whole(Started(s))
           /\ Started(s).files = s.files /\ Started(s).handles = s.handles
           /\ Started(s).registered = s.registered
           /\ Started(s).marked = s.marked
<1> DEFINE u == Started(s)
<1>1. /\ u \in Entry(Apps) /\ u.handles = s.handles /\ u.files = s.files
      /\ u.driver = "running" /\ u.registered = s.registered
      /\ u.marked = s.marked
  BY DEF Started, Whole, Sound, Entry
<1> HIDE DEF u
<1>2. Whole(u)
  BY <1>1 DEF MayStart, Whole, Sound, Coherent, Quiet
<1> QED BY <1>1, <1>2 DEF u

\* A driver that was told to stop needs nobody to stop it.
LEMMA StoppedWhole ==
    ASSUME NEW s, Whole(s), s.driver = "running"
    PROVE  /\ Whole(Stopped(s)) /\ NoMoreDuty(s, Stopped(s))
           /\ Stopped(s).driver # "running"
           /\ Stopped(s).files = s.files /\ Stopped(s).handles = s.handles
<1> DEFINE u == [s EXCEPT !.driver = "stopping"]
<1>1. /\ u \in Entry(Apps) /\ u.handles = s.handles /\ u.files = s.files
      /\ u.driver = "stopping" /\ u.registered = s.registered
      /\ u.marked = s.marked
  BY DEF Whole, Sound, Entry
<1> HIDE DEF u
<1>2. Sound(u)
  BY <1>1 DEF Whole, Sound, Coherent
<1>3. Stopped(s) = Settled(u)
  BY DEF Stopped, u
<1> QED BY <1>1, <1>2, <1>3, SettledWhole DEF NoMoreDuty

LEMMA FileOpenedWhole ==
    ASSUME NEW s, Whole(s), s.driver = "running", NEW a \in Apps
    PROVE  /\ Whole(FileOpened(s, a)) /\ NoMoreDuty(s, FileOpened(s, a))
           /\ FileOpened(s, a).files = s.files \cup {a}
           /\ FileOpened(s, a).handles = s.handles
<1> DEFINE u == FileOpened(s, a)
<1>1. /\ u \in Entry(Apps) /\ u.handles = s.handles
      /\ u.files = s.files \cup {a} /\ u.driver = s.driver
      /\ u.registered = s.registered /\ u.marked = s.marked
  BY DEF FileOpened, Whole, Sound, Entry
<1> HIDE DEF u
<1>2. Whole(u) /\ NoMoreDuty(s, u)
  BY <1>1 DEF NoMoreDuty, Whole, Sound, Coherent, Quiet
<1> QED BY <1>1, <1>2 DEF u

\* A place that is kept by nobody is no matter of the manager's.
LEMMA PlaceKeptWhole ==
    ASSUME NEW s, Whole(s)
    PROVE  /\ Whole(PlaceKept(s)) /\ NoMoreDuty(s, PlaceKept(s))
           /\ PlaceKept(s).files = s.files
           /\ PlaceKept(s).handles = s.handles
<1> DEFINE u == PlaceKept(s)
<1>1. /\ u \in Entry(Apps) /\ u.handles = s.handles /\ u.files = s.files
      /\ u.driver = s.driver /\ u.registered = s.registered
      /\ u.marked = s.marked
  BY DEF PlaceKept, Whole, Sound, Entry
<1> HIDE DEF u
<1>2. Whole(u) /\ NoMoreDuty(s, u)
  BY <1>1 DEF NoMoreDuty, Whole, Sound, Coherent, Quiet
<1> QED BY <1>1, <1>2 DEF u

LEMMA FileClosedWhole ==
    ASSUME NEW s, Whole(s), NEW a \in Apps
    PROVE  /\ Whole(FileClosed(s, a)) /\ NoMoreDuty(s, FileClosed(s, a))
           /\ FileClosed(s, a).files = s.files \ {a}
           /\ FileClosed(s, a).handles = s.handles
<1> DEFINE u == [s EXCEPT !.files = @ \ {a}]
<1>1. /\ u \in Entry(Apps) /\ u.handles = s.handles
      /\ u.files = s.files \ {a} /\ u.driver = s.driver
      /\ u.registered = s.registered /\ u.marked = s.marked
  BY DEF Whole, Sound, Entry
<1> HIDE DEF u
<1>2. Sound(u)
  BY <1>1 DEF Whole, Sound, Coherent
<1>3. FileClosed(s, a) = Settled(u)
  BY DEF FileClosed, u
<1> QED BY <1>1, <1>2, <1>3, SettledWhole DEF NoMoreDuty

LEMMA ProcessGoneWhole ==
    ASSUME NEW s, Whole(s), NEW a \in Apps
    PROVE  /\ Whole(ProcessGone(s, a)) /\ NoMoreDuty(s, ProcessGone(s, a))
           /\ ProcessGone(s, a).files = s.files \ {a}
           /\ ProcessGone(s, a).handles = [s.handles EXCEPT ![a] = 0]
<1> DEFINE u == [s EXCEPT !.handles[a] = 0, !.files = @ \ {a}]
<1>1. /\ s.handles \in [Apps -> Nat]
      /\ [s.handles EXCEPT ![a] = 0] \in [Apps -> Nat]
      /\ s.files \ {a} \in SUBSET Apps
  BY DEF Whole, Sound, Entry
<1>2. u = [s EXCEPT !.handles = [s.handles EXCEPT ![a] = 0],
                    !.files = s.files \ {a}]
  BY DEF Whole, Sound, Entry
<1>3. /\ u \in Entry(Apps) /\ u.handles = [s.handles EXCEPT ![a] = 0]
      /\ u.files = s.files \ {a} /\ u.driver = s.driver
      /\ u.registered = s.registered /\ u.marked = s.marked
  BY <1>1, <1>2 DEF Whole, Sound, Entry
<1> HIDE DEF u
<1>4. Sound(u)
  BY <1>1, <1>3 DEF Whole, Sound, Coherent
<1>5. ProcessGone(s, a) = Settled(u)
  BY DEF ProcessGone, u
<1> QED BY <1>3, <1>4, <1>5, SettledWhole DEF NoMoreDuty

-----------------------------------------------------------------------------
(***************************************************************************)
(* A call of a process, seen from the process itself and from the others.  *)
(***************************************************************************)
\* The manager stays whole, and what the process has open fits its position.
Opens(a) ==
    /\ Whole(svc')
    /\ \A b \in Apps : b # a => svc'.handles[b] = svc.handles[b]
    /\ svc'.files \subseteq svc.files \cup {a}
    /\ pc'[a] \in Holding => svc'.handles[a] > 0
    /\ pc'[a] \in Over => svc'.handles[a] = 0
    /\ a \in svc'.files => pc'[a] \in {"talk", "pause"}

\* What still has to be done is left to the process itself, or was left to
\* others before, or the driver is about to stop.
LeavesDuty(a) ==
    /\ svc'.driver = "running" =>
           WillStop(a)' \/ (svc.driver = "running" /\ ~WillStop(a))
    /\ svc'.registered /\ ~svc'.marked =>
           \/ WillDelete(a)'
           \/ svc.registered /\ ~svc.marked /\ ~WillDelete(a)
           \/ svc.driver = "stopping" /\ pc[a] = "control"

LEMMA MainOpens ==
    ASSUME TypeOK, Whole(svc), ProcessInv, NEW a \in Apps, Main(a)
    PROVE  Opens(a)
<1> DEFINE Labels == {"idle", "privileges", "isrunning", "query", "answered",
                      "unanswered", "delete", "control", "mark", "path",
                      "create", "created", "open", "start", "connect", "talk",
                      "pause", "exit", "ended", "killed"}
<1>1. /\ pc \in [Apps -> Labels] /\ svc.handles \in [Apps -> Nat]
      /\ svc.files \in SUBSET Apps
      /\ pc[a] \in Holding => svc.handles[a] > 0
      /\ a \in svc.files => pc[a] \in {"talk", "pause"}
      /\ svc.handles[a] > 0 => svc.registered
  BY DEF TypeOK, ProcessInv, Whole, Sound, Coherent, Entry
<1> USE DEF Opens, Holding, Over, Fail
\* Most calls leave the manager as it is.
<1>2. ASSUME UNCHANGED svc, NEW label \in Labels \ (Holding \cup Over),
             pc' = [pc EXCEPT ![a] = label], label # "pause" => pc[a] # "pause",
             pc[a] = "talk" => label = "pause"
      PROVE  Opens(a)
  BY <1>1, <1>2
<1>3. CASE AdjustPrivileges(a) \/ BuildPath(a) \/ Talk(a)
  BY <1>2, <1>3 DEF AdjustPrivileges, BuildPath, Talk
\* Some open or close a handle.
<1>4. ASSUME Whole(svc'),
             \A b \in Apps : b # a => svc'.handles[b] = svc.handles[b],
             svc'.files = svc.files, pc[a] \notin {"talk", "pause"},
             NEW label \in Labels \ Over, pc' = [pc EXCEPT ![a] = label],
             label \in Holding => svc'.handles[a] > 0
      PROVE  Opens(a)
  BY <1>1, <1>4
<1>5. svc.handles[a] \in Nat
  BY <1>1
<1>6. ASSUME svc.registered, svc' = HandleOpened(svc, a),
             pc[a] \notin {"talk", "pause"},
             NEW label \in Labels \ Over, pc' = [pc EXCEPT ![a] = label]
      PROVE  Opens(a)
  <2>1. /\ Whole(svc') /\ svc'.files = svc.files
        /\ svc'.handles = [svc.handles EXCEPT ![a] = svc.handles[a] + 1]
    BY <1>6, HandleOpenedWhole
  <2>2. /\ \A b \in Apps : b # a => svc'.handles[b] = svc.handles[b]
        /\ svc'.handles[a] > 0
    BY <1>1, <1>5, <2>1
  <2> QED BY <1>4, <1>6, <2>1, <2>2
<1>7. ASSUME svc.handles[a] > 0, svc' = HandleClosed(svc, a),
             pc[a] \notin {"talk", "pause"},
             NEW label \in Labels \ (Over \cup Holding),
             pc' = [pc EXCEPT ![a] = label]
      PROVE  Opens(a)
  <2>1. /\ Whole(svc') /\ svc'.files = svc.files
        /\ svc'.handles = [svc.handles EXCEPT ![a] = svc.handles[a] - 1]
    BY <1>7, HandleClosedWhole
  <2>2. /\ \A b \in Apps : b # a => svc'.handles[b] = svc.handles[b]
        /\ svc'.handles[a] = svc.handles[a] - 1
    BY <1>1, <2>1
  <2> QED BY <1>4, <1>5, <1>7, <2>1, <2>2
<1>8. CASE IsRunningOpen(a)
  BY <1>2, <1>8, <1>6 DEF IsRunningOpen, NotInstalled
<1>9. CASE IsRunningQuery(a) \/ IsRunningClose(a)
  <2>1. CASE IsRunningQuery(a)
    BY <1>1, <1>4, <2>1 DEF IsRunningQuery
  <2>2. CASE IsRunningClose(a)
    BY <1>1, <1>7, <2>2 DEF IsRunningClose, NotInstalled
  <2> QED BY <1>9, <2>1, <2>2
<1>10. CASE DeleteOpen(a)
  BY <1>2, <1>10, <1>6 DEF DeleteOpen, NotDeleted
<1>11. CASE ControlStop(a)
  BY <1>1, <1>11, StoppedWhole DEF ControlStop, NotDeleted
<1>12. CASE DeleteMark(a)
  BY <1>1, <1>12, MarkedWhole DEF DeleteMark, Deleted, NotDeleted
<1>13. CASE CreateService(a)
  <2>1. CASE UNCHANGED svc /\ Goto(a, "pause")
    BY <1>2, <1>13, <2>1 DEF CreateService
  <2>2. CASE ~svc.registered /\ svc' = HandleOpened(Registered(svc), a)
             /\ Goto(a, "created")
    <3>1. /\ Whole(svc') /\ svc'.files = svc.files
          /\ svc'.handles = [svc.handles EXCEPT ![a] = svc.handles[a] + 1]
      BY <2>2, CreatedWhole
    <3>2. /\ \A b \in Apps : b # a => svc'.handles[b] = svc.handles[b]
          /\ svc'.handles[a] > 0
      BY <1>1, <1>5, <3>1
    <3> QED BY <1>13, <1>4, <2>2, <3>1, <3>2 DEF CreateService
  <2> QED BY <1>13, <2>1, <2>2 DEF CreateService
<1>14. CASE CreateClose(a)
  BY <1>1, <1>14, <1>7 DEF CreateClose
<1>15. CASE StartOpen(a)
  BY <1>2, <1>15, <1>6 DEF StartOpen
<1>16. CASE StartService(a)
  BY <1>1, <1>16, StartedWhole DEF StartService
<1>17. CASE Connect(a)
  <2>1. CASE MayConnect /\ svc' = FileOpened(svc, a) /\ Goto(a, "talk")
    BY <1>1, <1>17, <2>1, FileOpenedWhole DEF Connect, MayConnect
  <2>2. CASE PlaceTaken /\ Goto(a, "pause")
    BY <1>1, <1>17, <2>2, PlaceKeptWhole DEF Connect, PlaceTaken
  <2>3. CASE UNCHANGED svc /\ Goto(a, "pause")
    BY <1>2, <1>17, <2>3 DEF Connect
  <2> QED BY <1>17, <2>1, <2>2, <2>3 DEF Connect
<1>18. CASE Pause(a)
  BY <1>1, <1>18, FileClosedWhole DEF Pause
<1>19. CASE Exit(a)
  <2>1. /\ Whole(svc') /\ svc'.files = svc.files \ {a}
        /\ svc'.handles = [svc.handles EXCEPT ![a] = 0]
    BY <1>19, ProcessGoneWhole DEF Exit
  <2> QED BY <1>1, <1>19, <2>1 DEF Exit
<1> QED
  BY <1>3, <1>8, <1>9, <1>10, <1>11, <1>12, <1>13, <1>14, <1>15, <1>16, <1>17,
     <1>18, <1>19
     DEF Main, WinSvcIsRunning, WinSvcDelete, StartLegacyDriver

LEMMA MainLeavesDuty ==
    ASSUME TypeOK, Whole(svc), ProcessInv, NEW a \in Apps, Main(a),
           failures' = failures
    PROVE  LeavesDuty(a)
<1>1. /\ failures \in Nat /\ pc[a] \notin NotStarted \cup Over
      /\ \A label : pc' = [pc EXCEPT ![a] = label] => pc'[a] = label
      /\ ~svc.registered => svc.driver = "stopped"
      /\ svc.driver \in {"stopped", "running", "stopping"}
      /\ pc[a] \in Installing => phase[a] = "install"
      /\ pc[a] \in Holding => svc.handles[a] > 0
      /\ svc.handles[a] > 0 => svc.registered
  <2>1. pc[a] \notin NotStarted \cup Over
    BY DEF Main, WinSvcIsRunning, WinSvcDelete, StartLegacyDriver,
           AdjustPrivileges, IsRunningOpen, IsRunningQuery, IsRunningClose,
           DeleteOpen, ControlStop, DeleteMark, BuildPath, CreateService,
           CreateClose, StartOpen, StartService, Connect, Talk, Pause, Exit,
           NotStarted, Over
  <2> QED
    BY <2>1, MishapsAssumption
       DEF TypeOK, ProcessInv, Whole, Sound, Coherent, Entry
<1>2. \A label : ~Fail(a, label)
  BY <1>1 DEF Fail
<1> USE DEF LeavesDuty, WillStop, WillDelete, Running, NotStarted, Over
\* Most calls are followed by others in the same process.
<1>3. ASSUME pc'[a] \notin
                 NotStarted \cup Over \cup {"unanswered", "mark", "exit"}
      PROVE  LeavesDuty(a)
  BY <1>3
<1>4. CASE AdjustPrivileges(a) \/ BuildPath(a) \/ Talk(a) \/ CreateService(a)
             \/ CreateClose(a) \/ StartOpen(a) \/ StartService(a)
             \/ Connect(a) \/ Pause(a)
  BY <1>1, <1>2, <1>3, <1>4
     DEF AdjustPrivileges, BuildPath, Talk, CreateService, CreateClose,
         StartOpen, StartService, Connect, Pause
<1>5. CASE IsRunningOpen(a)
  BY <1>1, <1>2, <1>3, <1>5 DEF IsRunningOpen, NotInstalled
<1>6. CASE IsRunningQuery(a) \/ IsRunningClose(a)
  <2>1. CASE IsRunningQuery(a)
    BY <1>1, <1>2, <1>3, <2>1 DEF IsRunningQuery
  <2>2. CASE IsRunningClose(a) /\ pc[a] = "answered"
    BY <1>1, <1>3, <2>2 DEF IsRunningClose
  <2>3. CASE IsRunningClose(a) /\ pc[a] = "unanswered"
    <3>1. NoMoreDuty(svc, svc')
      BY <1>1, <2>3, HandleClosedWhole DEF IsRunningClose, Holding
    <3> QED BY <2>3, <3>1 DEF NoMoreDuty
  <2> QED BY <1>6, <2>1, <2>2, <2>3 DEF IsRunningClose
<1>7. CASE DeleteOpen(a)
  BY <1>1, <1>2, <1>3, <1>7 DEF DeleteOpen, NotDeleted
<1>8. CASE ControlStop(a)
  BY <1>1, <1>2, <1>3, <1>8, StoppedWhole DEF ControlStop, NotDeleted
<1>9. CASE DeleteMark(a)
  <2>1. svc.registered
    BY <1>1, <1>9 DEF DeleteMark, Holding
  <2>2. NoMoreDuty(svc, svc') /\ ~(svc'.registered /\ ~svc'.marked)
    BY <1>2, <1>9, <2>1, MarkedWhole DEF DeleteMark, NoMoreDuty
  <2>3. pc'[a] = "exit" => ~WillStop(a)
    BY <1>1, <1>2, <1>9
       DEF DeleteMark, Deleted, NotDeleted, TypeOK
  <2> QED BY <1>1, <1>2, <1>3, <1>9, <2>2, <2>3
          DEF DeleteMark, Deleted, NotDeleted, NoMoreDuty
<1>10. CASE Exit(a)
  BY <1>1, <1>10, ProcessGoneWhole DEF Exit, NoMoreDuty
<1> QED
  BY <1>4, <1>5, <1>6, <1>7, <1>8, <1>9, <1>10
     DEF Main, WinSvcIsRunning, WinSvcDelete, StartLegacyDriver

-----------------------------------------------------------------------------
(***************************************************************************)
(* The invariant is inductive.                                             *)
(***************************************************************************)
LEMMA InitInv == Init => IInv
<1> SUFFICES ASSUME Init PROVE IInv
  OBVIOUS
<1>1. svc \in Entry(Apps) /\ svc = NoEntry(Apps)
  BY DEF Init, NoEntry, Entry
<1>2. /\ ~svc.registered /\ ~svc.marked /\ svc.driver = "stopped"
      /\ svc.files = {} /\ \A a \in Apps : svc.handles[a] = 0
  BY <1>1 DEF NoEntry
<1>3. TypeOK
  BY <1>1 DEF Init, TypeOK
<1>4. Whole(svc)
  BY <1>1, <1>2 DEF Whole, Sound, Coherent, Quiet
<1>5. ProcessInv
  BY <1>2 DEF Init, ProcessInv, Holding
<1>6. DutyInv /\ CleanInv
  BY <1>2 DEF Init, DutyInv, CleanInv, Running, NotStarted
<1> QED BY <1>3, <1>4, <1>5, <1>6 DEF IInv

\* What a process may do to the variables that are not its own.
Own(a) ==
    /\ Whole(svc')
    /\ \A b \in Apps : b # a => /\ pc'[b] = pc[b] /\ phase'[b] = phase[b]
                                /\ clean'[b] = clean[b]
    /\ clean'[a] => clean[a] /\ failures' = failures
    /\ failures' >= failures /\ kills' >= kills

LEMMA MainOwn ==
    ASSUME TypeOK, Whole(svc), ProcessInv, NEW a \in Apps, Main(a)
    PROVE  /\ TypeOK' /\ Own(a) /\ kills' = kills /\ Running(a)
           /\ pc'[a] # "idle" /\ pc'[a] # "privileges"
           /\ pc'[a] \in Installing => phase'[a] = "install"
<1> DEFINE Labels == {"idle", "privileges", "isrunning", "query", "answered",
                      "unanswered", "delete", "control", "mark", "path",
                      "create", "created", "open", "start", "connect", "talk",
                      "pause", "exit", "ended", "killed"}
<1>1. Whole(svc')
  BY MainOpens DEF Opens
<1>2. /\ Running(a)
      /\ \E label \in Labels \ {"idle", "privileges"} :
            /\ pc' = [pc EXCEPT ![a] = label]
            /\ label \in Installing => phase'[a] = "install"
      /\ phase' = phase \/ phase' = [phase EXCEPT ![a] = "remove"]
      /\ \/ failures' = failures /\ clean' = clean
         \/ /\ failures < MaxFailures /\ failures' = failures + 1
            /\ clean' = [clean EXCEPT ![a] = FALSE]
      /\ kills' = kills
  <2> USE DEF Running, NotStarted, Over, Installing, TypeOK, ProcessInv, Fail
  <2>1. CASE AdjustPrivileges(a)
    BY <2>1 DEF AdjustPrivileges
  <2>2. CASE WinSvcIsRunning(a)
    BY <2>2
       DEF WinSvcIsRunning, IsRunningOpen, IsRunningQuery, IsRunningClose,
           NotInstalled
  <2>3. CASE WinSvcDelete(a)
    BY <2>3
       DEF WinSvcDelete, DeleteOpen, ControlStop, DeleteMark, Deleted,
           NotDeleted
  <2>4. CASE StartLegacyDriver(a)
    BY <2>4
       DEF StartLegacyDriver, BuildPath, CreateService, CreateClose, StartOpen,
           StartService
  <2>5. CASE Connect(a) \/ Talk(a) \/ Exit(a)
    BY <2>5 DEF Connect, Talk, Exit
  <2>6. CASE Pause(a)
    <3>1. /\ "isrunning" \in Labels \ {"idle", "privileges"}
          /\ "isrunning" \notin Installing
      OBVIOUS
    <3>2. pc' = [pc EXCEPT ![a] = "isrunning"]
      BY <2>6 DEF Pause
    <3>3. /\ phase' = [phase EXCEPT ![a] = "remove"]
          /\ pc[a] = "pause" /\ UNCHANGED <<clean, failures, kills>>
      BY <2>6 DEF Pause
    <3> HIDE DEF Labels, Installing
    <3> QED BY <3>1, <3>2, <3>3
  <2> QED BY <2>1, <2>2, <2>3, <2>4, <2>5, <2>6 DEF Main
<1>3. pc' \in [Apps -> Labels] /\ phase' \in [Apps -> {"install", "remove"}]
  BY <1>2 DEF TypeOK
<1>4. clean' \in [Apps -> BOOLEAN]
  BY <1>2 DEF TypeOK
<1>5. /\ failures' \in 0 .. MaxFailures /\ kills' \in 0 .. MaxKills
      /\ failures' >= failures /\ kills' >= kills
      /\ clean'[a] => clean[a] /\ failures' = failures
  BY <1>2 DEF TypeOK
<1>6. \A b \in Apps : b # a => /\ pc'[b] = pc[b] /\ phase'[b] = phase[b]
                               /\ clean'[b] = clean[b]
  BY <1>2 DEF TypeOK
<1>7. TypeOK'
  BY <1>1, <1>3, <1>4, <1>5 DEF TypeOK, Whole, Sound
<1>8. /\ pc'[a] # "idle" /\ pc'[a] # "privileges"
      /\ pc'[a] \in Installing => phase'[a] = "install"
  BY <1>2 DEF TypeOK
<1> QED BY <1>1, <1>2, <1>5, <1>6, <1>7, <1>8 DEF Own

\* A process is started.
LEMMA LaunchStep == ASSUME IInv, NEW a \in Apps, Launch(a) PROVE IInv'
<1> USE DEF Running, NotStarted, Over
<1>1. /\ svc' = svc /\ phase' = phase /\ failures' = failures
      /\ kills' = kills /\ pc' = [pc EXCEPT ![a] = "privileges"]
      /\ pc[a] = "idle"
  BY DEF Launch
<1>2. /\ \A b \in Apps : b # a => pc'[b] = pc[b]
      /\ pc'[a] = "privileges"
  BY <1>1 DEF IInv, TypeOK
<1>3. clean' = [b \in Apps |->
                   clean[b] /\ (b = a => \A c \in Apps : ~Running(c))
                            /\ (b # a => ~Running(b))]
  BY DEF Launch
<1>4. TypeOK'
  <2>1. clean' \in [Apps -> BOOLEAN]
    BY <1>3
  <2> QED BY <1>1, <2>1 DEF IInv, TypeOK
<1>5. Whole(svc)'
  BY <1>1 DEF IInv
<1>6. ProcessInv'
  BY <1>1, <1>2 DEF IInv, ProcessInv, Holding, Installing
<1>7. DutyInv'
  <2>1. \A b \in Apps : WillStop(b) => WillStop(b)'
    BY <1>1, <1>2 DEF WillStop
  <2>2. \A b \in Apps : WillDelete(b) => WillDelete(b)'
    BY <1>1, <1>2 DEF WillDelete
  <2> QED BY <1>1, <2>1, <2>2 DEF IInv, DutyInv
<1>8. CleanInv'
  <2> SUFFICES ASSUME NEW b \in Apps, clean'[b], Running(b)'
               PROVE  /\ \A c \in Apps : Running(c)' => c = b
                      /\ WillStop(b)' /\ WillDelete(b)'
    BY DEF CleanInv
  <2>1. /\ b = a => \A c \in Apps : ~Running(c)
        /\ b # a => ~Running(b)
    BY <1>3
  <2>2. b = a
    BY <1>2, <2>1
  <2> QED BY <1>2, <2>1, <2>2 DEF WillStop, WillDelete
<1> QED BY <1>4, <1>5, <1>6, <1>7, <1>8 DEF IInv

\* A process makes a call.
LEMMA MainStep == ASSUME IInv, NEW a \in Apps, Main(a) PROVE IInv'
<1>1. TypeOK /\ Whole(svc) /\ ProcessInv
  BY DEF IInv
<1>2. /\ TypeOK' /\ Own(a) /\ kills' = kills /\ Running(a)
      /\ pc'[a] # "idle" /\ pc'[a] # "privileges"
      /\ pc'[a] \in Installing => phase'[a] = "install"
  BY <1>1, MainOwn
<1>3. Opens(a)
  BY <1>1, MainOpens
<1>4. failures' = failures => LeavesDuty(a)
  BY <1>1, MainLeavesDuty
<1>5. \A b \in Apps : b # a =>
          /\ Running(b)' = Running(b) /\ WillStop(b)' = WillStop(b)
          /\ WillDelete(b)' = WillDelete(b)
  BY <1>2 DEF Own, Running, WillStop, WillDelete
<1>6. ProcessInv'
  <2>1. ASSUME NEW b \in Apps, b # a
        PROVE  /\ pc'[b] \in Holding => svc'.handles[b] > 0
               /\ ~Running(b)' => svc'.handles[b] = 0
               /\ b \in svc'.files => pc'[b] \in {"talk", "pause"}
               /\ pc'[b] \in Installing \cup {"privileges", "idle"} =>
                      phase'[b] = "install"
    BY <1>1, <1>2, <1>3, <1>5, <2>1 DEF Own, Opens, ProcessInv
  <2>2. /\ pc'[a] \in Holding => svc'.handles[a] > 0
        /\ ~Running(a)' => svc'.handles[a] = 0
        /\ a \in svc'.files => pc'[a] \in {"talk", "pause"}
        /\ pc'[a] \in Installing \cup {"privileges", "idle"} =>
               phase'[a] = "install"
    BY <1>2, <1>3 DEF Opens, Running, NotStarted
  <2> QED BY <2>1, <2>2, Zenon DEF ProcessInv
<1>7. DutyInv'
  <2> SUFFICES ASSUME failures' = 0, kills' = 0
               PROVE  /\ svc'.driver = "running" =>
                             \E b \in Apps : WillStop(b)'
                      /\ svc'.registered /\ ~svc'.marked =>
                             \E b \in Apps : WillDelete(b)'
    BY DEF DutyInv
  <2>1. failures = 0 /\ kills = 0
    BY <1>1, <1>2 DEF Own, TypeOK
  <2>2. LeavesDuty(a)
    BY <1>4, <2>1
  <2>3. /\ svc.driver = "running" => \E b \in Apps : WillStop(b)
        /\ svc.registered /\ ~svc.marked => \E b \in Apps : WillDelete(b)
    BY <2>1 DEF IInv, DutyInv
  <2>4. ASSUME svc'.driver = "running" PROVE \E b \in Apps : WillStop(b)'
    <3>1. CASE WillStop(a)'
      BY <3>1
    <3>2. CASE svc.driver = "running" /\ ~WillStop(a)
      BY <1>5, <2>3, <3>2
    <3> QED BY <2>2, <2>4, <3>1, <3>2 DEF LeavesDuty
  <2>5. ASSUME svc'.registered, ~svc'.marked
        PROVE  \E b \in Apps : WillDelete(b)'
    <3>1. CASE WillDelete(a)'
      BY <3>1
    <3>2. CASE svc.registered /\ ~svc.marked /\ ~WillDelete(a)
      BY <1>5, <2>3, <3>2
    \* The driver waits to be unloaded: somebody has its device open.
    <3>3. CASE svc.driver = "stopping" /\ pc[a] = "control"
      <4>1. PICK b \in Apps : b \in svc.files
        BY <1>1, <3>3 DEF Whole, Quiet, Sound, Entry
      <4>2. b # a /\ WillDelete(b)
        BY <1>1, <3>3, <4>1 DEF ProcessInv, WillDelete, Running, NotStarted, Over
      <4> QED BY <1>5, <4>2
    <3> QED BY <2>2, <2>5, <3>1, <3>2, <3>3 DEF LeavesDuty
  <2> QED BY <2>4, <2>5
<1>8. CleanInv'
  <2> SUFFICES ASSUME NEW b \in Apps, clean'[b], Running(b)'
               PROVE  /\ \A c \in Apps : Running(c)' => c = b
                      /\ svc'.driver = "running" => WillStop(b)'
                      /\ svc'.registered /\ ~svc'.marked => WillDelete(b)'
    BY DEF CleanInv
  <2>1. b = a
    BY <1>2, <1>5 DEF IInv, CleanInv, Own
  <2>2. clean[a] /\ failures' = failures
    BY <1>2, <2>1 DEF Own
  <2>3. /\ \A c \in Apps : Running(c) => c = a
        /\ svc.driver = "running" => WillStop(a)
        /\ svc.registered /\ ~svc.marked => WillDelete(a)
    BY <1>2, <2>2 DEF IInv, CleanInv
  \* Nobody else has the device open, and it has not either.
  <2>4. ~(svc.driver = "stopping" /\ pc[a] = "control")
    <3> SUFFICES ASSUME svc.driver = "stopping", pc[a] = "control"
                 PROVE  FALSE
      OBVIOUS
    <3>1. PICK c \in Apps : c \in svc.files
      BY <1>1 DEF Whole, Quiet, Sound, Entry
    <3>2. c # a /\ Running(c)
      BY <1>1, <3>1 DEF ProcessInv, Running, NotStarted, Over
    <3> QED BY <2>3, <3>2
  <2> QED BY <1>4, <1>5, <2>1, <2>2, <2>3, <2>4 DEF LeavesDuty
<1> QED BY <1>2, <1>6, <1>7, <1>8 DEF IInv, Own

\* A process is killed.
LEMMA KillStep == ASSUME IInv, NEW a \in Apps, Kill(a) PROVE IInv'
<1>1. /\ Running(a) /\ kills' = kills + 1 /\ kills \in Nat
      /\ svc' = ProcessGone(svc, a) /\ pc' = [pc EXCEPT ![a] = "killed"]
      /\ UNCHANGED <<phase, clean, failures>>
  BY DEF Kill, IInv, TypeOK
<1>2. /\ Whole(svc') /\ svc'.files = svc.files \ {a}
      /\ svc'.handles = [svc.handles EXCEPT ![a] = 0]
  BY <1>1, ProcessGoneWhole DEF IInv
<1>3. /\ svc.handles \in [Apps -> Nat] /\ TypeOK
      /\ \A b \in Apps : b # a => pc'[b] = pc[b] /\ Running(b)' = Running(b)
      /\ pc'[a] = "killed" /\ ~Running(a)'
  BY <1>1 DEF IInv, TypeOK, Entry, Running, NotStarted, Over
<1>4. TypeOK'
  BY <1>1, <1>2, <1>3, MishapsAssumption DEF Kill, TypeOK, Whole, Sound
<1>5. ProcessInv'
  <2>1. ASSUME NEW b \in Apps, b # a
        PROVE  /\ pc'[b] \in Holding => svc'.handles[b] > 0
               /\ ~Running(b)' => svc'.handles[b] = 0
               /\ b \in svc'.files => pc'[b] \in {"talk", "pause"}
               /\ pc'[b] \in Installing \cup {"privileges", "idle"} =>
                      phase'[b] = "install"
    BY <1>1, <1>2, <1>3, <2>1 DEF IInv, ProcessInv
  <2>2. /\ pc'[a] \notin Holding \cup Installing \cup {"privileges", "idle"}
        /\ svc'.handles[a] = 0 /\ a \notin svc'.files
    BY <1>2, <1>3 DEF Holding, Installing
  <2> QED BY <2>1, <2>2, Zenon DEF ProcessInv
<1>6. DutyInv'
  BY <1>1 DEF DutyInv
<1>7. CleanInv'
  <2>1. ASSUME NEW b \in Apps, clean'[b], Running(b)' PROVE FALSE
    <3>1. b # a /\ Running(b) /\ clean[b]
      BY <1>1, <1>3, <2>1
    <3> QED BY <1>1, <3>1 DEF IInv, CleanInv
  <2> QED BY <2>1 DEF CleanInv
<1> QED BY <1>2, <1>4, <1>5, <1>6, <1>7 DEF IInv

LEMMA StepInv == IInv /\ [Next]_vars => IInv'
<1> SUFFICES ASSUME IInv, [Next]_vars PROVE IInv'
  OBVIOUS
<1>1. CASE UNCHANGED vars
  BY <1>1
     DEF vars, IInv, TypeOK, ProcessInv, DutyInv, CleanInv, Running, WillStop,
         WillDelete
<1> QED
  BY <1>1, LaunchStep, MainStep, KillStep DEF Next, Terminated

-----------------------------------------------------------------------------
(***************************************************************************)
(* The theorems.                                                           *)
(***************************************************************************)
\* A driver that runs and a service that is not marked are always left to a
\* process that will still stop and delete them, unless a call failed or a
\* process was killed.
THEOREM AppInvariant == Spec => []IInv
<1> QED BY InitInv, StepInv, PTL DEF Spec

\* The types, and with them that no service handle is closed that is not open.
THEOREM AppTypeCorrect == Spec => []TypeOK
<1> QED BY AppInvariant, PTL DEF IInv

\* A driver that was told to stop waits only for processes that will close
\* their connection at the end of their pause.
THEOREM StopNeverHeldBySelf == Spec => []StopNotHeldBySelf
<1>1. IInv => StopNotHeldBySelf
  <2> SUFFICES ASSUME IInv, svc.driver = "stopping"
               PROVE  \E a \in svc.files : Running(a) /\ phase[a] = "install"
    BY DEF StopNotHeldBySelf
  <2>1. PICK a \in Apps : a \in svc.files
    BY DEF IInv, Whole, Quiet, Sound, Entry
  <2> QED BY <2>1
          DEF IInv, ProcessInv, Running, NotStarted, Over, Installing
<1> QED BY <1>1, AppInvariant, PTL

\* Processes that get into each other's way leave nothing behind together.
THEOREM TogetherNothingIsLeft == Spec => []TogetherLeaveNothing
<1>1. IInv => TogetherLeaveNothing
  <2> SUFFICES ASSUME IInv, failures = 0, kills = 0,
                      \A a \in Apps : ~Running(a)
               PROVE  ~svc.registered /\ svc.driver = "stopped"
    BY DEF TogetherLeaveNothing
  <2>1. \A a \in Apps : svc.handles[a] = 0 /\ a \notin svc.files
    BY DEF IInv, ProcessInv, Running, NotStarted, Over
  <2>2. \A a \in Apps : ~WillStop(a) /\ ~WillDelete(a)
    BY DEF WillStop, WillDelete, Running, NotStarted, Over
  <2>3. svc.files = {}
    BY <2>1 DEF IInv, Whole, Sound, Entry
  <2>4. svc.driver = "stopped"
    BY <2>2, <2>3 DEF IInv, DutyInv, Whole, Sound, Quiet, Entry
  <2>5. ~svc.registered
    BY <2>1, <2>2, <2>4 DEF IInv, DutyInv, Whole, Quiet
  <2> QED BY <2>4, <2>5
<1> QED BY <1>1, AppInvariant, PTL

\* An undisturbed run leaves nothing behind, whatever it found.
THEOREM CleanRunsClean == Spec => CleanRunLeavesNothing
<1>1. ASSUME IInv, [Next]_vars, NEW a \in Apps,
             pc[a] = "exit", pc'[a] = "ended", clean[a]
      PROVE  ~svc'.registered /\ svc'.driver = "stopped"
  <2>1. TypeOK /\ Whole(svc) /\ ProcessInv
    BY <1>1 DEF IInv
  <2>2. ASSUME NEW b \in Apps, Launch(b) \/ Main(b) \/ Kill(b) PROVE Exit(a)
    <3>1. b = a
      BY <1>1, <2>1, <2>2, MainOwn DEF Launch, Kill, Own, TypeOK
    <3>2. Main(a)
      BY <1>1, <2>1, <2>2, <3>1 DEF Launch, Kill, TypeOK
    <3> QED
      BY <1>1, <3>2
         DEF Main, WinSvcIsRunning, WinSvcDelete, StartLegacyDriver,
             AdjustPrivileges, IsRunningOpen, IsRunningQuery, IsRunningClose,
             DeleteOpen, ControlStop, DeleteMark, BuildPath, CreateService,
             CreateClose, StartOpen, StartService, Connect, Talk, Pause, Exit
  <2>3. Exit(a)
    BY <1>1, <2>2 DEF Next, Terminated, vars
  <2>4. /\ Whole(svc') /\ NoMoreDuty(svc, svc')
        /\ svc'.files = svc.files \ {a}
        /\ svc'.handles = [svc.handles EXCEPT ![a] = 0]
    BY <2>1, <2>3, ProcessGoneWhole DEF Exit
  <2>5. /\ \A b \in Apps : b # a => ~Running(b)
        /\ svc.driver # "running" /\ ~(svc.registered /\ ~svc.marked)
    BY <1>1
       DEF IInv, CleanInv, WillStop, WillDelete, Running, NotStarted, Over
  <2>6. /\ svc'.files = {} /\ \A b \in Apps : svc'.handles[b] = 0
    <3>1. svc.handles \in [Apps -> Nat] /\ svc.files \in SUBSET Apps
      BY <2>1 DEF Whole, Sound, Entry
    <3>2. \A b \in Apps : b # a => svc.handles[b] = 0 /\ b \notin svc.files
      BY <2>1, <2>5 DEF ProcessInv, Running, NotStarted, Over
    <3> QED BY <2>4, <3>1, <3>2
  <2>7. svc'.driver = "stopped"
    BY <2>4, <2>5, <2>6 DEF NoMoreDuty, Whole, Quiet, Sound, Entry
  <2>8. ~svc'.registered
    BY <2>4, <2>5, <2>6, <2>7 DEF NoMoreDuty, Whole, Quiet
  <2> QED BY <2>7, <2>8
<1>2. IInv /\ [Next]_vars =>
          [\A a \in Apps :
              pc[a] = "exit" /\ pc'[a] = "ended" /\ clean[a] =>
                  ~svc'.registered /\ svc'.driver = "stopped"]_vars
  BY <1>1
<1> QED BY <1>2, AppInvariant, PTL DEF Spec, CleanRunLeavesNothing

-----------------------------------------------------------------------------
(***************************************************************************)
(* Why a deletion comes to its end.  That it does, under fairness, is for  *)
(* TLC; that a process takes a bounded number of steps, and that an entry  *)
(* that is marked waits for a process, is proved.                          *)
(***************************************************************************)
\* The order of the positions within StartLegacyDriver, and within
\* StopLegacyDriver.
Position(label) ==
    CASE label = "idle" -> 0
      [] label = "privileges" -> 1
      [] label = "isrunning" -> 2
      [] label = "query" -> 3
      [] label = "answered" -> 4
      [] label = "unanswered" -> 5
      [] label = "delete" -> 6
      [] label = "control" -> 7
      [] label = "mark" -> 8
      [] label = "path" -> 9
      [] label = "create" -> 10
      [] label = "created" -> 11
      [] label = "open" -> 12
      [] label = "start" -> 13
      [] label = "connect" -> 14
      [] label = "talk" -> 15
      [] label = "pause" -> 16
      [] label = "exit" -> 17
      [] OTHER -> 18

\* The only way back is the one from the end of StartLegacyDriver to
\* WinSvcIsRunning in StopLegacyDriver, once.
GoesOn(a) ==
    /\ \/ phase' = phase /\ Position(pc'[a]) > Position(pc[a])
       \/ phase[a] = "install" /\ phase' = [phase EXCEPT ![a] = "remove"]
    /\ \A b \in Apps \ {a} : pc'[b] = pc[b]

\* No failing call, and nothing another process does, makes a process repeat
\* a call: main ends after a bounded number of them, whoever races it (main,
\* StartLegacyDriver, StopLegacyDriver).
THEOREM ProcessesGoOn == Spec => [][\E a \in Apps : GoesOn(a)]_vars
<1>1. ASSUME IInv, NEW a \in Apps, Launch(a) \/ Main(a) \/ Kill(a)
      PROVE  GoesOn(a)
  <2>0. /\ pc \in [Apps -> {"idle", "privileges", "isrunning", "query",
                            "answered", "unanswered", "delete", "control",
                            "mark", "path", "create", "created", "open",
                            "start", "connect", "talk", "pause", "exit",
                            "ended", "killed"}]
        /\ pc[a] = "pause" => phase[a] = "install"
    BY <1>1 DEF IInv, TypeOK, ProcessInv, Installing
  <2>1. CASE Pause(a)
    BY <2>0, <2>1 DEF Pause, GoesOn
  <2>2. CASE Kill(a)
    BY <2>0, <2>2 DEF Kill, GoesOn, Position, Running, NotStarted, Over
  <2>3. CASE Launch(a)
    BY <2>0, <2>3 DEF Launch, GoesOn, Position
  <2>4. CASE AdjustPrivileges(a) \/ WinSvcIsRunning(a)
    BY <2>0, <2>4
       DEF AdjustPrivileges, WinSvcIsRunning, IsRunningOpen, IsRunningQuery,
           IsRunningClose, NotInstalled, Fail, GoesOn, Position
  <2>5. CASE WinSvcDelete(a)
    BY <2>0, <2>5
       DEF WinSvcDelete, DeleteOpen, ControlStop, DeleteMark, Deleted,
           NotDeleted, Fail, GoesOn, Position
  <2>6. CASE StartLegacyDriver(a)
    BY <2>0, <2>6
       DEF StartLegacyDriver, BuildPath, CreateService, CreateClose,
           StartOpen, StartService, Fail, GoesOn, Position
  <2>7. CASE Connect(a) \/ Talk(a) \/ Exit(a)
    BY <2>0, <2>7 DEF Connect, Talk, Exit, Fail, GoesOn, Position
  <2> QED BY <1>1, <2>1, <2>2, <2>3, <2>4, <2>5, <2>6, <2>7 DEF Main
<1>2. IInv /\ [Next]_vars => [\E a \in Apps : GoesOn(a)]_vars
  BY <1>1 DEF Next, Terminated
<1> QED BY <1>2, AppInvariant, PTL DEF Spec

\* An entry that is marked for deletion waits for a process that still runs
\* and that has a handle or the device open, or will stop the driver.
MarkedIsAwaited ==
    svc.marked /\ (svc.driver = "running" => failures = 0 /\ kills = 0) =>
        \E a \in Apps :
            /\ Running(a)
            /\ svc.handles[a] > 0 \/ a \in svc.files \/ WillStop(a)

\* The handles that WinSvcDelete and WinSvcStart leave open put a deletion off
\* only as long as the process runs; only a driver that somebody failed to
\* stop, and left running, can keep an entry marked with nobody there.
THEOREM MarkedNeverForgotten == Spec => []MarkedIsAwaited
<1>1. ASSUME IInv PROVE MarkedIsAwaited
  <2> SUFFICES ASSUME svc.marked,
                      svc.driver = "running" => failures = 0 /\ kills = 0
               PROVE  \E a \in Apps :
                         /\ Running(a)
                         /\ svc.handles[a] > 0 \/ a \in svc.files \/ WillStop(a)
    BY DEF MarkedIsAwaited
  <2>0. svc \in Entry(Apps) /\ Quiet(svc) /\ ProcessInv /\ DutyInv
    BY <1>1 DEF IInv, Whole, Sound
  <2>1. CASE svc.driver = "stopped"
    <3>1. PICK a \in Apps : svc.handles[a] > 0
      BY <2>0, <2>1 DEF Quiet
    <3>2. Running(a)
      BY <2>0, <3>1 DEF ProcessInv
    <3> QED BY <3>1, <3>2
  <2>2. CASE svc.driver = "stopping"
    <3>1. PICK a \in Apps : a \in svc.files
      BY <2>0, <2>2 DEF Quiet, Entry
    <3>2. Running(a)
      BY <2>0, <3>1 DEF ProcessInv, Running, NotStarted, Over
    <3> QED BY <3>1, <3>2
  <2>3. CASE svc.driver = "running"
    <3>1. PICK a \in Apps : WillStop(a)
      BY <2>0, <2>3 DEF DutyInv
    <3>2. Running(a)
      BY <3>1 DEF WillStop, Running, NotStarted, Over
    <3> QED BY <3>1, <3>2
  <2> QED BY <2>0, <2>1, <2>2, <2>3 DEF Entry
<1> QED BY <1>1, AppInvariant, PTL
=============================================================================
