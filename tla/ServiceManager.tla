---------------------------- MODULE ServiceManager ----------------------------
(***************************************************************************)
(* The Windows service control manager with the one entry the client       *)
(* application uses, that of its driver.  External: seen as WinSvcSup.cpp  *)
(* uses it.  An entry is a record: is it registered, is it marked for      *)
(* deletion, what does the driver do, how many service handles has each    *)
(* process, which processes have the driver's device open, and has the     *)
(* driver counted an open for ever that it refused?                        *)
(***************************************************************************)
EXTENDS Naturals, FiniteSets

Entry(Apps) ==
    [registered : BOOLEAN, marked : BOOLEAN,
     driver : {"stopped", "running", "stopping"},
     handles : [Apps -> Nat], files : SUBSET Apps, full : BOOLEAN]

NoEntry(Apps) ==
    [registered |-> FALSE, marked |-> FALSE, driver |-> "stopped",
     handles |-> [a \in Apps |-> 0], files |-> {}, full |-> FALSE]

\* A driver that was told to stop unloads when nobody has its device open, its
\* count with it; a marked entry goes when the driver is stopped and nobody
\* has a handle.
Settled(s) ==
    LET driver == IF s.driver = "stopping" /\ s.files = {} THEN "stopped"
                  ELSE s.driver
        gone == s.marked /\ driver = "stopped"
                /\ \A a \in DOMAIN s.handles : s.handles[a] = 0
    IN  [s EXCEPT !.driver = driver, !.registered = @ /\ ~gone,
                  !.marked = @ /\ ~gone, !.full = @ /\ driver # "stopped"]

HandleOpened(s, a) == [s EXCEPT !.handles[a] = @ + 1]
HandleClosed(s, a) == Settled([s EXCEPT !.handles[a] = @ - 1])

Registered(s) == [s EXCEPT !.registered = TRUE]
Marked(s) == Settled([s EXCEPT !.marked = TRUE])

MayStart(s) == s.registered /\ ~s.marked /\ s.driver = "stopped"
Started(s) == [s EXCEPT !.driver = "running"]
Stopped(s) == Settled([s EXCEPT !.driver = "stopping"])

FileOpened(s, a) == [s EXCEPT !.files = @ \cup {a}]
PlaceKept(s) == [s EXCEPT !.full = TRUE]
FileClosed(s, a) == Settled([s EXCEPT !.files = @ \ {a}])

\* The end of a process closes all that it has open.
ProcessGone(s, a) ==
    Settled([s EXCEPT !.handles[a] = 0, !.files = @ \ {a}])
=============================================================================
