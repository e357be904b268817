------------------------- MODULE NdfCommClientLibrary -------------------------
(***************************************************************************)
(* The cleanup handler, the close handler and NdfCommRelease are in        *)
(* NdfCommClient, with the inside of one connection, and in                *)
(* NdfCommLibrary, with all connections.  The first is mapped onto the     *)
(* second here, with its file object as the only one.                      *)
(***************************************************************************)
EXTENDS NdfCommClient

File == "file"

\* NdfCommLibrary has one position for the inside of NdfCommDisconnectClient.
FilePcOfClient ==
    CASE disc["cleanup"] = "idle" -> "open"
      [] disc["cleanup"] \in InDisconnect -> "drain"
      [] OTHER -> disc["cleanup"]
ReleasePcOfClient ==
    CASE disc["release"] = "libwait" -> "wait"
      [] disc["release"] \in InDisconnect -> "drain"
      [] disc["release"] = "notifying" -> "unlock"
      [] OTHER -> disc["release"]

Counted == disc["cleanup"] \notin {"cleaned", "closed"}

\* NdfCommRelease is past the only entry of the list; NdfCommLibrary has no
\* position for its callback.
PastClient == disc["release"] \in {"notifying", "unlock"} /\ ~Closed

\* MaxClients matters to creating only; LongMax is the code's.
Library == INSTANCE NdfCommLibrary WITH
    Files <- {File},
    MaxClients <- 1,
    LongMax <- 2147483647,
    filePc <- [f \in {File} |-> FilePcOfClient],
    outcome <- [f \in {File} |-> "connected"],
    told <- [f \in {File} |-> notified],
    broken <- IF broken THEN {File} ELSE {},
    activeClients <- IF Counted THEN 1 ELSE 0,
    clientList <- IF Closed THEN <<>> ELSE <<File>>,
    libRundown <- libRundown,
    releasePc <- ReleasePcOfClient,
    cursor <- IF PastClient THEN 2 ELSE 1

\* The state of the library after the file was opened, and nothing else done.
Opened ==
    /\ FilePcOfClient = "open" /\ notified = 0 /\ ~broken
    /\ ReleasePcOfClient = "idle"
    /\ libRundown = ExInitializeRundownProtection

\* Both models say the same of cleanup, close and release: from a successful
\* open on, every step of the connection is a step of the library or changes
\* nothing of it, so that both callers of NdfCommDisconnectClient test its bit,
\* tell the driver, count, lock the list and take the client out of it in the
\* order the library's properties are proved for.
AgreesWithLibrary == Opened /\ [][Library!Next]_(Library!vars)
=============================================================================
