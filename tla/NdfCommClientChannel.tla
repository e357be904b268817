------------------------- MODULE NdfCommClientChannel -------------------------
(***************************************************************************)
(* NdfCommClient implements MessageChannel: the refinement mapping.        *)
(***************************************************************************)
EXTENDS NdfCommClient

\* A request listens while its cancel routine is set; whoever takes that out
\* decides how its wait ends, although the request is completed only later.
ListenerOf(i) ==
    IF Taken(i) \/ irpStatus[i] = "success" THEN "served"
    ELSE IF irpStatus[i] = "cancelled" \/ cancelPc[i] \in {"remove", "complete"}
    THEN "cancelled"
    ELSE IF irpStatus[i] = "disconnected" THEN "disconnected"
    ELSE IF cancelRoutine[i] THEN "waiting" ELSE "away"

\* A sender has delivered its message when it has taken a request out of the
\* queue.
SenderOf(t) ==
    IF pc[t] = "complete" \/ status[t] \in {"success", "unsuccessful"}
    THEN "delivered"
    ELSE IF status[t] # "none" THEN status[t]
    ELSE IF pc[t] \in {"wait", "dequeue"} THEN "sending" ELSE "idle"

HandedPair(t, i) == (pc[t] = "complete" /\ held[t] = i) \/ irpMsg[i] = t

PhaseOfClient ==
    IF Closed THEN "closed"
    ELSE IF Drained THEN "ended" ELSE IF broken THEN "ending" ELSE "open"

Channel == INSTANCE MessageChannel WITH
    Listeners <- Irps,
    Senders <- Threads,
    line <- queue,
    listener <- [i \in Irps |-> ListenerOf(i)],
    room <- irpLen,
    sender <- [t \in Threads |-> SenderOf(t)],
    size <- msgLen,
    handed <- {p \in Threads \X Irps : HandedPair(p[1], p[2])},
    phase <- PhaseOfClient

\* Every step of the code is a step of the abstract connection or changes
\* nothing of it: messages go to the first request in the queue that can take
\* them, to one only, a wait ends once and for one reason, and a connection
\* that is broken first sends everybody away and then is forgotten.
ImplementsChannel == Channel!Spec
=============================================================================
