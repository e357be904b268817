---------------------------- MODULE MessageChannel ----------------------------
(***************************************************************************)
(* What a connection of NdfComm promises, without locks, events, counts or *)
(* requests being inserted: listeners stand in a line, each with room for  *)
(* a message of some length; a sender hands its message to the first       *)
(* listener of the line that is listening and has room for it, or gives    *)
(* up.  The connection ends once: after that nobody listens and nobody     *)
(* sends.  NdfCommClient is shown to implement this specification, a       *)
(* pended get-message request being a listener.                            *)
(***************************************************************************)
EXTENDS Naturals, Sequences, SequencesExt

CONSTANTS
    Listeners,
    Senders,
    Lengths

VARIABLES
    line,      \* the listeners in the order in which they came
    listener,  \* what a listener does, or how its wait ended
    room,      \* the longest message that it can take
    sender,    \* what a sender does, or how its send ended
    size,      \* the length of its message
    handed,    \* who handed a message to whom
    phase      \* of the connection

vars == <<line, listener, room, sender, size, handed, phase>>

Init ==
    /\ line = <<>>
    /\ listener = [i \in Listeners |-> "away"]
    /\ room = [i \in Listeners |-> 0]
    /\ sender = [t \in Senders |-> "idle"]
    /\ size = [t \in Senders |-> 0]
    /\ handed = {}
    /\ phase = "open"

Alive == phase \in {"open", "ending"}

\* A line without one of its members, if it is one.
Without(q, i) ==
    IF i \in ToSet(q) THEN RemoveAt(q, CHOOSE k \in DOMAIN q : q[k] = i) ELSE q

-----------------------------------------------------------------------------
\* A listener comes with its buffer; it takes its place; it listens.
Come(i, n) ==
    /\ listener[i] = "away" /\ i \notin ToSet(line) /\ phase # "closed"
    /\ room' = [room EXCEPT ![i] = n]
    /\ UNCHANGED <<line, listener, sender, size, handed, phase>>

TakePlace(i) ==
    /\ listener[i] = "away" /\ i \notin ToSet(line) /\ Alive
    /\ line' = Append(line, i)
    /\ UNCHANGED <<listener, room, sender, size, handed, phase>>

Listen(i) ==
    /\ listener[i] = "away" /\ i \in ToSet(line) /\ Alive
    /\ listener' = [listener EXCEPT ![i] = "waiting"]
    /\ UNCHANGED <<line, room, sender, size, handed, phase>>

\* A listener is cancelled; it may leave its place a little later.
Cancel(i) ==
    /\ listener[i] \in {"away", "waiting"}
    /\ listener' = [listener EXCEPT ![i] = "cancelled"]
    /\ line' \in {line, Without(line, i)}
    /\ UNCHANGED <<room, sender, size, handed, phase>>

Leave(i) ==
    /\ listener[i] = "cancelled"
    /\ line' = Without(line, i)
    /\ UNCHANGED <<listener, room, sender, size, handed, phase>>

\* Only a connection that ends turns its listeners away.
Dismiss(i) ==
    /\ listener[i] \in {"away", "waiting"} /\ phase # "open"
    /\ listener' = [listener EXCEPT ![i] = "disconnected"]
    /\ line' = Without(line, i)
    /\ UNCHANGED <<room, sender, size, handed, phase>>

-----------------------------------------------------------------------------
Send(t, n) ==
    /\ sender[t] = "idle" /\ Alive
    /\ sender' = [sender EXCEPT ![t] = "sending"]
    /\ size' = [size EXCEPT ![t] = n]
    /\ UNCHANGED <<line, listener, room, handed, phase>>

TimeOut(t) ==
    /\ sender[t] = "sending"
    /\ sender' = [sender EXCEPT ![t] = "timeout"]
    /\ UNCHANGED <<line, listener, room, size, handed, phase>>

Refuse(t) ==
    /\ sender[t] \in {"idle", "sending"} /\ phase # "open"
    /\ sender' = [sender EXCEPT ![t] = "disconnected"]
    /\ UNCHANGED <<line, listener, room, size, handed, phase>>

\* First come, first served, among those who have room.
Fits(i, t) == listener[i] = "waiting" /\ room[i] >= size[t]
HandOver(t, i) ==
    /\ sender[t] = "sending" /\ Alive
    /\ \E k \in 1 .. Len(line) :
          /\ line[k] = i /\ Fits(i, t)
          /\ \A j \in 1 .. (k - 1) : ~Fits(line[j], t)
    /\ sender' = [sender EXCEPT ![t] = "delivered"]
    /\ listener' = [listener EXCEPT ![i] = "served"]
    /\ line' = Without(line, i)
    /\ handed' = handed \cup {<<t, i>>}
    /\ UNCHANGED <<room, size, phase>>

-----------------------------------------------------------------------------
BeginEnd ==
    /\ phase = "open"
    /\ phase' = "ending"
    /\ UNCHANGED <<line, listener, room, sender, size, handed>>

\* The connection has ended when nobody listens and nobody sends ...
End ==
    /\ phase = "ending"
    /\ \A i \in Listeners : listener[i] # "waiting"
    /\ \A t \in Senders : sender[t] # "sending"
    /\ phase' = "ended"
    /\ UNCHANGED <<line, listener, room, sender, size, handed>>

\* ... and is forgotten when nobody stands in the line.
Close ==
    /\ phase = "ended" /\ line = <<>>
    /\ phase' = "closed"
    /\ UNCHANGED <<line, listener, room, sender, size, handed>>

Next ==
    \/ \E i \in Listeners :
          \/ \E n \in Lengths : Come(i, n)
          \/ TakePlace(i) \/ Listen(i) \/ Cancel(i) \/ Leave(i) \/ Dismiss(i)
    \/ \E t \in Senders :
          \/ \E n \in Lengths : Send(t, n)
          \/ TimeOut(t) \/ Refuse(t)
          \/ \E i \in Listeners : HandOver(t, i)
    \/ BeginEnd \/ End \/ Close

Spec == Init /\ [][Next]_vars
=============================================================================
