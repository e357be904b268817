----------------------------- MODULE ClientSlots -----------------------------
(***************************************************************************)
(* What the library promises about the connections as a whole, without     *)
(* counters, reference counts, locks or lists: it has a fixed number of    *)
(* slots; a client takes one before the driver hears of it, becomes a      *)
(* member when the driver accepts it, gives the slot back when it leaves   *)
(* and is forgotten after that; once the library is shut nobody comes in.  *)
(* Slots get lost on the way: an open that is refused for want of a slot,  *)
(* or fails with one in its hand, costs the others a slot for ever.        *)
(* NdfCommLibrary is shown to implement this specification.                *)
(***************************************************************************)
EXTENDS Naturals, FiniteSets

CONSTANTS
    Clients,
    Limit

VARIABLES
    holders,  \* the clients with a slot
    lost,     \* the clients that took a slot away with them
    members,  \* the clients the library knows
    open      \* may clients still come in?

vars == <<holders, lost, members, open>>

Init ==
    /\ holders = {}
    /\ lost = {}
    /\ members = {}
    /\ open = TRUE

SlotFree == Cardinality(holders \cup lost) < Limit
Outside(c) == c \notin holders \cup lost \cup members

Take(c) ==
    /\ open /\ Outside(c) /\ SlotFree
    /\ holders' = holders \cup {c}
    /\ UNCHANGED <<lost, members, open>>

\* Only want of a slot turns a client away here.
Refuse(c) ==
    /\ open /\ Outside(c) /\ ~SlotFree
    /\ lost' = lost \cup {c}
    /\ UNCHANGED <<holders, members, open>>

Lose(c) ==
    /\ open /\ c \in holders \ members
    /\ holders' = holders \ {c}
    /\ lost' = lost \cup {c}
    /\ UNCHANGED <<members, open>>

Accept(c) ==
    /\ open /\ c \in holders \ members
    /\ members' = members \cup {c}
    /\ UNCHANGED <<holders, lost, open>>

\* A client that the driver rejects, or one that leaves, gives its slot back.
GiveBack(c) ==
    /\ c \in holders
    /\ open \/ c \in members
    /\ holders' = holders \ {c}
    /\ UNCHANGED <<lost, members, open>>

Forget(c) ==
    /\ c \in members \ holders
    /\ members' = members \ {c}
    /\ UNCHANGED <<holders, lost, open>>

\* The library is shut when nobody is on the way in.
Shut ==
    /\ open /\ holders \subseteq members
    /\ open' = FALSE
    /\ UNCHANGED <<holders, lost, members>>

Next ==
    \/ \E c \in Clients :
          \/ Take(c) \/ Refuse(c) \/ Lose(c)
          \/ Accept(c) \/ GiveBack(c) \/ Forget(c)
    \/ Shut

Spec == Init /\ [][Next]_vars
=============================================================================
