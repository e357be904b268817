------------------------------- MODULE WaitTime -------------------------------
(***************************************************************************)
(* The time that NdfCommSendMessage waits: the timeout a driver declares   *)
(* with NDFCOMM_DECLARE_RELATIVE_TIMEOUT, the end of the wait computed     *)
(* from it, and the time that remains whenever the thread was woken in     *)
(* vain and waits again.  What it is woken for is in NdfCommClient, which  *)
(* abstracts all of this to a deadline.                                    *)
(*                                                                         *)
(* One clock stands for KeQueryInterruptTime and for the system time that  *)
(* an absolute timeout refers to; the code never mixes the two.            *)
(***************************************************************************)
EXTENDS Integers

CONSTANTS
    Factor,     \* NDFCOMM_NANO_2_MS_FACTOR, 10000 in the code
    LowRange,   \* how many values LowPart has, 2^32 in the code
    Delays,     \* the delays for which a driver declares a relative timeout
    Absolute,   \* the absolute timeouts, 0 (do not wait) among them
    MaxLag,     \* the longest a thread takes from one step to the next
    MaxTime     \* bound of the clock

ASSUME FactorAssumption == Factor \in Nat \ {0} /\ LowRange \in Nat \ {0}
ASSUME DelaysAssumption == Delays \subseteq Nat /\ Absolute \subseteq Nat
ASSUME TimeAssumption == MaxLag \in Nat /\ MaxTime \in Nat

VARIABLES
    now,        \* KeQueryInterruptTime
    pc,         \* where NdfCommSendMessage is
    timed,      \* was a Timeout given?
    delay,      \* the delay it was declared with, or -1
    entered,    \* when the function was called
    given,      \* Timeout->QuadPart
    timeout,    \* remainingTime.QuadPart
    endTime,
    lastRead,   \* when the clock was read last
    deadline    \* when the wait that is going on ends

vars == <<now, pc, timed, delay, entered, given, timeout, endTime, lastRead,
          deadline>>
call == <<timed, delay, entered, given, endTime>>

Init ==
    /\ now = 0
    /\ pc = "idle"
    /\ timed = FALSE
    /\ delay = -1
    /\ entered = 0
    /\ given = 0
    /\ timeout = 0
    /\ endTime = 0
    /\ lastRead = 0
    /\ deadline = 0

-----------------------------------------------------------------------------
\* The LARGE_INTEGER the macro declares: LowPart is the negated product cut to
\* 32 bits, HighPart is always -1.
RelativeTimeout(d) == -LowRange + ((-(Factor * d)) % LowRange)

\* NdfCommSendMessage with the timeout t, called now.
Enter(hasTimeout, d, t) ==
    /\ pc = "idle"
    /\ timed' = hasTimeout /\ delay' = d /\ given' = t
    /\ entered' = now /\ lastRead' = now
    /\ pc' = "entered"
    /\ UNCHANGED <<now, timeout, endTime, deadline>>

EnterForEver == Enter(FALSE, -1, 0)
EnterRelative == \E d \in Delays : Enter(TRUE, d, RelativeTimeout(d))
EnterAbsolute == \E t \in Absolute : Enter(TRUE, -1, t)

\* The client is acquired, and the end of the wait is fixed: by the clock, which
\* may have moved since the call.
AcquireAndReadClock ==
    /\ pc = "entered"
    /\ timeout' = given
    /\ endTime' = IF given < 0 THEN now - given ELSE endTime
    /\ lastRead' = now
    /\ pc' = "call"
    /\ UNCHANGED <<now, timed, delay, entered, given, deadline>>

\* The client is closing: there is no wait.
Refused ==
    /\ pc = "entered"
    /\ pc' = "answered"
    /\ UNCHANGED <<now, call, timeout, lastRead, deadline>>

\* KeWaitForMultipleObjects: a negative timeout counts from now on, any other
\* is a point in time, and zero is one that has passed.
Wait ==
    /\ pc = "call"
    /\ deadline' = IF timeout < 0 THEN now - timeout ELSE timeout
    /\ pc' = "wait"
    /\ UNCHANGED <<now, call, timeout, lastRead>>

TimeOut ==
    /\ pc = "wait" /\ timed /\ now >= deadline
    /\ pc' = "timeout"
    /\ UNCHANGED <<now, call, timeout, lastRead, deadline>>

\* The thread is woken, for a request that it takes or for the disconnection ...
Woken ==
    /\ pc = "wait"
    /\ pc' = "answered"
    /\ UNCHANGED <<now, call, timeout, lastRead, deadline>>

\* ... or in vain.
WokenInVain ==
    /\ pc = "wait"
    /\ pc' = "again"
    /\ UNCHANGED <<now, call, timeout, lastRead, deadline>>

\* FAULTS: the whole time is waited again; the operands are swapped; what is
\* left is not kept from getting positive.
RemainingWhole(t, e) == t
RemainingSwapped(t, e) ==
    IF t < 0 THEN (IF e - now > 0 THEN 0 ELSE e - now) ELSE t
RemainingUnclamped(t, e) == IF t < 0 THEN now - e ELSE t

\* NdfCommpComputeWaitInterval.
Remaining(t, e) ==
    IF t < 0 THEN (IF now - e > 0 THEN 0 ELSE now - e) ELSE t
ComputeWaitInterval ==
    /\ pc = "again"
    /\ timeout' = IF timed THEN Remaining(timeout, endTime) ELSE timeout
    /\ lastRead' = now
    /\ pc' = "call"
    /\ UNCHANGED <<now, call, deadline>>

\* Time passes; a thread that runs gets on within MaxLag.
Tick ==
    /\ now < MaxTime
    /\ pc \in {"entered", "call"} => now - lastRead < MaxLag
    /\ now' = now + 1
    /\ UNCHANGED <<pc, call, timeout, lastRead, deadline>>

\* The call is over, or nothing ends the wait while the clock is at its bound.
Terminated ==
    /\ pc \in {"timeout", "answered"}
    /\ UNCHANGED vars

Next ==
    \/ EnterForEver \/ EnterRelative \/ EnterAbsolute
    \/ AcquireAndReadClock \/ Refused
    \/ Wait \/ TimeOut \/ Woken \/ WokenInVain \/ ComputeWaitInterval
    \/ Tick \/ Terminated

Spec == Init /\ [][Next]_vars

-----------------------------------------------------------------------------
\* From the acquisition of the client to the end of a wait.
Timing == {"call", "wait", "again", "timeout"}

\* The types of the variables; a relative timeout never turns into an absolute
\* one, which a positive value would be.
TypeOK ==
    /\ now \in Nat
    /\ pc \in {"idle", "entered", "call", "wait", "again", "timeout",
               "answered"}
    /\ timed \in BOOLEAN
    /\ delay \in Delays \cup {-1}
    /\ entered \in Nat
    /\ given \in Int
    /\ timeout \in Int
    /\ endTime \in Nat
    /\ lastRead \in Nat
    /\ deadline \in Nat
    /\ pc \in Timing => IF given < 0 THEN timeout =< 0 ELSE timeout = given

\* A send whose timeout was declared with a delay reports STATUS_TIMEOUT only
\* after that delay, however often it was woken in vain, as long as the delay
\* is one that the 32 bits of the macro can hold and is not zero.
Expressible(d) == 0 < d /\ Factor * d < LowRange
TimeoutNotEarly ==
    (pc = "timeout" /\ delay >= 0 /\ Expressible(delay)) =>
        now >= entered + Factor * delay

\* However often a send is woken in vain, it never waits beyond the end that
\* its timeout sets, except for the time that passes twice: between the call
\* and the first look at the clock, which fixes the end, and between the last
\* look and the wait.  The delays do not add up.
NoDrift ==
    (pc \in {"wait", "timeout"} /\ given < 0) =>
        deadline =< entered - given + 2 * MaxLag

-----------------------------------------------------------------------------
\* The inductive invariant behind both.
TimeInv ==
    /\ TypeOK
    /\ given < 0 => timed
    /\ lastRead =< now
    /\ pc \in {"entered", "call"} => now - lastRead =< MaxLag
    /\ pc # "idle" => entered =< lastRead
    /\ pc = "entered" => lastRead = entered
    /\ pc \in Timing /\ given < 0 =>
          /\ endTime >= entered - given
          /\ endTime =< entered - given + MaxLag
          /\ timeout = 0 => endTime =< lastRead
          /\ pc = "call" /\ timeout < 0 => timeout = lastRead - endTime
          /\ pc \in {"wait", "timeout"} =>
                /\ deadline =< endTime + MaxLag
                /\ deadline >= endTime \/ now >= endTime
    /\ pc = "timeout" => now >= deadline
    /\ pc # "idle" /\ delay >= 0 => given = RelativeTimeout(delay) /\ given < 0
=============================================================================
