---------------------------- MODULE WaitTimeProofs ----------------------------
(***************************************************************************)
(* Proofs about WaitTime: the arithmetic of the macro, and that the wait   *)
(* of NdfCommSendMessage ends neither early nor late, for every factor,    *)
(* range, delay and number of vain wake-ups.                               *)
(***************************************************************************)
EXTENDS WaitTime, TLAPS

USE FactorAssumption, DelaysAssumption, TimeAssumption

\* The macro gives a negative number at least as small as -LowRange, and minus
\* the delay in 100 ns units when that is expressible.
THEOREM RelativeExact ==
    ASSUME NEW d \in Nat
    PROVE  /\ RelativeTimeout(d) \in Int
           /\ RelativeTimeout(d) < 0
           /\ RelativeTimeout(d) >= -LowRange
           /\ Expressible(d) => RelativeTimeout(d) = -(Factor * d)
<1> DEFINE p == Factor * d
           r == (-p) % LowRange
<1>1. p \in Nat
  OBVIOUS
<1>2. r \in 0 .. (LowRange - 1)
  <2> HIDE DEF p
  <2> QED BY <1>1
<1>3. ASSUME 0 < p, p < LowRange
      PROVE  r = LowRange - p
  <2> HIDE DEF p
  <2>1. /\ LowRange - p \in 0 .. (LowRange - 1)
        /\ -p = LowRange * (-1) + (LowRange - p)
    BY <1>1, <1>3
  <2> QED BY <1>1, <1>3, <2>1
<1>4. Expressible(d) => 0 < p /\ p < LowRange
  <2>1. d > 0 => Factor * d > 0
    OBVIOUS
  <2> QED BY <2>1 DEF Expressible
<1>5. RelativeTimeout(d) = -LowRange + r
  BY DEF RelativeTimeout
<1> HIDE DEF p, r
<1>6. /\ RelativeTimeout(d) \in Int
      /\ RelativeTimeout(d) < 0
      /\ RelativeTimeout(d) >= -LowRange
  BY <1>2, <1>5
<1>7. Expressible(d) => RelativeTimeout(d) = -p
  BY <1>1, <1>3, <1>4, <1>5
<1> QED BY <1>6, <1>7 DEF p
-----------------------------------------------------------------------------
LEMMA InitTimeInv == Init => TimeInv
<1> SUFFICES ASSUME Init PROVE TimeInv
  OBVIOUS
<1>1. TypeOK
  <2>1. timed \in BOOLEAN
    BY Zenon DEF Init
  <2> QED BY <2>1 DEF Init, TypeOK, Timing
<1>2. given = 0 /\ pc = "idle" /\ lastRead = 0 /\ now = 0
  BY DEF Init
<1> QED BY <1>1, <1>2 DEF TimeInv, Timing

\* The call of the function.
LEMMA EnterTimeInv ==
    ASSUME TimeInv, NEW hasTimeout \in BOOLEAN, NEW d \in Delays \cup {-1},
           NEW t \in Int, t < 0 => hasTimeout,
           d >= 0 => t = RelativeTimeout(d) /\ t < 0,
           Enter(hasTimeout, d, t)
    PROVE  TimeInv'
<1>1. TypeOK'
  BY DEF TimeInv, TypeOK, Timing, Enter
<1>2. (pc # "idle" /\ delay >= 0 => given = RelativeTimeout(delay) /\ given < 0)'
  BY DEF Enter, RelativeTimeout
<1>3. (given < 0 => timed)'
  BY Zenon DEF Enter
<1>4. /\ pc' = "entered" /\ lastRead' = now /\ entered' = now /\ now' = now
      /\ pc' \notin Timing
  BY DEF Enter, Timing
<1>5. now \in Nat
  BY DEF TimeInv, TypeOK
<1> QED BY <1>1, <1>2, <1>3, <1>4, <1>5 DEF TimeInv

\* The end of the wait is fixed at most one lag after the call.
LEMMA AcquireTimeInv ==
    ASSUME TimeInv, AcquireAndReadClock
    PROVE  TimeInv'
<1> USE DEF TimeInv, AcquireAndReadClock
<1>1. /\ now \in Nat /\ given \in Int /\ endTime \in Nat /\ entered \in Nat
      /\ entered =< now /\ now - entered =< MaxLag
  BY DEF TypeOK
<1>2. TypeOK'
  <2>1. timed' \in BOOLEAN
    BY Zenon DEF TypeOK
  <2> QED BY <1>1, <2>1 DEF TypeOK
<1>3. (given < 0 => timed)'
  BY Zenon
<1>4. (pc # "idle" /\ delay >= 0 => given = RelativeTimeout(delay) /\ given < 0)'
  BY DEF RelativeTimeout
<1>5. (given < 0 =>
          /\ endTime >= entered - given
          /\ endTime =< entered - given + MaxLag
          /\ timeout < 0 /\ timeout = lastRead - endTime)'
  BY <1>1
<1>6. /\ pc' = "call" /\ lastRead' = now' /\ now' = now
      /\ entered' =< lastRead'
  BY <1>1
<1> QED BY <1>1, <1>2, <1>3, <1>4, <1>5, <1>6

\* The other steps of the call.
LEMMA CallTimeInv ==
    ASSUME TimeInv, Refused \/ Wait \/ TimeOut \/ Woken \/ WokenInVain
    PROVE  TimeInv'
<1> USE DEF TimeInv, TypeOK, Timing, call, RelativeTimeout
<1>1. CASE Wait
  BY <1>1 DEF Wait
<1>2. CASE TimeOut
  BY <1>2 DEF TimeOut
<1>3. CASE Woken
  BY <1>3 DEF Woken
<1>4. CASE WokenInVain
  BY <1>4 DEF WokenInVain
<1>5. CASE Refused
  BY <1>5 DEF Refused
<1> QED BY <1>1, <1>2, <1>3, <1>4, <1>5

\* The time that remains is never positive for a relative timeout, and added
\* to the clock it gives the end that was fixed.
LEMMA ComputeTimeInv ==
    ASSUME TimeInv, ComputeWaitInterval
    PROVE  TimeInv'
<1> USE DEF TimeInv, TypeOK, Timing, call, ComputeWaitInterval
<1>1. timed \/ given >= 0
  OBVIOUS
<1>2. /\ Remaining(timeout, endTime) \in Int
      /\ given >= 0 => Remaining(timeout, endTime) = timeout
      /\ given < 0 => \/ Remaining(timeout, endTime) = now - endTime
                         /\ now =< endTime
                      \/ Remaining(timeout, endTime) = 0 /\ endTime =< now
  BY DEF Remaining
<1>3. /\ timeout' \in Int
      /\ given >= 0 => timeout' = timeout
      /\ given < 0 => \/ timeout' = now - endTime /\ now =< endTime
                      \/ timeout' = 0 /\ endTime =< now
  <2>1. CASE timed
    BY <1>2, <2>1
  <2>2. CASE ~timed
    BY <1>1, <2>2
  <2> QED BY <2>1, <2>2
<1>4. (given < 0 => timed)'
  BY Zenon
<1>5. TypeOK'
  <2>1. timed' \in BOOLEAN
    BY Zenon
  <2> QED BY <1>3, <2>1
<1>6. /\ (given < 0 =>
             /\ endTime >= entered - given
             /\ endTime =< entered - given + MaxLag
             /\ timeout = 0 => endTime =< lastRead
             /\ pc = "call" /\ timeout < 0 => timeout = lastRead - endTime)'
      /\ pc' = "call" /\ lastRead' = now /\ now' = now /\ entered' =< lastRead'
  BY <1>3
<1>7. (pc # "idle" /\ delay >= 0 => given = RelativeTimeout(delay) /\ given < 0)'
  BY DEF RelativeTimeout
<1>8. now' - lastRead' =< MaxLag /\ lastRead' =< now'
  BY <1>6
<1> QED BY <1>4, <1>5, <1>6, <1>7, <1>8 DEF TimeInv

LEMMA TickTimeInv ==
    ASSUME TimeInv, Tick
    PROVE  TimeInv'
BY DEF TimeInv, TypeOK, Timing, call, Tick, RelativeTimeout

\* Every step preserves the invariant.
LEMMA NextTimeInv ==
    ASSUME TimeInv, [Next]_vars
    PROVE  TimeInv'
<1>1. CASE EnterForEver
  <2>1. PICK b \in BOOLEAN : Enter(b, -1, 0)
    BY <1>1, Zenon DEF EnterForEver
  <2> QED BY <2>1, EnterTimeInv
<1>2. CASE EnterRelative
  <2>1. PICK d \in Delays : Enter(TRUE, d, RelativeTimeout(d))
    BY <1>2 DEF EnterRelative
  <2> DEFINE t == RelativeTimeout(d)
  <2>2. t \in Int /\ t < 0
    BY RelativeExact
  <2> HIDE DEF t
  <2>3. PICK b \in BOOLEAN : b /\ Enter(b, d, t)
    BY <2>1, Zenon DEF t
  <2>4. t = RelativeTimeout(d)
    BY DEF t
  <2> QED BY <2>2, <2>3, <2>4, EnterTimeInv
<1>3. CASE EnterAbsolute
  <2>1. PICK t \in Absolute : Enter(TRUE, -1, t)
    BY <1>3 DEF EnterAbsolute
  <2>2. t \in Nat
    OBVIOUS
  <2>3. PICK b \in BOOLEAN : b /\ Enter(b, -1, t)
    BY <2>1, Zenon
  <2>4. -1 \in Delays \cup {-1} /\ ~(-1 >= 0) /\ t \in Int /\ ~(t < 0)
    BY <2>2
  <2> QED BY <2>3, <2>4, EnterTimeInv
<1>4. CASE Refused \/ Wait \/ TimeOut \/ Woken \/ WokenInVain
  BY <1>4, CallTimeInv
<1>5. CASE ComputeWaitInterval
  BY <1>5, ComputeTimeInv
<1>6. CASE Tick
  BY <1>6, TickTimeInv
<1>7. CASE Terminated \/ UNCHANGED vars
  BY <1>7 DEF Terminated, vars, TimeInv, TypeOK, Timing, RelativeTimeout
<1>8. CASE AcquireAndReadClock
  BY <1>8, AcquireTimeInv
<1> QED BY <1>1, <1>2, <1>3, <1>4, <1>5, <1>6, <1>7, <1>8 DEF Next

\* The invariant holds of every behaviour of NdfCommSendMessage's wait.
THEOREM WaitInvariant == Spec => []TimeInv
<1>1. Init => TimeInv
  BY InitTimeInv
<1>2. TimeInv /\ [Next]_vars => TimeInv'
  BY NextTimeInv
<1> QED BY <1>1, <1>2, PTL DEF Spec

\* The type invariant; a relative timeout never becomes an absolute one.
THEOREM WaitTypeCorrect == Spec => []TypeOK
<1>1. TimeInv => TypeOK
  BY DEF TimeInv
<1> QED BY <1>1, WaitInvariant, PTL

\* STATUS_TIMEOUT is never reported before an expressible delay has passed.
THEOREM TimeoutNeverEarly == Spec => []TimeoutNotEarly
<1>1. TimeInv => TimeoutNotEarly
  <2> SUFFICES ASSUME TimeInv, pc = "timeout", delay >= 0, Expressible(delay)
               PROVE  now >= entered + Factor * delay
    BY DEF TimeoutNotEarly
  <2> DEFINE p == Factor * delay
  <2>1. delay \in Nat /\ p \in Nat
    BY DEF TimeInv, TypeOK
  <2>2. given = -p /\ given < 0
    BY <2>1, RelativeExact DEF TimeInv
  <2> HIDE DEF p
  <2>3. now >= entered + p
    <3>1. /\ endTime >= entered + p /\ now >= endTime
          /\ now \in Int /\ endTime \in Int /\ entered \in Int
      BY <2>1, <2>2 DEF TimeInv, TypeOK, Timing
    <3> QED BY <2>1, <3>1
  <2> QED BY <2>3 DEF p
<1> QED BY <1>1, WaitInvariant, PTL

\* The wait never outlasts its end by more than two scheduling delays, however
\* often the thread was woken in vain.
THEOREM WaitNeverDrifts == Spec => []NoDrift
<1>1. TimeInv => NoDrift
  BY DEF TimeInv, TypeOK, Timing, NoDrift
<1> QED BY <1>1, WaitInvariant, PTL
=============================================================================
