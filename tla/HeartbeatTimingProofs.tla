------------------------ MODULE HeartbeatTimingProofs ------------------------
(***************************************************************************)
(* Proofs about HeartbeatTiming, for every value of the timeouts that       *)
(* TimeoutsAssumption admits.  The bounds on the two clocks are not         *)
(* inductive by themselves: what each step needs is how far a clock will    *)
(* have come when the timer now running expires, that is, bounds on         *)
(* idle + wait and on sincePing + wait.                                     *)
(***************************************************************************)
EXTENDS HeartbeatTiming, TLAPS

\* Where the clocks will be when the interval timer expires.
IntervalInv ==
    phase = "interval" =>
        /\ idle + wait < LongestSilence
        /\ pinged => /\ idle + wait >= SoftIdle + GraceWait + Interval
                     /\ sincePing + wait >= GraceWait + Interval
                     /\ sincePing + wait <= LongestAnswer

\* ... and when the grace timer does.
GraceInv ==
    phase = "grace" =>
        /\ idle + wait < HardIdle + GraceWait
        /\ pinged => /\ idle + wait >= SoftIdle + GraceWait
                     /\ sincePing + wait = GraceWait

DoneInv == phase = "done" => (pinged => sincePing <= LongestAnswer)

WaitInv ==
    /\ phase = "interval" => wait <= Interval + MaxJitter
    /\ phase = "grace" => wait <= GraceWait

IInv == TypeOK /\ IntervalInv /\ GraceInv /\ DoneInv /\ WaitInv

\* The first wait is an interval, nothing has been received or pinged.
LEMMA InitIInv == Init => IInv
<1> SUFFICES ASSUME Init PROVE IInv
    OBVIOUS
<1>1. PICK jitter \in Jitters : wait = Interval + jitter
    BY DEF Init
<1>2. wait \in Nat /\ wait <= Interval + MaxJitter
    BY <1>1, TimeoutsAssumption DEF TimeoutsAssumption, Jitters
<1>3. phase = "interval" /\ idle = 0 /\ sincePing = 0 /\ pinged = FALSE
    BY DEF Init
<1>4. TypeOK /\ GraceInv /\ DoneInv /\ WaitInv
    BY <1>2, <1>3 DEF TypeOK, GraceInv, DoneInv, WaitInv
<1>5. IntervalInv
    BY <1>2, <1>3, TimeoutsAssumption DEF TimeoutsAssumption, IntervalInv, LongestSilence
<1> QED
    BY <1>4, <1>5 DEF IInv

\* Every step of Heartbeat, of the clock and of the reader keeps the bounds.
LEMMA NextIInv == IInv /\ [Next]_vars => IInv'
<1> SUFFICES ASSUME IInv, [Next]_vars PROVE IInv'
    OBVIOUS
<1> USE TimeoutsAssumption
    DEF TimeoutsAssumption, IInv, TypeOK, IntervalInv, GraceInv, DoneInv, WaitInv, LongestSilence, LongestAnswer
<1>1. CASE Tick
    BY <1>1 DEF Tick
<1>2. CASE Receive
    <2>1. /\ idle' = 0 /\ sincePing' = 0 /\ ~ pinged' /\ pinged' \in BOOLEAN
          /\ phase' = phase /\ wait' = wait
        BY <1>2 DEF Receive
    <2>2. TypeOK' /\ DoneInv' /\ WaitInv'
        BY <2>1
    <2>3. IntervalInv' /\ GraceInv'
        BY <2>1
    <2> QED
        BY <2>2, <2>3
<1>3. CASE GiveUp
    BY <1>3 DEF GiveUp, Expired, Overdue
<1>4. CASE Quiet
    BY <1>4 DEF Quiet, Expired, Overdue, NextCheck, Jitters
<1>5. CASE Ping
    BY <1>5 DEF Ping, Expired, Overdue, WaitForAnswer
<1>6. CASE AfterGrace
    BY <1>6 DEF AfterGrace, Expired, Overdue, NextCheck, Jitters
<1>7. CASE UNCHANGED vars
    BY <1>7 DEF vars
<1> QED
    BY <1>1, <1>2, <1>3, <1>4, <1>5, <1>6, <1>7 DEF Next

THEOREM Invariance == Spec => []IInv
  BY InitIInv, NextIInv, PTL DEF Spec

\* Heartbeat puts up with less than HardIdle + Interval + MaxJitter of silence,
\* whatever the random delays.
THEOREM SilenceBound == Spec => []IdleBounded
<1>1. IInv => IdleBounded
    BY TimeoutsAssumption
    DEF TimeoutsAssumption, IInv, IdleBounded, TypeOK, IntervalInv, GraceInv, LongestSilence
<1> QED
    BY <1>1, Invariance, PTL

\* A ping left unanswered ends the session within the grace wait and an interval
\* (not within the 30 s of api_specification.md:102).
THEOREM AnswerBound == Spec => []AnswerBounded
<1>1. IInv => AnswerBounded
    BY TimeoutsAssumption
    DEF TimeoutsAssumption, IInv, AnswerBounded, TypeOK, IntervalInv, GraceInv, DoneInv, LongestAnswer
<1> QED
    BY <1>1, Invariance, PTL

\* Heartbeat never pings twice in one silence: the check after the first ping's
\* grace wait and interval finds HardIdle.
THEOREM OnePing == Spec => OnePingPerSilence
<1>1. IInv /\ [Next]_vars => [Ping => ~ pinged]_vars
    BY TimeoutsAssumption
    DEF TimeoutsAssumption, IInv, TypeOK, IntervalInv, Ping, Expired, Overdue
<1> QED
    BY <1>1, Invariance, PTL DEF Spec, OnePingPerSilence
=============================================================================
