---------------------------- MODULE HeartbeatTiming ----------------------------
(***************************************************************************)
(* The clock of a session's Heartbeat coroutine (TCPSession.cpp): when it   *)
(* pings and when it gives up, in ticks of one unit of time.  TCPSession    *)
(* models what the coroutine does among the other handlers of the session,  *)
(* this module how long it takes.  A handler runs within the tick in which  *)
(* its timer expires.                                                       *)
(***************************************************************************)
EXTENDS Naturals

CONSTANTS
    Interval,    \* time between two checks
    MaxJitter,   \* longest random delay added to it
    SoftIdle,    \* silence after which the client is pinged
    HardIdle,    \* silence after which the session is shut down
    GraceWait    \* wait between the ping and the check that follows it

ASSUME TimeoutsAssumption ==
    /\ Interval \in Nat \ {0} /\ MaxJitter \in Nat /\ SoftIdle \in Nat
    /\ HardIdle \in Nat /\ GraceWait \in Nat \ {0}
    /\ SoftIdle < HardIdle /\ GraceWait <= Interval
    /\ HardIdle <= SoftIdle + GraceWait + Interval

VARIABLES
    phase,       \* the wait Heartbeat is in: "interval", "grace", or "done"
    wait,        \* ticks until m_hb_timer expires
    idle,        \* ticks since m_last_rx
    pinged,      \* a ping went out since m_last_rx
    sincePing    \* ticks since that ping

vars == <<phase, wait, idle, pinged, sincePing>>

Jitters == 0..MaxJitter

NextCheck == \E jitter \in Jitters : phase' = "interval" /\ wait' = Interval + jitter

Init ==
    /\ phase = "interval" /\ wait \in {Interval + jitter : jitter \in Jitters}
    /\ idle = 0 /\ pinged = FALSE /\ sincePing = 0

Tick ==
    /\ phase # "done" /\ wait > 0
    /\ wait' = wait - 1
    /\ idle' = idle + 1
    /\ sincePing' = IF pinged THEN sincePing + 1 ELSE 0
    /\ UNCHANGED <<phase, pinged>>

\* ReadLoop has read a header or a body and set m_last_rx.
Receive ==
    /\ phase # "done"
    /\ idle' = 0 /\ pinged' = FALSE /\ sincePing' = 0
    /\ UNCHANGED <<phase, wait>>

Expired(during) == phase = during /\ wait = 0

\* Mutants: off by one; the check at the end of an interval forgets HardIdle.
OverdueLate        == idle > HardIdle
OverdueInGraceOnly == phase = "grace" /\ idle >= HardIdle

Overdue == idle >= HardIdle

GiveUp ==
    /\ Expired("interval") \/ Expired("grace")
    /\ Overdue
    /\ phase' = "done"
    /\ UNCHANGED <<wait, idle, pinged, sincePing>>

Quiet ==
    /\ Expired("interval") /\ ~ Overdue
    /\ idle < SoftIdle
    /\ NextCheck
    /\ UNCHANGED <<idle, pinged, sincePing>>

WaitSoftIdle == phase' = "grace" /\ wait' = SoftIdle      \* mutant: the wrong constant

WaitForAnswer == phase' = "grace" /\ wait' = GraceWait

Ping ==
    /\ Expired("interval") /\ ~ Overdue
    /\ idle >= SoftIdle
    /\ WaitForAnswer
    /\ pinged' = TRUE /\ sincePing' = 0
    /\ UNCHANGED idle

AfterGrace ==
    /\ Expired("grace") /\ ~ Overdue
    /\ NextCheck
    /\ UNCHANGED <<idle, pinged, sincePing>>

Next == Tick \/ Receive \/ GiveUp \/ Quiet \/ Ping \/ AfterGrace

Spec == Init /\ [][Next]_vars

-----------------------------------------------------------------------------
\* The phase, the clocks and the ping flag stay in their ranges: in particular
\* no wait is armed with a time already past.
TypeOK ==
    /\ phase \in {"interval", "grace", "done"}
    /\ wait \in Nat /\ idle \in Nat /\ sincePing \in Nat
    /\ pinged \in BOOLEAN

\* The longest silence Heartbeat puts up with: from the check that just misses
\* HardIdle to the next one.  No session lives through it.
LongestSilence == HardIdle + Interval + MaxJitter

IdleBounded == phase # "done" => idle < LongestSilence

\* One ping per silence: the check after it is the last, because SoftIdle, the
\* grace wait and an interval make up HardIdle.
OnePingPerSilence == [][Ping => ~ pinged]_vars

\* So a client that leaves a ping unanswered is given up at most this much later,
\* 40.5 s with the values of Timeouts.hpp; and it may be given up after GraceWait,
\* 10 s, when HardIdle falls in that wait.  api_specification.md:102 says 30 s:
\* the code has no such time, and meets the document neither way.
LongestAnswer == GraceWait + Interval + MaxJitter

AnswerBounded == pinged => sincePing <= LongestAnswer

\* "Ping after 45 s without a packet, closed when the ping is left unanswered"
\* (api_specification.md): a session is given up only after a ping.  Two checks
\* can lie on either side of the whole span from SoftIdle to HardIdle.
ClosedOnlyAfterPing == [][GiveUp => pinged]_vars
=============================================================================
