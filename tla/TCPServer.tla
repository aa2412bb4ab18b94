------------------------------- MODULE TCPServer -------------------------------
(***************************************************************************)
(* The TCP server (Adapters/Inbound/Tcp/Base/Server.hpp, of which TCPServer *)
(* is the instance): the accept loop and its retry, the set m_sessions of   *)
(* weak pointers, the deleter that ends a session, Stop, and the return of  *)
(* Run once the io_context has nothing left to do.                          *)
(*                                                                         *)
(* The server's handlers run on a strand of its own, modelled as the FIFO   *)
(* of the ready ones; every handler is one action.  A session is what       *)
(* SessionLifecycle says of it, and TCPSession implements that: it moves on *)
(* its own strand, at any time, between any two handlers of the server.     *)
(***************************************************************************)
EXTENDS Naturals, Sequences

CONSTANT Sessions    \* the connections that may be accepted, each once

VARIABLES
    m_is_stopped,    \* the flag Stop exchanges
    strand,          \* FIFO of the handlers ready to run on m_strand
    acceptor,        \* "open" or "closed"
    accepting,       \* an async_accept is in flight
    retrying,        \* the one second timer of a failed accept is running
    signals,         \* the signal_set is waiting
    m_work_guard,    \* keeps the io_context running with nothing to do
    m_sessions,      \* sessions with an entry in the set
    phase,           \* phase of each session
    returned         \* Run has returned

stopVars == <<m_is_stopped, signals, m_work_guard, returned>>
vars == <<m_is_stopped, strand, acceptor, accepting, retrying, signals, m_work_guard,
          m_sessions, phase, returned>>

(***************************************************************************)
(* A session's phases: those of SessionLifecycle, before them "none", and   *)
(* after the last "deleted".  The shared pointers to a session are gone     *)
(* once it is "released", and the deleter has posted its deletion.         *)
(***************************************************************************)
Held    == {"open", "closing", "closed"}
HeldNow == {s \in Sessions : phase[s] \in Held}

(***************************************************************************)
(* The strand.                                                             *)
(***************************************************************************)
Task(what)   == [run |-> what, session |-> "none"]
EraseTask(s) == [run |-> "erase", session |-> s]

Runs(what, posts) ==
    /\ strand # <<>>
    /\ Head(strand).run = what
    /\ strand' = Tail(strand) \o posts

\* The io_context completes an operation by queueing its handler.
Posts(task) == strand' = Append(strand, task)

\* Init is the state Run leaves: listening, StartAcceptor posted, threads running.
Init ==
    /\ m_is_stopped = FALSE /\ returned = FALSE
    /\ strand = <<Task("start")>>
    /\ acceptor = "open" /\ accepting = FALSE /\ retrying = FALSE
    /\ signals = TRUE /\ m_work_guard = TRUE
    /\ m_sessions = {} /\ phase = [s \in Sessions |-> "none"]

(***************************************************************************)
(* The accept loop.                                                        *)
(***************************************************************************)
StartAcceptor == accepting' = (accepting \/ ~ m_is_stopped)

\* The posted start, and the timer of a failed accept.
RunStarts ==
    /\ Runs("start", <<>>) \/ Runs("retry", <<>>)
    /\ StartAcceptor
    /\ UNCHANGED <<stopVars, acceptor, retrying, m_sessions, phase>>

OnAcceptStopped ==
    /\ Runs("accepted", <<>>) \/ Runs("failed", <<>>)
    /\ m_is_stopped
    /\ acceptor' = "closed"
    /\ UNCHANGED <<stopVars, accepting, retrying, m_sessions, phase>>

\* Mutant: OnAccept starts the session without entering it in m_sessions.
OnAcceptUntracked(s) ==
    /\ phase[s] = "none"
    /\ Runs("accepted", <<>>) /\ ~ m_is_stopped
    /\ phase' = [phase EXCEPT ![s] = "open"]
    /\ StartAcceptor
    /\ UNCHANGED <<stopVars, acceptor, retrying, m_sessions>>

\* A session is made, entered in the set and started, and the loop goes on.
OnAcceptSession(s) ==
    /\ phase[s] = "none"
    /\ Runs("accepted", <<>>) /\ ~ m_is_stopped
    /\ phase' = [phase EXCEPT ![s] = "open"]
    /\ m_sessions' = m_sessions \union {s}
    /\ StartAcceptor
    /\ UNCHANGED <<stopVars, acceptor, retrying>>

\* remote_endpoint throws when the peer is gone already; the lambda of
\* StartAcceptor logs the exception, and nothing accepts again.
OnAcceptThrows ==
    /\ Runs("accepted", <<>>) /\ ~ m_is_stopped
    /\ UNCHANGED <<stopVars, acceptor, accepting, retrying, m_sessions, phase>>

\* Mutants: a failed accept starts another besides its timer; it is only logged.
OnAcceptHurries ==
    /\ Runs("failed", <<>>) /\ ~ m_is_stopped
    /\ retrying' = TRUE /\ StartAcceptor
    /\ UNCHANGED <<stopVars, acceptor, m_sessions, phase>>
OnAcceptGivesUp ==
    /\ Runs("failed", <<>>) /\ ~ m_is_stopped
    /\ UNCHANGED <<stopVars, acceptor, accepting, retrying, m_sessions, phase>>

OnAcceptFailed ==
    /\ Runs("failed", <<>>) /\ ~ m_is_stopped
    /\ retrying' = TRUE
    /\ UNCHANGED <<stopVars, acceptor, accepting, m_sessions, phase>>

OnAccept ==
    \/ OnAcceptStopped \/ OnAcceptThrows \/ OnAcceptFailed
    \/ \E s \in Sessions : OnAcceptSession(s)

(***************************************************************************)
(* Stop, called by the handler of the signals.                             *)
(***************************************************************************)
SignalHandled ==
    /\ Runs("signal", IF m_is_stopped THEN <<>> ELSE <<Task("stop")>>)
    /\ m_is_stopped' = TRUE
    /\ UNCHANGED <<acceptor, accepting, retrying, signals, m_work_guard, m_sessions, phase, returned>>

\* Shutdown of every session an entry still leads to; only an open one minds.
ShutdownAll ==
    [s \in Sessions |-> IF s \in m_sessions /\ phase[s] = "open" THEN "closing" ELSE phase[s]]

\* Mutants: Stop leaves the guard, or the acceptor, as it is.
StopKeepsGuard ==
    /\ Runs("stop", <<>>)
    /\ acceptor' = "closed"
    /\ phase' = ShutdownAll
    /\ m_sessions' = {}
    /\ UNCHANGED <<m_is_stopped, accepting, retrying, signals, m_work_guard, returned>>

StopKeepsAcceptor ==
    /\ Runs("stop", <<>>)
    /\ phase' = ShutdownAll
    /\ m_sessions' = {}
    /\ m_work_guard' = FALSE
    /\ UNCHANGED <<m_is_stopped, acceptor, accepting, retrying, signals, returned>>

Stop ==
    /\ Runs("stop", <<>>)
    /\ acceptor' = "closed"
    /\ phase' = ShutdownAll
    /\ m_sessions' = {}
    /\ m_work_guard' = FALSE
    /\ UNCHANGED <<m_is_stopped, accepting, retrying, signals, returned>>

(***************************************************************************)
(* The sessions.                                                           *)
(***************************************************************************)
SessionMoves(s, from, to) ==
    /\ phase[s] \in from
    /\ phase' = [phase EXCEPT ![s] = to]
    /\ UNCHANGED <<stopVars, acceptor, accepting, retrying, m_sessions>>

SessionShutdown(s) == SessionMoves(s, {"open"}, "closing") /\ UNCHANGED strand
SessionCloses(s)   == SessionMoves(s, {"closing"}, "closed") /\ UNCHANGED strand

\* Mutant: once the server has stopped the deleter posts nothing.
ReleasesSilently(s) ==
    /\ SessionMoves(s, {"closing", "closed"}, "released")
    /\ IF m_is_stopped THEN UNCHANGED strand ELSE Posts(EraseTask(s))

\* The last reference goes, with the closing handler or later, on any thread:
\* the deleter posts the deletion to the server's strand.
SessionReleased(s) ==
    /\ SessionMoves(s, {"closing", "closed"}, "released")
    /\ Posts(EraseTask(s))

EraseKeepsEntry(s) ==                                 \* mutant
    /\ Runs("erase", <<>>) /\ Head(strand).session = s
    /\ phase' = [phase EXCEPT ![s] = "deleted"]
    /\ UNCHANGED <<stopVars, acceptor, accepting, retrying, m_sessions>>

SessionErased(s) ==
    /\ Runs("erase", <<>>) /\ Head(strand).session = s
    /\ m_sessions' = m_sessions \ {s}
    /\ phase' = [phase EXCEPT ![s] = "deleted"]
    /\ UNCHANGED <<stopVars, acceptor, accepting, retrying>>

(***************************************************************************)
(* The environment: the io_context and the operating system.               *)
(***************************************************************************)
\* An accept succeeds, fails (out of descriptors), or is aborted by close.
AcceptEnds ==
    /\ accepting /\ accepting' = FALSE
    /\ \/ acceptor = "open" /\ (\E s \in Sessions : phase[s] = "none") /\ Posts(Task("accepted"))
       \/ Posts(Task("failed"))
    /\ UNCHANGED <<stopVars, acceptor, retrying, m_sessions, phase>>

AcceptAborted == acceptor = "closed" /\ AcceptEnds

TimerExpires ==
    /\ retrying /\ retrying' = FALSE
    /\ Posts(Task("retry"))
    /\ UNCHANGED <<stopVars, acceptor, accepting, m_sessions, phase>>

Signal ==
    /\ signals /\ signals' = FALSE
    /\ Posts(Task("signal"))
    /\ UNCHANGED <<m_is_stopped, acceptor, accepting, retrying, m_work_guard, m_sessions, phase,
                   returned>>

\* What keeps io_context::run from returning: the guard, an operation, a handler.
\* A session that is held has one or the other.
Work ==
    \/ m_work_guard \/ accepting \/ retrying \/ signals
    \/ strand # <<>> \/ HeldNow # {}

RunReturns ==
    /\ ~ Work /\ ~ returned
    /\ returned' = TRUE
    /\ UNCHANGED <<m_is_stopped, strand, acceptor, accepting, retrying, signals, m_work_guard,
                   m_sessions, phase>>

-----------------------------------------------------------------------------
StrandRuns ==
    \/ RunStarts \/ OnAccept \/ SignalHandled \/ Stop
    \/ \E s \in Sessions : SessionErased(s)

SessionSteps(s) == SessionShutdown(s) \/ SessionCloses(s) \/ SessionReleased(s)

Next ==
    \/ StrandRuns
    \/ \E s \in Sessions : SessionSteps(s)
    \/ AcceptEnds \/ TimerExpires \/ Signal \/ RunReturns

Spec == Init /\ [][Next]_vars

(***************************************************************************)
(* The threads run every ready handler, timers expire, a closed acceptor    *)
(* aborts its accept, run returns when it has no work, and the posted half  *)
(* of a session's Shutdown runs.  Nothing makes a closed session let go of  *)
(* its last reference: a reader that waits after the cancel never does      *)
(* (TCPSession's ShutdownReleases).                                         *)
(***************************************************************************)
FairSpec ==
    /\ Spec
    /\ WF_vars(StrandRuns) /\ WF_vars(TimerExpires) /\ WF_vars(AcceptAborted)
    /\ WF_vars(RunReturns)
    /\ \A s \in Sessions : WF_vars(SessionCloses(s))
-----------------------------------------------------------------------------
(***************************************************************************)
(* Safety.                                                                 *)
(***************************************************************************)
Queued(whats) == {i \in 1..Len(strand) : strand[i].run \in whats}

AtMostOneOf(set) == \A x, y \in set : x = y

\* The posted half of Stop has run.
Stopped == ~ m_work_guard

\* The stages an accept goes round in, of which one at most is taken.
AcceptStages ==
    (IF accepting THEN {<<"accepting", 0>>} ELSE {})
        \union (IF retrying THEN {<<"retrying", 0>>} ELSE {})
        \union {<<"queued", i>> : i \in Queued({"start", "accepted", "failed", "retry"})}

\* There is one accept loop: a retry or a new session never starts a second.
OneAcceptLoop == AtMostOneOf(AcceptStages)

\* Until the server stops, the loop is somewhere in its round ("Start to accept
\* another session", Server.hpp:83).
AcceptLoopLives == ~ m_is_stopped => AcceptStages # {}

\* Stop reaches every session: one that is not deleted has its entry for as long
\* as Stop has not run, and when it has run none is left open, one accepted at
\* the last moment included.
StopReachesAll ==
    IF Stopped THEN \A s \in Sessions : phase[s] # "open"
    ELSE \A s \in Sessions : phase[s] \in Held \union {"released"} => s \in m_sessions

\* Each session that is released has one deletion posted, no other has one, and
\* a deleted one leaves no entry behind.
DeletedOnce ==
    \A s \in Sessions :
        LET erases == {i \in Queued({"erase"}) : strand[i].session = s}
        IN  /\ AtMostOneOf(erases)
            /\ erases # {} <=> phase[s] = "released"
            /\ phase[s] \in {"none", "deleted"} => s \notin m_sessions

\* When Run returns every session has been deleted, by a thread of the pool:
\* nothing is left for the destructors to run into.
ReturnsClean ==
    returned => /\ m_is_stopped /\ acceptor = "closed"
                /\ \A s \in Sessions : phase[s] \in {"none", "deleted"}

(***************************************************************************)
(* Liveness, under FairSpec.                                               *)
(***************************************************************************)
\* The server itself has come to rest: only closed sessions keep run going.
LeftToSessions ==
    /\ ~ (m_work_guard \/ accepting \/ retrying \/ signals) /\ strand = <<>>
    /\ HeldNow # {} /\ \A s \in HeldNow : phase[s] = "closed"

\* A signal makes Run return, whatever the accept loop was doing, or leaves it
\* waiting for closed sessions that something still holds and for nothing
\* else; and once the last of these is released, Run returns.
SignalLeavesOnlySessions ==
    /\ (~ signals) ~> (returned \/ LeftToSessions)
    /\ (Stopped /\ HeldNow = {}) ~> returned

\* A released session is deleted, before and after Stop.
ReleasedIsDeleted == \A s \in Sessions : phase[s] = "released" ~> phase[s] = "deleted"

\* A failed accept is tried again, unless the server stops.
FailedAcceptRetried ==
    (retrying \/ Queued({"failed", "retry"}) # {}) ~> (accepting \/ m_is_stopped)
=============================================================================
