------------------------------ MODULE TCPSession ------------------------------
(***************************************************************************)
(* One TCP session of the backend                                          *)
(* (Adapters/Inbound/Tcp/Session/TCPSession.{hpp,cpp}): two coroutines,     *)
(* ReadLoop and Heartbeat, a write queue drained by one asynchronous write  *)
(* at a time, and Shutdown, which a session calls on itself and which the   *)
(* server calls from a thread of its own.                                  *)
(*                                                                         *)
(* Everything but that last call runs on the strand m_strand.  The strand   *)
(* is modelled as what it is, the FIFO of the handlers that are ready to    *)
(* run: a post appends to it, the completion of an asynchronous operation   *)
(* appends to it (Complete), and every handler is one action that takes     *)
(* the first one and runs it to its next suspension point.                  *)
(***************************************************************************)
EXTENDS Naturals, Sequences, FrameSums

CONSTANTS
    MaxBodySize,     \* largest body of a frame, either way
    LowWater,        \* pending bytes at or below which reading resumes
    HighWater,       \* pending bytes above which reading pauses
    HardCap,         \* pending bytes above which the session gives up
    MaxBatchBytes,   \* most bytes of one gathered write
    MaxIovPerWrite,  \* most buffers of one gathered write
    SizeMax,         \* largest value of size_t
    ResponseBodies,  \* body sizes of the frames the handlers send
    HeaderSizes,     \* data_size values a peer puts in a header
    HeaderVersions   \* api_version values a peer puts in a header

ASSUME LimitsAssumption ==
    /\ MaxBodySize \in Nat /\ LowWater \in Nat /\ HighWater \in Nat
    /\ HardCap \in Nat /\ MaxBatchBytes \in Nat /\ MaxIovPerWrite \in Nat
    /\ SizeMax \in Nat
    /\ LowWater <= HighWater /\ HighWater <= HardCap /\ HardCap <= SizeMax
    /\ MaxIovPerWrite >= 2

ASSUME InputsAssumption ==
    ResponseBodies \subseteq Nat /\ HeaderSizes \subseteq Nat /\ HeaderVersions \subseteq Nat

VARIABLES
    m_is_closed,     \* the atomic flag Shutdown exchanges
    stopping,        \* a server thread is between that exchange and its post
    strand,          \* FIFO of the handlers ready to run on m_strand
    pending,         \* asynchronous operations started and not yet completed
    cancelled,       \* those of them that were cancelled
    sock,            \* "open" until the posted half of Shutdown closes it
    m_write_queue,   \* body sizes of the frames to send, oldest first
    m_pending_bytes,
    m_is_writing,
    m_backpressure,
    batch,           \* what the handler of the write in flight captured
    reader,          \* where ReadLoop is suspended
    heartbeat,       \* where Heartbeat is suspended
    idle             \* age of m_last_rx, against SoftIdle and HardIdle

queueVars  == <<m_write_queue, m_pending_bytes, m_is_writing, m_backpressure, batch>>
closeVars  == <<m_is_closed, stopping>>
vars == <<m_is_closed, stopping, strand, pending, cancelled, sock, m_write_queue,
          m_pending_bytes, m_is_writing, m_backpressure, batch, reader, heartbeat, idle>>

(***************************************************************************)
(* The wire header (Protocol.hpp, ApiVersion.hpp).                         *)
(***************************************************************************)
KeepAliveServices == {"Ping", "Pong"}
RequestServices   == {"Login", "Receiving"}
Services          == KeepAliveServices \union RequestServices

Headers == [service : Services \union {"TypeCnt"}, size : HeaderSizes, version : HeaderVersions]

V1 == 1
IsSupported(service, version) == service \in Services /\ version = V1

\* The checks ReadLoop makes between the header and the body.
WellFormed(h) ==
    /\ IsSupported(h.service, h.version)
    /\ IF h.service \in KeepAliveServices THEN h.size = 0 ELSE h.size \in 1..MaxBodySize

(***************************************************************************)
(* The strand and the asynchronous operations.                             *)
(***************************************************************************)
Operations == {"reader", "heartbeat", "write"}

Tasks == [run : Operations \union {"send", "close"}, ok : BOOLEAN, body : Nat]

SendTask(body) == [run |-> "send", ok |-> TRUE, body |-> body]
CloseTask      == [run |-> "close", ok |-> TRUE, body |-> 0]
OpTask(op, ok) == [run |-> op, ok |-> ok, body |-> 0]

\* The strand runs its first task, of the given kind, which posts the tasks given.
Runs(what, posts) ==
    /\ strand # <<>>
    /\ Head(strand).run = what
    /\ strand' = Tail(strand) \o posts

Started(op) == pending' = pending \union {op}

\* A timer wait is ended early by cancel, a read or a write by cancel and close.
\* The handler's await on the database is neither.
Cancellable == {op \in pending : ~ (op = "reader" /\ reader = "handler")}

\* Mutants: Shutdown posts again; it leaves the write in flight to finish.
ShutdownPostsTwice    == <<CloseTask>>
ShutdownAwaitsWrite == IF m_is_closed \/ m_is_writing THEN <<>> ELSE <<CloseTask>>

\* What Shutdown posts: nothing when the flag was already set.
ShutdownPosts == IF m_is_closed THEN <<>> ELSE <<CloseTask>>

(***************************************************************************)
(* Init is the state StartHandling leaves: both coroutines spawned on the   *)
(* strand, m_last_rx just set.                                             *)
(***************************************************************************)
NoBatch == [items |-> 0, bytes |-> 0]

Init ==
    /\ m_is_closed = FALSE /\ stopping = FALSE
    /\ strand = <<OpTask("reader", TRUE), OpTask("heartbeat", TRUE)>>
    /\ pending = {} /\ cancelled = {}
    /\ sock = "open"
    /\ m_write_queue = <<>> /\ m_pending_bytes = 0
    /\ m_is_writing = FALSE /\ m_backpressure = FALSE /\ batch = NoBatch
    /\ reader = "start" /\ heartbeat = "start"
    /\ idle = "fresh"

(***************************************************************************)
(* SendFrame, Drain and the completion of the write.                       *)
(***************************************************************************)
FitsAfterSecond(queue, n) ==          \* mutant: the second item is not checked
    \A k \in 3..n : /\ IovsOf(queue)[k] <= MaxIovPerWrite
                    /\ BytesOf(queue)[k] <= MaxBatchBytes

\* How many items of the queue one write gathers: the longest prefix within
\* both limits, and the first item whatever its size.
Fits(queue, n) ==
    \A k \in 2..n : /\ IovsOf(queue)[k] <= MaxIovPerWrite
                    /\ BytesOf(queue)[k] <= MaxBatchBytes

BatchItems(queue) ==
    CHOOSE n \in 1..Len(queue) :
        Fits(queue, n) /\ (n < Len(queue) => ~ Fits(queue, n + 1))

StartWrite(queue, bytes) ==
    /\ m_is_writing' = TRUE
    /\ batch' = [items |-> BatchItems(queue), bytes |-> bytes]
    /\ Started("write")

NoWrite ==
    /\ m_is_writing' = FALSE
    /\ batch' = NoBatch
    /\ UNCHANGED pending

\* Mutants: a closed session still writes; the handler is told the bytes of the
\* whole queue; nothing is written while reading is paused.
DrainThoughClosed(queue, closed) ==
    IF queue = <<>> THEN NoWrite ELSE StartWrite(queue, BytesOf(queue)[BatchItems(queue)])
DrainCountsAll(queue, closed) ==
    IF closed \/ queue = <<>> THEN NoWrite ELSE StartWrite(queue, QueueBytes(queue))
DrainUnlessPaused(queue, closed) ==
    IF closed \/ queue = <<>> \/ m_backpressure
    THEN NoWrite ELSE StartWrite(queue, BytesOf(queue)[BatchItems(queue)])

Drain(queue, closed) ==
    IF closed \/ queue = <<>>
    THEN NoWrite ELSE StartWrite(queue, BytesOf(queue)[BatchItems(queue)])

\* SendFrame starts the drain unless a write is in flight.
DrainAgain(queue, closed) == Drain(queue, closed)     \* mutant: or whenever

DrainIfIdle(queue, closed) ==
    IF m_is_writing
    THEN UNCHANGED <<m_is_writing, batch, pending>>
    ELSE Drain(queue, closed)

KeepAliveFirst(body) ==                               \* mutant
    IF body = 0 THEN <<body>> \o m_write_queue ELSE Append(m_write_queue, body)

Enqueued(body) == Append(m_write_queue, body)

Oversized(body) ==
    body > MaxBodySize \/ SizeMax - m_pending_bytes < FrameBytes(body)

\* The posted half of SendFrame, one action for each way out of it.
SendDropped ==
    /\ Runs("send", <<>>)
    /\ m_is_closed
    /\ UNCHANGED <<closeVars, pending, cancelled, sock, queueVars, reader, heartbeat, idle>>

\* Shutdown, called by a handler that has read the flag clear: it posts, unless a
\* server thread has set the flag since, and then that thread is to post.
SendShutsDown ==
    /\ m_is_closed' = TRUE
    /\ \/ Runs("send", <<CloseTask>>) /\ UNCHANGED stopping
       \/ Runs("send", <<>>) /\ stopping' = TRUE

SendOversized ==
    /\ ~ m_is_closed /\ SendShutsDown
    /\ Oversized(Head(strand).body)
    /\ UNCHANGED <<pending, cancelled, sock, queueVars, reader, heartbeat, idle>>

SendOverCap ==
    /\ ~ m_is_closed /\ SendShutsDown
    /\ ~ Oversized(Head(strand).body)
    /\ m_pending_bytes' = m_pending_bytes + FrameBytes(Head(strand).body)
    /\ m_pending_bytes' > HardCap
    /\ UNCHANGED <<pending, cancelled, sock, m_write_queue, m_is_writing, m_backpressure,
                   batch, reader, heartbeat, idle>>

\* A server thread may set m_is_closed after SendFrame has read it and before
\* Drain reads it again.
SendQueued ==
    /\ Runs("send", <<>>)
    /\ ~ m_is_closed /\ ~ Oversized(Head(strand).body)
    /\ m_pending_bytes' = m_pending_bytes + FrameBytes(Head(strand).body)
    /\ m_pending_bytes' <= HardCap
    /\ m_backpressure' = (m_backpressure \/ m_pending_bytes' > HighWater)
    /\ m_write_queue' = Enqueued(Head(strand).body)
    /\ \/ UNCHANGED closeVars
       \/ m_is_closed' = TRUE /\ stopping' = TRUE
    /\ DrainIfIdle(m_write_queue', m_is_closed')
    /\ UNCHANGED <<cancelled, sock, reader, heartbeat, idle>>

SendFrame == SendDropped \/ SendOversized \/ SendOverCap \/ SendQueued

WriteFailed ==
    /\ Runs("write", ShutdownPosts)
    /\ ~ Head(strand).ok
    /\ m_is_writing' = FALSE
    /\ batch' = NoBatch
    /\ m_is_closed' = TRUE
    /\ UNCHANGED <<stopping, pending, cancelled, sock, m_write_queue, m_pending_bytes,
                   m_backpressure, reader, heartbeat, idle>>

StaysPausedAtLow(bytes) == m_backpressure /\ bytes >= LowWater     \* mutant

\* Reading stays paused until the backlog is down to LowWater.
StaysPaused(bytes) == m_backpressure /\ bytes > LowWater

LeaveReader == cancelled                                          \* mutant

\* m_resume_read.cancel(): ends the wait of a parked reader, if it has one.
WakeReader ==
    IF reader = "parked" THEN cancelled \union (pending \intersect {"reader"}) ELSE cancelled

WriteDone ==
    /\ Runs("write", <<>>)
    /\ Head(strand).ok
    /\ m_write_queue' = SubSeq(m_write_queue, batch.items + 1, Len(m_write_queue))
    /\ m_pending_bytes' = m_pending_bytes - batch.bytes
    /\ m_backpressure' = StaysPaused(m_pending_bytes')
    /\ cancelled' = IF m_backpressure /\ ~ m_backpressure' THEN WakeReader ELSE cancelled
    /\ Drain(m_write_queue', m_is_closed)
    /\ UNCHANGED <<closeVars, sock, reader, heartbeat, idle>>

(***************************************************************************)
(* ReadLoop: each action runs it from one co_await to the next.            *)
(***************************************************************************)
ReaderFrame == UNCHANGED <<stopping, cancelled, sock, queueVars, heartbeat>>

\* The top of the loop: wait on m_resume_read under backpressure, else read.
ReadNext ==
    /\ reader' = IF m_backpressure THEN "parked" ELSE "header"
    /\ Started("reader")

ReaderEnds == reader' = "done" /\ UNCHANGED pending

ReaderStart ==
    /\ reader = "start" /\ Runs("reader", <<>>)
    /\ ReadNext
    /\ UNCHANGED <<m_is_closed, idle>> /\ ReaderFrame

\* The wait ended, by whoever cancelled it: the code reads on without looking
\* at m_backpressure or m_is_closed again.
ReaderResumed ==
    /\ reader = "parked" /\ Runs("reader", <<>>)
    /\ reader' = "header" /\ Started("reader")
    /\ UNCHANGED <<m_is_closed, idle>> /\ ReaderFrame

ReadFailed ==
    /\ reader \in {"header", "body"} /\ Runs("reader", ShutdownPosts)
    /\ ~ Head(strand).ok
    /\ m_is_closed' = TRUE /\ ReaderEnds
    /\ UNCHANGED idle /\ ReaderFrame

HeaderRefused ==
    /\ reader = "header" /\ Runs("reader", ShutdownPosts)
    /\ Head(strand).ok
    /\ \E h \in Headers : ~ WellFormed(h)
    /\ m_is_closed' = TRUE /\ ReaderEnds
    /\ idle' = "fresh" /\ ReaderFrame

KeepAliveRead ==
    /\ reader = "header"
    /\ \E h \in Headers :
          /\ WellFormed(h) /\ h.service \in KeepAliveServices
          /\ Runs("reader", IF h.service = "Ping" THEN <<SendTask(0)>> ELSE <<>>)
    /\ Head(strand).ok
    /\ ReadNext
    /\ idle' = "fresh" /\ UNCHANGED m_is_closed /\ ReaderFrame

RequestRead ==
    /\ reader = "header" /\ Runs("reader", <<>>)
    /\ Head(strand).ok
    /\ \E h \in Headers : WellFormed(h) /\ h.service \in RequestServices
    /\ reader' = "body" /\ Started("reader")
    /\ idle' = "fresh" /\ UNCHANGED m_is_closed /\ ReaderFrame

\* A service with no handler of its own: the default one closes the session
\* and returns, and the loop goes on.
BodyUnhandled ==
    /\ reader = "body" /\ Runs("reader", ShutdownPosts)
    /\ Head(strand).ok
    /\ m_is_closed' = TRUE /\ ReadNext
    /\ idle' = "fresh" /\ ReaderFrame

\* A login body that does not decode: the handler returns without an answer.
BodyMalformed ==
    /\ reader = "body" /\ Runs("reader", <<>>)
    /\ Head(strand).ok
    /\ ReadNext
    /\ idle' = "fresh" /\ UNCHANGED m_is_closed /\ ReaderFrame

\* A login body that does: the handler waits for the database.
BodyHandled ==
    /\ reader = "body" /\ Runs("reader", <<>>)
    /\ Head(strand).ok
    /\ reader' = "handler" /\ Started("reader")
    /\ idle' = "fresh" /\ UNCHANGED m_is_closed /\ ReaderFrame

HandlerAnswers ==
    /\ reader = "handler"
    /\ \E body \in ResponseBodies : Runs("reader", <<SendTask(body)>>)
    /\ ReadNext
    /\ UNCHANGED <<m_is_closed, idle>> /\ ReaderFrame

HandlerThrows ==
    /\ reader = "handler" /\ Runs("reader", ShutdownPosts)
    /\ m_is_closed' = TRUE /\ ReaderEnds
    /\ UNCHANGED idle /\ ReaderFrame

ReadLoop ==
    \/ ReaderStart \/ ReaderResumed \/ ReadFailed
    \/ HeaderRefused \/ KeepAliveRead \/ RequestRead
    \/ BodyUnhandled \/ BodyMalformed \/ BodyHandled
    \/ HandlerAnswers \/ HandlerThrows

(***************************************************************************)
(* Heartbeat.                                                              *)
(***************************************************************************)
HeartbeatFrame == UNCHANGED <<stopping, cancelled, sock, queueVars, reader, idle>>

HeartbeatRestsWhenPaused ==                                       \* mutant
    IF m_is_closed \/ m_backpressure
    THEN heartbeat' = "done" /\ UNCHANGED pending
    ELSE heartbeat' = "interval" /\ Started("heartbeat")

HeartbeatNext ==
    IF m_is_closed
    THEN heartbeat' = "done" /\ UNCHANGED pending
    ELSE heartbeat' = "interval" /\ Started("heartbeat")

HeartbeatStart ==
    /\ heartbeat = "start" /\ Runs("heartbeat", <<>>)
    /\ HeartbeatNext
    /\ UNCHANGED m_is_closed /\ HeartbeatFrame

\* A wait was cancelled, or it ran out and the peer is not overdue.
HeartbeatAgain ==
    /\ heartbeat \in {"interval", "grace"} /\ Runs("heartbeat", <<>>)
    /\ Head(strand).ok => idle = "fresh" \/ (idle = "soft" /\ heartbeat = "grace")
    /\ HeartbeatNext
    /\ UNCHANGED m_is_closed /\ HeartbeatFrame

HeartbeatPings ==
    /\ heartbeat = "interval" /\ Runs("heartbeat", <<SendTask(0)>>)
    /\ Head(strand).ok /\ idle = "soft"
    /\ heartbeat' = "grace" /\ Started("heartbeat")
    /\ UNCHANGED m_is_closed /\ HeartbeatFrame

HeartbeatGivesUp ==
    /\ heartbeat \in {"interval", "grace"} /\ Runs("heartbeat", ShutdownPosts)
    /\ Head(strand).ok /\ idle = "hard"
    /\ m_is_closed' = TRUE
    /\ heartbeat' = "done" /\ UNCHANGED pending
    /\ HeartbeatFrame

Heartbeat == HeartbeatStart \/ HeartbeatAgain \/ HeartbeatPings \/ HeartbeatGivesUp

(***************************************************************************)
(* Shutdown: the half posted to the strand, and the call Server::Stop makes *)
(* from another thread, whose exchange and post are two steps.             *)
(***************************************************************************)
\* Mutant: m_resume_read is not cancelled.
CloseLeavesReader ==
    /\ Runs("close", <<>>)
    /\ cancelled' = cancelled \union {op \in Cancellable : ~ (op = "reader" /\ reader = "parked")}
    /\ sock' = "closed"
    /\ UNCHANGED <<closeVars, pending, queueVars, reader, heartbeat, idle>>

CloseSocket ==
    /\ Runs("close", <<>>)
    /\ cancelled' = cancelled \union Cancellable
    /\ sock' = "closed"
    /\ UNCHANGED <<closeVars, pending, queueVars, reader, heartbeat, idle>>

ServerShutdown ==
    /\ ~ m_is_closed
    /\ m_is_closed' = TRUE /\ stopping' = TRUE
    /\ UNCHANGED <<strand, pending, cancelled, sock, queueVars, reader, heartbeat, idle>>

ServerShutdownPosts ==
    /\ stopping
    /\ stopping' = FALSE
    /\ strand' = Append(strand, CloseTask)
    /\ UNCHANGED <<m_is_closed, pending, cancelled, sock, queueVars, reader, heartbeat, idle>>

(***************************************************************************)
(* The environment: Asio completes an operation, time passes.              *)
(***************************************************************************)
\* The outcomes an operation may have.  m_resume_read never expires: only a
\* cancel ends that wait.  A cancel may come too late for the others.
MayEnd(op, ok) ==
    CASE op = "heartbeat"                        -> ok \/ op \in cancelled
      [] op = "reader" /\ reader = "parked"      -> ~ ok /\ op \in cancelled
      [] op = "reader" /\ reader = "handler"     -> ok
      [] OTHER                                   -> ok => sock = "open" \/ op \in cancelled

Complete(op, ok) ==
    /\ op \in pending /\ MayEnd(op, ok)
    /\ pending' = pending \ {op}
    /\ cancelled' = cancelled \ {op}
    /\ strand' = Append(strand, OpTask(op, ok))
    /\ UNCHANGED <<closeVars, sock, queueVars, reader, heartbeat, idle>>

\* Operations that end whatever the peer does.
Due(op) ==
    \/ op \in cancelled
    \/ op = "heartbeat"
    \/ op = "reader" /\ reader = "handler"
    \/ op = "reader" /\ reader \in {"header", "body"} /\ sock = "closed"
    \/ op = "write" /\ sock = "closed"

TimePasses ==
    /\ idle # "hard"
    /\ ~ m_is_closed \/ heartbeat # "done"      \* then nothing reads m_last_rx again
    /\ idle' = IF idle = "fresh" THEN "soft" ELSE "hard"
    /\ UNCHANGED <<closeVars, strand, pending, cancelled, sock, queueVars, reader, heartbeat>>

-----------------------------------------------------------------------------
StrandRuns == SendFrame \/ WriteFailed \/ WriteDone \/ ReadLoop \/ Heartbeat \/ CloseSocket

Next ==
    \/ StrandRuns
    \/ ServerShutdown \/ ServerShutdownPosts
    \/ \E op \in Operations, ok \in BOOLEAN : Complete(op, ok)
    \/ TimePasses

Spec == Init /\ [][Next]_vars

(***************************************************************************)
(* The io_context threads run every ready handler, the clock advances, a    *)
(* thread that won the exchange posts, and an operation ends once it must.  *)
(* Nothing makes the peer send or receive.                                 *)
(***************************************************************************)
Fairness ==
    /\ WF_vars(StrandRuns)
    /\ WF_vars(ServerShutdownPosts)
    /\ WF_vars(TimePasses)
    /\ \A op \in Operations : WF_vars(Due(op) /\ \E ok \in BOOLEAN : Complete(op, ok))

FairSpec == Spec /\ Fairness
-----------------------------------------------------------------------------
(***************************************************************************)
(* Type invariant.                                                         *)
(***************************************************************************)
\* The values each variable ranges over; a size_t is a natural number, so the
\* subtraction in the completion of the write never goes below zero.
TypeOK ==
    /\ m_is_closed \in BOOLEAN /\ stopping \in BOOLEAN
    /\ strand \in Seq(Tasks)
    /\ pending \subseteq Operations /\ cancelled \subseteq pending
    /\ sock \in {"open", "closed"}
    /\ m_write_queue \in Seq(Nat) /\ m_pending_bytes \in Nat
    /\ m_is_writing \in BOOLEAN /\ m_backpressure \in BOOLEAN
    /\ batch \in [items : Nat, bytes : Nat]
    /\ reader \in {"start", "parked", "header", "body", "handler", "done"}
    /\ heartbeat \in {"start", "interval", "grace", "done"}
    /\ idle \in {"fresh", "soft", "hard"}

(***************************************************************************)
(* Safety.                                                                 *)
(***************************************************************************)
Has(tasks, what) == \E i \in 1..Len(tasks) : tasks[i].run = what

AtMostOne(tasks, what) ==
    \A i, j \in 1..Len(tasks) : tasks[i].run = what /\ tasks[j].run = what => i = j

\* An operation is in flight, or has ended and its handler is on the strand.
Outstanding(op) == op \in pending \/ Has(strand, op)

\* Each coroutine is suspended in exactly one place, and there is never a
\* second write: an operation is in flight or its handler is queued, once.
SingleFlight ==
    /\ \A op \in Operations :
          /\ AtMostOne(strand, op)
          /\ ~ (op \in pending /\ Has(strand, op))
    /\ (reader # "done") <=> Outstanding("reader")
    /\ (heartbeat # "done") <=> Outstanding("heartbeat")
    /\ m_is_writing <=> Outstanding("write")

\* m_pending_bytes counts the queue exactly for as long as the session is open
\* (once it is closed the count of a frame that was over the cap stays in).
BytesAccounted ==
    ~ m_is_closed => m_pending_bytes = QueueBytes(m_write_queue)

\* The buffers handed to async_write are those of the first items of the queue,
\* which stay there, and the handler pops and subtracts what it handed over.
BatchIsQueuePrefix ==
    m_is_writing => /\ batch.items \in 1..Len(m_write_queue)
                    /\ batch.bytes = BytesOf(m_write_queue)[batch.items]
                    /\ batch.items > 1 => batch.bytes <= MaxBatchBytes

\* The two water marks and the cap: backpressure is on above HighWater, off at
\* or below LowWater, and in between it is whatever it was.
WaterMarks ==
    ~ m_is_closed => /\ m_pending_bytes <= HardCap
                     /\ m_pending_bytes > HighWater => m_backpressure
                     /\ m_backpressure => m_pending_bytes > LowWater

\* No lost wake-up: while a reader waits on m_resume_read in an open session, a
\* write is in flight whose completion can end the wait, or has ended it.
ParkedReaderIsWoken ==
    (reader = "parked" /\ "reader" \in pending /\ ~ m_is_closed) =>
        \/ "reader" \in cancelled
        \/ m_backpressure /\ m_is_writing

\* Frames never wait for a write nobody started.
QueueIsDrained ==
    (~ m_is_closed /\ m_write_queue # <<>>) => m_is_writing

\* The flag is set exactly when the posted half of Shutdown is on its way or
\* done, and that half runs once.
ShutdownIsPosted ==
    /\ AtMostOne(strand, "close")
    /\ m_is_closed <=> (stopping \/ Has(strand, "close") \/ sock = "closed")
    /\ Has(strand, "close") => ~ stopping /\ sock = "open"
    /\ stopping => sock = "open"

(***************************************************************************)
(* Action properties.                                                      *)
(***************************************************************************)
\* Once the flag is set no frame is queued and no write is started, whatever
\* the coroutines still do.
NothingSentOnceClosed ==
    [][m_is_closed => /\ Len(m_write_queue') <= Len(m_write_queue)
                      /\ ~ ("write" \notin pending /\ "write" \in pending')]_vars

\* Frames leave in the order they came in: a step extends the queue at its end,
\* or takes away from its front what the write that ended had gathered.
QueueIsFifo ==
    [][\/ /\ Len(m_write_queue') >= Len(m_write_queue)
          /\ SubSeq(m_write_queue', 1, Len(m_write_queue)) = m_write_queue
       \/ /\ Has(strand, "write")
          /\ m_write_queue = SubSeq(m_write_queue, 1, batch.items) \o m_write_queue']_vars

(***************************************************************************)
(* Liveness, under FairSpec.                                               *)
(***************************************************************************)
\* A peer silent for HardIdle loses its session, even one that has stopped
\* reading, so that the reader waits for a write that never ends.
SilentPeerIsClosed ==
    (idle = "hard" /\ ~ m_is_closed) ~> (m_is_closed \/ idle = "fresh")

\* After Shutdown the socket is closed, Heartbeat ends and so does the write.
ShutdownEnds ==
    m_is_closed ~> (sock = "closed" /\ heartbeat = "done" /\ ~ m_is_writing)

\* ReadLoop ends too.  A reader that waits on m_resume_read when the posted half
\* of Shutdown runs is woken and ends; the one way not to end is to come to
\* that wait after the cancel, when nothing is left that could end it.
ReaderEndsUnlessParked ==
    /\ (strand # <<>> /\ Head(strand).run = "close" /\ reader = "parked") ~> reader = "done"
    /\ m_is_closed ~> \/ reader = "done"
                      \/ /\ reader = "parked" /\ sock = "closed"
                         /\ "reader" \in pending \ cancelled

\* Nothing holds the session any more: no coroutine, operation or task.
Quiescent ==
    /\ reader = "done" /\ heartbeat = "done"
    /\ strand = <<>> /\ pending = {} /\ ~ stopping

\* "the session is terminated": every session that is shut down is released.
ShutdownReleases == m_is_closed ~> Quiescent

(***************************************************************************)
(* Refinement: the phases of SessionLifecycle.                             *)
(***************************************************************************)
phase ==
    IF ~ m_is_closed THEN "open"
    ELSE IF sock = "open" THEN "closing"
    ELSE IF Quiescent THEN "released" ELSE "closed"

Lifecycle == INSTANCE SessionLifecycle WITH phase <- phase, writing <- "write" \in pending

\* A session does what the server relies on, and a closed one lets go of its write.
ImplementsLifecycle == Lifecycle!Spec
=============================================================================
