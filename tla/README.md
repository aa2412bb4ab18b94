# A verification project for zem

zem is the backend of a warehouse management system: a TCP server in C++20 on
Boost.Asio, with a PostgreSQL database behind it (soci). This directory holds
TLA+ models of the program, the TLC configurations that check them on small
instances, and proofs, checked by TLAPS, of what holds for every value of their
constants. Paths below are relative to `src/backend/`.

1. [The system](#1-the-system)
2. [Plan](#2-plan)
3. [Modules and code](#3-modules-and-code)
4. [Runs](#4-runs)
5. [Fairness](#5-fairness)
6. [Proofs](#6-proofs)
7. [Where the code and its documents disagree](#7-where-the-code-and-its-documents-disagree)
8. [What is not modelled](#8-what-is-not-modelled)

To repeat the checks, in this directory:

    tlc -workers 2 -config MCTCPSession.cfg MCTCPSession
    tlapm TCPSessionProofs.tla

## 1. The system

### Threads and strands

`Main` builds an `AppContext` and calls `Run`. The server owns one `io_context`
run by a pool of threads (`hardware_concurrency` by default); the repository
factory owns a second pool, for the database. Any thread of the first may run
any ready handler, so the order of events is fixed only by the strands: one for
the server (accepts, signals, `Stop`, deletions of sessions) and one for each
session (its two coroutines, the completions of its writes, its closing). Two
calls cross strands: `Server::Stop` calls `TCPSession::Shutdown` on a thread that
is not on that session's strand, and the deleter of a session's `shared_ptr` runs
wherever the last reference goes. Two flags are atomic: `m_is_closed` of a
session and `m_is_stopped` of the server.

All of these threads log, through spdlog's asynchronous logger, which adds two
threads of its own: one that takes records from a bounded queue and writes them
to a file, and one that asks for a flush every three seconds. The queue has a
mutex and two condition variables and blocks whoever logs when it is full; it is
the one place where threads of the process wait for each other, and the
destructor of `AppContext` has to take it all down in the right order.

### Components

| Component | State | Operations | Talks to |
| --- | --- | --- | --- |
| **TCPSession**, write side (`Adapters/Inbound/Tcp/Session`) | `m_write_queue`, `m_pending_bytes`, `m_is_writing`, `m_backpressure` | `Send`/`SendFrame` (which post), `Drain`, the completion of `async_write` | the peer; wakes the reader through `m_resume_read` |
| **TCPSession**, `ReadLoop` | the suspension point of a coroutine, `m_last_rx` | read a header, check it, read a body, dispatch it, wait under backpressure | peer, handlers, write side |
| **TCPSession**, `Heartbeat` | the suspension point of a coroutine, `m_hb_timer` | check the idle time, ping, give up | write side, `Shutdown` |
| **TCPSession**, `Shutdown` | `m_is_closed`, the socket | exchange the flag, post the closing: cancel both timers, cancel and close the socket | everything above; the server |
| **Server**/**TCPServer** (`Base/Server.hpp`, `Server/`) | `m_sessions`, `m_acceptor`, `m_is_stopped`, `m_work_guard` | accept, retry a failed accept, delete a session, `Stop`, `Run` | sessions, operating system |
| **ByteCodec**, login messages (`Protocol/`) | the reader's `m_offset` | `DecodeRequest`, `EncodeResponse` | login handler |
| **Login** (`Handlers/Login`, `Core/Application`, `Outbound/Db`) | the pool of connections, the thread pool of the database | decode, lease a connection, query, compare, answer | session, database |
| **AppContext**/**Main** (`App/Bootstrap`, `Main.cpp`) | configuration from the environment, the objects and the order they are made and destroyed in | construct, run, destroy, report a failure | all |
| **The log queue** (`Library/spdlog`: `circular_q.h`, `mpmc_blocking_q.h`) | ring, mutex, two condition variables | `enqueue` (blocking), `dequeue` | every thread |
| **The asynchronous logger** (`async.h`, `async_logger-inl.h`, `thread_pool-inl.h`, `periodic_worker.h`, `registry-inl.h`) | default logger, `loggers_`, `tp_`, the pool's thread, the flusher's thread | create, log, flush, `shutdown`, destructors | queue, sink |
| **The rotating file** (`rotating_file_sink-inl.h`, `file_helper-inl.h`) | the files, `fd_`, `current_size_` | `sink_it_`, `rotate_` | file system |
| Formatting, bundled fmt, other sinks of spdlog; tests | | | |

### What makes each correct, and what is hard about it

* **The write side.** One write at a time, in the order of the frames, from
  buffers that stay where they are while the kernel reads them; a byte count
  that three places change and that must neither drift nor wrap; two water marks
  and a cap. Hard because frames arrive between the start and the end of a write,
  because a write may fail with frames behind it, and because `m_is_closed` may
  change between two reads of it in one handler.
* **ReadLoop.** Only well-formed frames reach a handler. Under backpressure it
  waits on a timer that never expires, so whoever clears the backpressure must
  cancel the wait: the classic place for a lost wake-up.
* **Heartbeat.** A peer that says nothing, or reads nothing, loses its session
  in bounded time; one that answers does not. Hard because three constants, a
  random jitter and a check made only when a timer expires combine.
* **Shutdown.** Called by anyone, any number of times, the posted half runs
  once, and everything the session has outstanding ends, so that it is released.
* **Server.** One accept loop, in spite of retries; after `Stop` no session is
  open or begins; each session is deleted once, on the strand; `Run` returns.
  Hard because accepts complete, timers expire and sessions end while `Stop`
  waits for its turn on the strand.
* **Codec.** No read beyond the body for any length a peer writes; what is
  decoded is what was encoded.
* **Login.** A connection is never shared and never lost; each request is
  handled to the end although the query blocks a thread of the `io_context`.
* **The log queue.** Nobody sleeps while there is something for it to do. Hard
  because `notify_one` comes after the unlock, wakes one thread and may find none,
  and a third thread may take what it announces.
* **The logger and its teardown.** Nobody logs to a logger that is gone (it is
  handed out as a raw pointer), what was logged is on disk when the process ends,
  and it does end: `flush_all` holds two mutexes while it waits for room in the
  queue, the same that the destructors take. Each step of the start may throw,
  with threads running and the logger set up or not.
* **The rotating file.** The files can be read from the oldest to the newest in
  whatever state a crash leaves them, stay within their size, and what an error of
  the disk costs ends with the error: nothing that is logged after it is lost. Hard
  because `rotate_` is a loop of renames that may stop anywhere, because the end of
  the file is in a buffer that a failed flush loses, and because `current_size_` is
  an estimate.

`PROJECT.json` lists the hazards line by line under `hazards`.

## 2. Plan

The most important behaviour is that of a session: everything a client sees goes
through it and it has the most interleavings. The modules were written, and are
to be written, in this order:

1. `Sums`, `FrameSums`, `TCPSession` and its abstract specification `SessionLifecycle`;
   runs for safety and liveness; inductive invariant and refinement proved.
   *Done.*
2. `HeartbeatTiming`, the clock that `TCPSession` abstracts to three ages;
   bounds checked at the constants of the code and proved for all. *Done.*
3. `TCPServer`, composed with sessions through `SessionLifecycle`. *Done*, the
   safety properties proved.
4. `ByteCodec` and `LoginCodec`: the pure algorithms, against the definition of
   a request. *Done* and proved for bodies of every length; signed, floating and
   enumeration overloads left.
5. `LoginService`: threads, leases and queries. *Done*, the lease invariants
   proved.
6. The log: `CircularQ`, `MpmcQueue`, `AsyncLogging`, and `AppContext`, which
   composes them with main, its start-up failures and its destruction, against the
   abstract `LogChannel`; `RotatingSink` for the files. *Done*; lost wake-ups, the
   order of destruction, the refinement of `LogChannel` and all that is said of the
   files proved.
7. A composition (planned) of the server with detailed sessions instead of
   abstract ones: the end of `Run` from the end of `ReadLoop`, in which the
   parked reader of section 7 appears as a `Run` that does not return.

Every invariant and every action property of the passing runs is now a theorem.
Left for the prover are the safety properties of the planned composition, and the
step from `QSpec` to an abstract bounded channel, which would let another user of
the queue cite one theorem instead of its invariant.

## 3. Modules and code

| Module | Stands for |
| --- | --- |
| `Sums` | sums over a sequence of numbers, as recursive functions |
| `FrameSums` | byte and buffer counts of a queue of frames |
| `TCPSession` | one session, every handler of its strand |
| `SessionLifecycle` | what a session promises the server (abstract) |
| `MCTCPSession` | the constants of `TCPSession` for TLC |
| `HeartbeatTiming` | the clock of `Heartbeat` |
| `TCPServer` | the server, with abstract sessions |
| `ByteCodec`, `LoginCodec` | integers and length-prefixed data on the wire; the login messages |
| `LoginService` | logins of several sessions, threads and connections |
| `CircularQ` | the ring buffer, as operators on a record |
| `MpmcQueue` | the blocking queue over it, for any producers and consumers |
| `AsyncLogging` | logger, pool thread, flusher, registry: the steps of each |
| `LogChannel` | what the process expects of its log (abstract) |
| `AppContext` | main, the threads, the order of construction and destruction; the composition of the above |
| `MCAppContext` | the constants of `AppContext` for TLC |
| `RotatingSink` | the file sink, on a disk that may fail |
| `SumsProofs`, `TCPSessionProofs`, `HeartbeatTimingProofs`, `TCPServerProofs`, `LoginCodecProofs`, `LoginServiceProofs`, `AppContextProofs` (with the ring and the queue), `RotatingSinkProofs` | theorems |

### TCPSession

Variables that begin with `m_` are the members of that name. `reader` and
`heartbeat` say at which `co_await` the coroutine is suspended. `strand` is the
FIFO of the handlers that are ready; `pending` are the asynchronous operations
that have been started and have not completed, and `cancelled` those of them that
were cancelled. A step of the program is one handler, from the point where it
resumes to its next suspension: `Runs(what, posts)` takes it from the head of the
strand and appends what it posts. `Complete(op, ok)` is Asio ending an operation
and queueing its handler, so that between the end of an operation and its
handler any other handler of the strand may run; this is where a cancel comes
too late.

| Code | Action |
| --- | --- |
| lambda posted by `SendFrame`, one action for each way out | `SendDropped`, `SendOversized`, `SendOverCap`, `SendQueued` |
| `Drain` | `Drain`, `BatchItems` (operators of the actions that call it) |
| handler of `async_write` | `WriteFailed`, `WriteDone` |
| `ReadLoop` | `ReaderStart` to `HandlerThrows`, one for each stretch between two `co_await`s and each way out of it |
| `Heartbeat` | `HeartbeatStart`, `HeartbeatAgain`, `HeartbeatPings`, `HeartbeatGivesUp` |
| lambda posted by `Shutdown` | `CloseSocket` |
| `Shutdown` called on the session's own strand | `m_is_closed' = TRUE` with `ShutdownPosts` |
| `Shutdown` called by `Server::Stop` | `ServerShutdown`, `ServerShutdownPosts`: exchange and post are two steps; `SendQueued` also lets the exchange fall between the two reads of `m_is_closed` it makes, and `SendShutsDown` between its check and its own call of `Shutdown` |

Abstractions. A frame in the queue is the size of its body: what is in it is
never looked at. A header has a service, a size and a version; the two request
services stand for all. A handler is a wait that ends with an answer or an
exception (`LoginService` is what happens during it). `idle` is the age of
`m_last_rx` relative to `SoftIdle` and `HardIdle`. `m_peer_api_version`, which
only goes back into headers, is left out. `SizeMax - m_pending_bytes` is the
code's own overflow test; subtraction is that of naturals, and `TypeOK` says that
it never goes below zero.

### SessionLifecycle

`open`, `closing` (the flag is set), `closed` (the socket is), `released` (nothing
is outstanding, the last reference is gone), and whether a write is in flight.
`TCPSession` defines `phase` over its variables, and `ImplementsLifecycle` is the
refinement. `TCPServer` moves its sessions along the same phases, by construction:
its session actions are the steps that `ImplementsLifecycle` shows a session to take.

### HeartbeatTiming

A tick is half a second in the runs and arbitrary in the proofs. `Receive` may
happen at any time. A handler is taken to run within the tick in which its timer
expires; only what is due at the same instant may be reordered.

### TCPServer

The server's strand again is a FIFO. The set of `weak_ptr`s is `m_sessions`; `phase`
of a session adds `none` (not accepted yet) and `deleted`. The loop of `Stop` over
`m_sessions` is one step: `m_sessions` is touched on the strand only, and the
exchange in each session's `Shutdown` commutes with what the other sessions do.
`Work` is what keeps `io_context::run` from returning.

### ByteCodec and LoginCodec

The base of a byte, the width of the length and the largest `size_t` are
constants, and offsets wrap at the last. An integer is written from its shifts
(`ShiftRight`), and data whose length does not fit the length's type is not
written at all (`CanWriteLenPrefixed`): the bytes that `WriteLenPrefixed` would give
then are no request. The decoder's two reads and its test for the end of the body
are actions, one after the other.

### LoginService

A coroutine that awaits `post(m_db_executor)` does not continue on a thread of the
database: its own executor is the session's strand, so the completion is passed
on and `try_lease` and the query run on a thread of the `io_context`, which they
block (`Bounce`, then `Resume`). That makes the number of those threads and the
number of connections matter to each other. Strands are not modelled here as a
session runs one login at a time.

### CircularQ and MpmcQueue

A call of `enqueue` or `dequeue` is cut where another thread can come between: a
thread is to take the mutex (`lock`: on entry, notified, or woken for no reason),
waits on its condition variable (`waiting`), or has unlocked and is about to notify
(`notify`). What happens under the mutex is one step. `NotifyOne` wakes any one
waiter of the other side. A popped slot becomes `NoItem`, as the message was moved
out of it.

### AsyncLogging and AppContext

`AsyncLogging` has the steps and `AppContext` says who takes them when: it is a
conjunction, each action of `AppContext` one of `AsyncLogging` plus what it does to
the process. `main` is the statement that the main thread comes to next:

| Code | Values of `main` | Action |
| --- | --- | --- |
| `InitLogger`: `create_async` (pool, then sink and registration), `flush_every`, `set_default_logger` | `create_pool`, `create_sink`, `flush_every`, `set_default` | `InitLogger` with `CreatePool`, `RegisterLogger`, `FlushEvery`, `SetDefaultLogger` |
| `InitDb`, `BuildUseCases`, `BuildServer` | `init_db`, `build_server` | `InitDb`, `BuildServer` |
| an exception in the constructor: members are destroyed, the destructor does not run | to `catch` | `ConstructorThrows` |
| `Server::Run` | `listen`, `spawn`, `join_io` | `Listen`, `SpawnThread`, `JoinThreads`; `RunThrows` goes to the destructor |
| `~AppContext` | `stop_db`, `join_db`, `reset_server` | `StopDb`, `JoinDb`, `ResetServer` |
| `registry::shutdown`, and `~registry` when main has returned (`exiting`), which destroys the members in reverse: default logger, flusher, pool, map | `stop_flusher`, `join_flusher`, `drop_all`, `reset_pool`, `join_pool` | `EndsFlusher`, `DropsLoggers`, `EndsPool` |
| the handlers of main, and its return | `catch`, `exit` | `Catch`, `Exit` |

`file` is what the thread of the pool has written and `durable` how much of it has
left the buffer of the stream: at a flush, when the last reference to the logger
goes (queued messages hold one too), or whenever `fwrite` likes. A mutex of the
registry or of the flusher is not a variable: the only thread that holds one while
it waits is the flusher, so "free" is `~InFlushAll`. A worker logs at any time while
it runs; the server's threads return when they like (`TCPServer` has when), and a
thread of the database pool has work only for a session, which keeps
`io_context::run` from returning.

### RotatingSink

A call of `sink_it_` is a sequence of steps, one for each change on disk; between
any two the process may die, so an invariant is a statement about what a crash
leaves behind. `Fault` is a failing `fflush`, `fwrite` (of nothing or of a part),
`rename` (twice, with the target removed or not) or `fopen` (five times, with the
file emptied or not). A message is its number and its size. `Init` covers a file
that is already there: the name has the second of the start in it.

`files` is what has been given to the stream, and the last `buffered` messages of the
base file are not, or not all, on disk yet: `fwrite` passes on what its buffer does
not hold, and a flush, in `sink_it_` or between two messages (`Flush`), the rest. A
flush that fails (`LoseBuffer`) leaves any beginning of what was buffered on disk, the
last message of it possibly torn, and the rest is gone: libc empties the buffer
whether or not the write succeeded. `Salvage` empties the base file, as `reopen(true)`
does. `intact` is the number of the first message logged after the last failure.

## 4. Runs

Twelve runs; each finishes within five minutes on two workers.

| Run | Question | Instance |
| --- | --- | --- |
| `session` | does any order of frames, reads, failures, pings and a shutdown from a server thread break the queue, its counts, the water marks, the single write, or leave the reader asleep; is a silent peer always closed; does a shutdown end what it should; is the session a `SessionLifecycle`? | sizes scaled: header 1, body at most 3, marks 1 / 2, cap 4, batch 2 bytes or 2 buffers; answers of 1 or 4 bytes; `FairSpec` |
| `session_released` | is every session that is shut down released? **No** (section 7) | as above, answers of 2 bytes |
| `heartbeat_timing` | how long may a silent client last, how often is it pinged, how late is it closed if it does not answer? | the constants of `Timeouts.hpp` in half seconds |
| `heartbeat_closed_after_ping` | is a silent client pinged before it is closed? **No** | as above |
| `server` | accept loop, `Stop`, deletion, what can keep `Run` from ending | three connections, `FairSpec` |
| `server_accept_dies` | does the accept loop live as long as the server? **No** | two connections |
| `codec_roundtrip` | does the decoder stay in the body and take exactly the requests? | all bodies of up to 7 bytes, base 3, lengths of 2 bytes |
| `codec_response` | is the answer the documented one? **No** | bodies of up to 4 bytes |
| `login` | are connections exclusive and never lost, who waits for whom, is every request handled? | three clients, two threads, one connection |
| `logging` | is a wake-up lost, a logger used that is gone, a record lost, repeated or out of order; does every end of the process end; does a record reach the disk with nobody logging any more? | two server threads, a database thread, a queue of two, two records (the one of `Listen` and one of a worker) and the report of a failure; `FairSpec` |
| `startup_failure` | is a failure of the start or of `Run` reported? **No** | a queue of one |
| `rotation` | are the files in order, within their size and complete; does a failure cost anything that is logged after it? | a base file and two more, size 3, seven messages of 1, 2 or 4, two faults |

Each property of a passing run has a mutant in `PROJECT.json`: a definition of the
model changed the way a bug in the mapped code would change it, under which TLC
finds that property violated. The mutated forms stand in the modules just before
the definitions they change, and are marked.

### Why the bounds are enough

* *Session.* What the code compares are sums of frame sizes with limits, so a
  scaled-down instance meets every comparison on both sides and at equality: a
  queue of up to four frames, batches cut by the limits before and after their
  second frame, a body that is too large. With the real limits the
  reader pauses at 1 MB and what still follows (the answer to a request it has
  already begun to read, some pings) is small, so 8 MB are out of reach of the one
  handler there is; in the scaled instance such frames do reach `HardCap`. Answers above `MaxBodySize` are not
  sent by today's handler either, but `SendFrame` has a branch for them. The proofs
  assume nothing about these sizes but their order.
* *Server.* With three connections one can be open, one released and waiting for
  its deletion, one accepted while `Stop` waits. Connections are used once; the
  server looks at none of them.
* *Codec.* Seven bytes hold two lengths of two bytes and three bytes of data;
  base 3 makes lengths of up to 8 = `SizeMax`, so that a length may reach past
  the body and past the range of `size_t`, which the offset arithmetic must
  survive.
* *Login.* Connections, threads and clients are each one fewer than the next, so
  that coroutines wait for threads and leases for connections.
* *Logging.* Two places in the queue and five threads that post: it is full with
  producers of different kinds waiting, and emptied again; the ring wraps (three
  slots, and more messages than that). Every step of the start fails in some
  behaviour, and the flusher fires any number of times.
* *Rotation.* Seven messages fill three files and push the oldest out; a message of
  4 is longer than a file. Two faults allow one during the salvage of another; a
  base file of up to three messages can have all of them in the buffer.

TLC is told not to report deadlock where the system may really stop: a session
that is released, a heartbeat that has ended, a server that has returned, a
message that was answered, a sink that was sent its last message. `LoginService`
and `AppContext` (which stutters once the process has ended) are checked for it: a
state where every thread waits for another would be found.

## 5. Fairness

* *Strands* (`WF(StrandRuns)`): the threads of the `io_context` run every ready
  handler. No handler of a session or of the server waits for another; those of
  `LoginService`, which do block, have their threads counted there.
* *Timers* expire, and time passes (`WF(TimePasses)`, `TimerExpires`).
* *Operations end once they must* (`Due`): when they were cancelled, when the
  socket or the acceptor is closed, when a timer runs out, or, for a handler's
  await on the database, because `try_lease` and the query end.
* A thread that has won the exchange in `Shutdown` goes on to post.
* *Nothing makes the peer send or receive*: a read never has to end, nor a write,
  while the socket is open. `SilentPeerIsClosed` depends on that being absent.
* *The release of a session* is assumed nowhere. A session lets go of its last
  reference unless its reader comes to wait on `m_resume_read` after the cancel:
  `ReaderEndsUnlessParked` says that a reader that waits there when the posted half
  of `Shutdown` runs does end, and that any other reader ends or comes to wait with
  the socket already closed and nothing left to cancel the wait;
  `ShutdownReleases` fails because of that one case. So `TCPServer`'s `FairSpec` has
  the closing of a session and not its release, and `SignalLeavesOnlySessions` does
  not say that a signal ends `Run`: it ends it, or leaves it waiting for closed
  sessions and for nothing of the server's own, and once these are released `Run`
  returns.
* *The process* (`AppContext`): main, the thread of the pool, the flusher and a call
  that is under way are scheduled (`WF`). Main needs more (`SF`), since a mutex it
  takes is free again and again, and not for ever, while the flusher fires; and the
  flusher, which `AppContext` lets fire at any time, sleeps for three seconds in
  between, so that whatever is queued is written before it fires for ever:
  `[]<><<FlusherStep>>_vars => []<>Drained`. Without that the flusher alone could
  keep the queue full and its mutex taken. Nothing makes a worker log, a server
  thread return, or a condition variable wake up for no reason.

## 6. Proofs

All are checked by `tlapm` from nothing. The assumptions are those of the modules
that declare the constants: the limits are naturals in order and a write takes at
least two buffers (`LimitsAssumption`), inputs are naturals (`InputsAssumption`), a
header has at least a byte (`HeaderAssumption`); the timeouts are in the order the
constants of the code are in (`TimeoutsAssumption`); there are finitely many
clients and threads (`ClientsAssumption`, `ThreadsAssumption`), the threads have
different roles (`LoggingAssumption`, `AppThreads`), and sizes are positive; a byte
has at least two values and `size_t` counts a length and any body there is
(`CodecAssumption`, `PayloadAssumption`). The passing runs evaluate them.

### Sums

Sums over a queue or a file, and the integers on the wire, are recursive functions
on `0..n`, so a fact about one rests on the function's defining equation, that is on
induction over the domain. The library's induction theorems take an operator and
cannot be used; `SumsProofs` gets induction on sets of naturals
(`NatInductionOnSet`) from the well-foundedness of strict inclusion on finite sets,
and from that, once for all of them, that a recursion on `0..n` describes a function
(`RecursionExists`). The equation follows (`PartialSumsDef`), and from it what the
other proofs need: sums are naturals, and how they change when a number is
appended, the first ones are taken away or the last ones are lost.

### TCPSession

`Invariance` proves `Spec => []IInv`. The inductive invariant is

    IInv == TypeOK /\ SingleFlight /\ ShutdownIsPosted /\ QueueInv /\ ParkedReaderIsWoken
    QueueInv == BytesCovered /\ BytesAccounted /\ BatchIsQueuePrefix /\ WaterMarks /\ QueueIsDrained

None of the conjuncts is inductive alone: that the completion of a write may
subtract `batch.bytes` needs `BatchIsQueuePrefix`, which needs that there is one
write (`SingleFlight`); that the reader is woken needs that backpressure implies
more than `LowWater` pending (`WaterMarks`), hence a non-empty queue
(`BytesAccounted`), hence a write (`QueueIsDrained`). `BytesCovered` is the one that
no run checks as a property: the byte count is never *below* the sum of the
queue, closed or not. `BytesAccounted` gives equality but only for an open session
(the frame that went over the cap stays in the count), and a write that is in
flight when the session closes still completes and subtracts; without
`BytesCovered` that subtraction could not be shown to stay above zero.

The step is split by what actions do to the queue and to the strand: most actions leave the queue alone and either run and keep
(`RunsAndKeeps`), run and close (`RunsAndCloses`), start or end an operation; a
lemma for each shape gives `SingleFlight` and `ShutdownIsPosted`, and only the send
and write handlers need the queue lemmas. From `IInv` follow

| Theorem | States |
| --- | --- |
| `TypeCorrect`, `OneInFlight`, `Accounting`, `BatchPrefix`, `Hysteresis`, `NoLostWakeUp`, `NothingStuck`, `ShutdownOnce` | the invariants of `session` |
| `Fifo`, `ClosedIsSilent` | its two action properties |
| `RefinesLifecycle` | every step is a step of `SessionLifecycle` or a stutter: the safety half of `ImplementsLifecycle` |

### HeartbeatTiming

`SilenceBound`: a session never lives through `HardIdle + Interval + MaxJitter` of
silence. `AnswerBound`: nor more than `GraceWait + Interval + MaxJitter` after an
unanswered ping. `OnePing`: one silence is pinged once, because
`HardIdle <= SoftIdle + GraceWait + Interval`. The invariant relates the clocks to
the wait that is running: how long the silence had lasted when it was armed.

### TCPServer

`ServerKeepsInv` proves `Spec => []ServerInv`, for any set of sessions. The invariant
says what the handlers that are ready mean for the rest of the state:

* `LoopInv`: a stage of the accept loop is on the strand once, and only while no
  accept is outstanding and no retry timer runs;
* `StopInv`: a `Stop` on the strand, or one that has run, was preceded by the flag
  that keeps the accept handler from making sessions;
* `EntriesInv`, `NoEntryInv`: a session has its entry from its creation until it is
  deleted or `Stop` has run, and never before or after;
* `DeletionsInv`: exactly the released sessions have a deletion on the strand, and
  one each; `ReturnInv`: when `Run` has returned, nothing is left that could act.

`StopReachesAll`, which is `EntriesInv`, shows why they are needed together: an
accept that completes after the exchange and before the handler of `Stop` must not
add an entry (`StopInv`), and a deletion between the two must find its session
already released (`DeletionsInv`). From `ServerInv` follow `AcceptsOnce`
(`OneAcceptLoop`), `StopMissesNone` (`StopReachesAll`), `SessionsDeletedOnce`
(`DeletedOnce`) and `RunReturnsClean` (`ReturnsClean`).

### LoginCodec

For every base of a byte, width of the length, `size_t` that can count the body,
and body. Reading a byte multiplies and adds what a shift and a remainder take
away, so the values the reader passes through are the shifts of the result in
reverse; by induction on the bytes, writing what was read gives the same bytes
(`WriteOfRead`) and reading what was written the same number, if its type has room
for it (`ReadOfWrite`). `FieldAt` says that data stands in a body at an offset with
its length in front, entry by entry. What the reader finds is such a field
(`ReadsField`), it reads one as it is (`FieldIsRead`), so there is at most one at an
offset, and two that fill a body are the encoding of a request
(`RequestIsTwoFields`). The invariant is then short: the fields read so far are at
their offsets, and a body is refused because no field is where the next one would
be, or because something is left over. `ReaderStaysInBody` is `ReadsWithinBody`: in a
body that `size_t` can count no offset wraps. `DecoderInvertsEncoder` is
`DecodesExactlyRequests`: were a refused body a request, the fields read would be
its fields and nothing would have been missing. (`RefusesNoRequest` has this for
every id and password, not only for those that occur in the body.)

### LoginService

`LoginInvariance` has `LoginInv`: the types, `LeasesAreExclusive` and `ThreadsBounded`
(no more coroutines block than there are threads, because only a free thread
resumes one). `Exclusive` is a part of it. `WaitsForQueries` follows without a
further induction: with the pool empty, the leases are a bijection between the
connections and the queries that run, so there are as many of these as
connections, and waiters and queries are disjoint sets that block a thread each.

### CircularQ and MpmcQueue

`PushAppends` and `PopTakesFirst` say what a ring computes, wherever its indices have
wrapped to: the operations on `Contents` are those on a sequence.
`QueueLosesNoWakeUp` proves that `QTypeOK /\ NoLostWakeUp` is an invariant, for any
number of producers and consumers and any capacity. `NoLostWakeUp` is inductive
with the types, because it is a balance: as long as a consumer waits, the items in
the queue do not exceed the consumers on their way to the mutex plus the
notifications that are owed. A push adds an item and a notification; a
notification that finds a waiter becomes a consumer on its way, and one that finds
none leaves nobody waiting; a consumer that goes to wait has found the queue empty.
(The same with the room and the producers.) It rests on how `Cardinality` changes
when one thread moves (`MoveCounts`).

### AppContext

`StepsOfQueue` shows that every step of the process is a step of `MpmcQueue` or
leaves its variables alone, from which `ProcessLosesNoWakeUp` follows.
`LoggerIsThere` is the order of destruction: `ProcessInv` says, for each place of
main, which workers may live (`WorkersInv`), what the registry holds
(`RegistryInv`), when the flusher runs (`FlusherInv`), and that the thread of the
pool is there as long as `tp_` is (`PoolInv`). The last is the reason the invariant
has to look into the queue: that thread ends when it takes a terminate message,
so none may be in a slot or in a hand before `tp_.reset()`.

`LogIsChannel` is the refinement `Spec => ImplementsLogChannel`: what reaches the disk
is at any time a prefix of what was accepted, in its order, and all of it when the
process exits. A record passes through a slot of the ring and the hand of the
pool's thread, among flush requests, and is found nowhere but in `accepted` while it
does. `OrderInv` relates them without counting records: there are numbers `upto[0]`
to `upto[n]` for the `n` messages in the ring, the first being how far the file and
the hand have got and the last how many records were accepted, such that a record
in the ring is the one accepted at its number and any other message has the number
before it. A push extends these numbers, a pop drops the first
(`PushAppends`, `PopTakesFirst`). `EndInv` adds that a terminate message is the last
one posted, so that ring and hand are empty once the thread of the pool has ended.

### RotatingSink

`FilesAreOrdered`: the order is inductive once it is known that nothing on disk is
later than the message at hand, and everything earlier while a call is under way
(`AtHandIsLast`), for any number of files and any faults.

`LossesEnd` (`LossesEndWithFault`): what is kept of the messages since the last failure
has no gap and ends with the last one written (`Gapless`). A failure restarts this
count. Between failures a message is appended, next to the last one; or a file moves,
which below the oldest one finds its place free, so that only the oldest file can be
lost (`CallInv`, with `OldestFirst` to say that what it held is earlier than the rest);
or the base file begins again after it has moved. `CallInv` has also that the file is
open at the steps that need it, and that a salvage is the end of a failure.

`FilesAreBounded` (`SizeBounded`): `current_size_` is not the size of the file once
something has failed, but it is never below the sum of the whole messages in it
(`Estimate`), and that is the side on which the comparison with `MaxSize` needs it.

`LatestAreKept` (`KeepsLatest`) is about the end of a call in which nothing has
failed, and the invariant has to say what is true in the middle of a rotation,
when the files are not numbered without a gap: the one missing number is that of
the file that moves next (`Numbered`); each file was full for the message that
follows it, which is at the start of the next file, of the one after that while
the next is being moved away, or still at hand (`Full`); and the size is exact as
long as nothing failed (`Exact`). That no message is missing is `Gapless` again.

### Only model-checked

Liveness under fairness: all `~>` properties (`SilentPeerIsClosed`, `ShutdownEnds`,
`ReaderEndsUnlessParked`, `SignalLeavesOnlySessions`, `ReleasedIsDeleted`,
`FailedAcceptRetried`, `RequestIsHandled`, `TeardownEnds`, `AcceptedIsFlushed`) and
the fairness of `SessionLifecycle` in `ImplementsLifecycle`, whose safety half is
`RefinesLifecycle`. They need `ENABLED`, which the prover does not have.

## 7. Where the code and its documents disagree

Each is a run that TLC ends with a counterexample; `PROJECT.json` quotes the lines.

* **`ShutdownReleases`.** `ReadLoop` looks at `m_backpressure` but not at
  `m_is_closed` before it waits on `m_resume_read` (`TCPSession.cpp:228`). If the
  one cancel of that timer comes while the reader is in a handler, and there is
  backpressure, it then waits for ever: the session is never released, and after
  `Stop` the process does not end.
* **`AcceptLoopLives`.** `remote_endpoint()` throws for a peer that has gone
  (`Server.hpp:61`), past the call that accepts again; the exception is logged and
  the server accepts nobody from then on.
* **`ClosedOnlyAfterPing`.** Silence is looked at every 30 s plus jitter: a silent
  session may be closed without having been pinged. The document adds that a ping
  has to be answered within 30 s (`Document/api_specification.md:102`); the code has
  no such time. A session is closed at the first check that finds `HardIdle`
  reached: 10 s after the ping if that was sent at 65 s of silence or later, and
  40.5 s after it at the latest. The document is met at neither end, and
  `AnswerBounded` states the upper one that the code does have.
* **`ResponseAsDocumented`.** The login response has no length, and `Success` is 0
  where the document says 1.
* **`FailureIsReported`.** When `Server::Run` throws, the destructor of `AppContext`
  runs before the handlers of main and shuts spdlog down (`AppContext.cpp:92`);
  `spdlog::error` in the handler then goes through a null default logger. If a
  thread of the server had been started, its destruction while joinable ends the
  process before that. A failure of the constructor is reported: there the
  destructor does not run and the logger is still up.

Divergences that one look at the code settles, without a run:

* The header has two fields in the document (`Document/api_specification.md`,
  "Socket Frame") and three in the code, with an API version.
* The idle timeout is 75 s in the document (line 12). It is looked at only when the
  timer expires, so a session is closed between 75 s and 105.5 s of silence:
  `SilenceBound` proves the upper end.
* `DbError = 4` (line 162) is never sent: `ValidateCredentials` has one answer for an
  unknown id, a lease that timed out and a query that threw.
* "5 maximum log file number" (`AppContext.cpp:112`): spdlog keeps that many rotated
  files besides the base file, six in all.

## 8. What is not modelled

* The conversion of the environment (`AppContext.cpp:22-62`): functions of one
  string, which a table of inputs tests. `strtoul` takes a minus sign and wraps.
* The overloads of `ByteCodec` for signed, floating-point and enumeration types:
  bit casts around the unsigned ones.
* `ValidateCredentials` compares strings: modelled by its outcomes. `AccountLocked`
  exists in the enumeration and is returned by nothing.
* The deleter's `wp_holder` keeps the control block of each session alive for ever
  (`Server.hpp:78`): a leak of memory, with no behaviour to model.
* That a slow upload, a slow database or a paused reader count as silence (only
  complete reads set `m_last_rx`): `TCPSession` lets time pass at any moment and so
  contains it, but no document says what should happen.
* A disk that stays broken: after an open that failed `RotatingSink` drops everything,
  as the code does, and its properties say nothing more. `AsyncLogging` writes to a
  disk that works.
* Most of the vendored spdlog, which is nine tenths of the lines under `src/`. Its
  bundled fmt alone is some 16,500 of them and is not compiled (the build formats
  with `std::format`); the other sinks, the other overflow policies, the backtrace
  and the levels from the environment are reached by no call of the program, and a
  model of them would have no behaviour of zem to be faithful to. The pattern
  formatter is compiled and used, with one fixed pattern: a conversion to text
  without state. So the lines that the map names are a small part of the
  repository, and most of the program's own.
* The tests, which cover `ValidateCredentials` and the factory.
