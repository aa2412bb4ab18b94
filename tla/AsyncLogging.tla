---------------------------- MODULE AsyncLogging ----------------------------
(***************************************************************************)
(* The asynchronous logger of spdlog as AppContext::InitLogger sets it up:  *)
(* one file logger that blocks when its queue is full (async.h), a thread   *)
(* pool of one thread that writes (thread_pool-inl.h), a thread that asks   *)
(* for a flush every 3 s (periodic_worker.h), and the registry that owns    *)
(* them (registry-inl.h).  The sink is a file whose first `durable' records *)
(* have left the stdio buffer; RotatingSink has what it does with them.     *)
(*                                                                         *)
(* A step here is one of a thread; AppContext says which thread takes which *)
(* step when.                                                              *)
(***************************************************************************)
EXTENDS MpmcQueue

CONSTANTS
    Main, Flusher, Backend,     \* main, the periodic worker, the pool's thread
    Workers,                    \* the threads of the server and of the database pool
    MaxRecords                  \* bound: records posted by the workers

VARIABLES
    accepted,       \* history: the records pushed, in order
    file, durable,  \* the records written, and how many of them are on disk
    started,        \* history: the records numbered so far
    defaultLogger,  \* default_logger_: the console one, the file one or none
    mapped,         \* loggers_ holds the file logger
    tp,             \* tp_ is set
    backend,        \* the thread of the pool
    flusher, active \* periodic_flusher_: its thread, and its active_

filevars   == <<accepted, file, durable>>
registry   == <<defaultLogger, mapped, tp>>
threadvars == <<backend, flusher, active>>
logvars    == <<q, at, item, accepted, file, durable, started,
                defaultLogger, mapped, tp, backend, flusher, active>>

\* The record Main reports a failure with has the number 0.
LogRecord(id, err) == [type |-> "log", id |-> id, err |-> err]
FlushRequest       == [type |-> "flush", id |-> 0, err |-> FALSE]
TerminateRequest   == [type |-> "terminate", id |-> 0, err |-> FALSE]
Records  == {LogRecord(id, err) : id \in 0 .. (MaxRecords + 1), err \in BOOLEAN}
Messages == Records \cup {FlushRequest, TerminateRequest}

ASSUME LoggingAssumption ==
    /\ Producers = Workers \cup {Main, Flusher}
    /\ Main # Flusher /\ Main \notin Workers /\ Flusher \notin Workers
    /\ Consumers = {Backend}
    /\ Items = Messages
    /\ MaxRecords \in Nat

LogInit ==
    /\ QInit
    /\ accepted = <<>> /\ file = <<>> /\ durable = 0 /\ started = 0
    /\ defaultLogger = "console" /\ mapped = FALSE /\ tp = FALSE
    /\ backend = "none" /\ flusher = "none" /\ active = FALSE

-----------------------------------------------------------------------------
(* Threads that log                                                         *)

\* spdlog::info and the rest: the default logger finds the pool and posts.
Post(t, record) ==
    /\ defaultLogger = "file" /\ tp
    /\ Call(t, record)
    /\ UNCHANGED <<filevars, registry, threadvars>>

PostNext(t, err) ==
    /\ Post(t, LogRecord(started + 1, err))
    /\ started' = started + 1

\* The rest of the call: the push, and what comes before and after it.
PostPushes(t) ==
    /\ Push(t)
    /\ accepted' = IF item[t] \in Records THEN Append(accepted, item[t]) ELSE accepted
    /\ UNCHANGED <<file, durable, started, registry, threadvars>>

PostWaitsOrReturns(t) ==
    /\ WaitForRoom(t) \/ NotifyConsumer(t)
    /\ UNCHANGED <<filevars, started, registry, threadvars>>

-----------------------------------------------------------------------------
(* The thread of the pool                                                   *)

\* Every queued message holds the logger, and the last reference closes the
\* file, whichever thread drops it.
HoldsLogger(m) == m \in Records \cup {FlushRequest}
LoggerHeld(default, map, ring, held) ==
    \/ default = "file" \/ map
    \/ \E t \in Threads : HoldsLogger(held[t])
    \/ \E i \in DOMAIN Contents(ring) : HoldsLogger(Contents(ring)[i])

ClosesFile == ~LoggerHeld(defaultLogger', mapped', q', item')

\* backend_sink_it_: fwrite may empty the buffer of the stream, and a record
\* at or above flush_on(err) is flushed.
BackendWrites(record) ==
    /\ file' = Append(file, record)
    /\ durable' \in IF record.err \/ ClosesFile THEN {Len(file')} ELSE durable .. Len(file')

BackendIgnoresFlush == UNCHANGED <<file, durable>>    \* mutant

BackendFlushes ==
    /\ durable' = Len(file)
    /\ UNCHANGED file

\* process_next_msg_, and the next turn of worker_loop_ unless it is told to
\* end.
ProcessNextMsg ==
    /\ item[Backend] # NoItem
    /\ UNCHANGED <<accepted, started, registry, flusher, active>>
    /\ \/ /\ item[Backend] # TerminateRequest
          /\ DequeueNext(Backend)
          /\ UNCHANGED backend
          /\ IF item[Backend] = FlushRequest THEN BackendFlushes
                                             ELSE BackendWrites(item[Backend])
       \/ /\ item[Backend] = TerminateRequest
          /\ Discard(Backend)
          /\ backend' = "ended"
          /\ UNCHANGED <<file, durable>>

BackendDequeues ==
    /\ QConsumerStep(Backend)
    /\ UNCHANGED <<filevars, started, registry, threadvars>>

-----------------------------------------------------------------------------
(* The thread that asks for a flush every 3 s                               *)

\* Its callback, flush_all, runs with the mutex of the worker and with
\* logger_map_mutex_ held, for as long as the queue makes it wait.
InFlushAll == at[Flusher] # "idle"

FlusherFires ==
    /\ flusher = "running" /\ active
    /\ mapped /\ tp
    /\ Call(Flusher, FlushRequest)
    /\ UNCHANGED <<filevars, started, registry, threadvars>>

FlusherEnds ==
    /\ flusher = "running" /\ ~active
    /\ ~InFlushAll
    /\ flusher' = "ended"
    /\ UNCHANGED <<qvars, filevars, started, registry, backend, active>>

-----------------------------------------------------------------------------
(* What Main does to the registry                                           *)

\* create_async, first half: the pool and its thread.
CreatePool ==
    /\ tp' = TRUE
    /\ backend' = "running"
    /\ DequeueNext(Backend)
    /\ UNCHANGED <<filevars, started, defaultLogger, mapped, flusher, active>>

\* create_async, second half: the sink has been opened, the logger is made
\* and registered.
RegisterLogger ==
    /\ mapped' = TRUE
    /\ UNCHANGED <<qvars, filevars, started, defaultLogger, tp, threadvars>>

FlushEvery ==
    /\ flusher' = "running"
    /\ active' = TRUE
    /\ UNCHANGED <<qvars, filevars, started, registry, backend>>

\* set_default_logger, set_pattern and set_level take logger_map_mutex_.
SetDefaultLogger ==
    /\ ~InFlushAll
    /\ defaultLogger' = "file"
    /\ UNCHANGED <<qvars, filevars, started, mapped, tp, threadvars>>

\* Mutant: the destructor notifies the thread without clearing active_.
StopFlusherActive ==
    /\ ~InFlushAll
    /\ UNCHANGED logvars

\* ~periodic_worker takes the mutex its thread holds through the callback.
StopFlusher ==
    /\ ~InFlushAll
    /\ active' = FALSE
    /\ UNCHANGED <<qvars, filevars, started, registry, backend, flusher>>

JoinFlusher ==
    /\ flusher = "ended"
    /\ UNCHANGED logvars

\* The registry lets go of the loggers: all of them (drop_all), or only the
\* default one.
Drop(all) ==
    /\ defaultLogger' = "none"
    /\ mapped' = (mapped /\ ~all)
    /\ UNCHANGED <<qvars, accepted, file, started, tp, threadvars>>
    /\ durable' = IF ClosesFile THEN Len(file) ELSE durable

\* drop_all takes logger_map_mutex_, the destructor of the registry takes none.
DropAll     == ~InFlushAll /\ Drop(TRUE)
DropDefault == Drop(FALSE)

\* tp_.reset() destroys the pool, which tells its thread to end ...
ResetPool ==
    /\ tp' = FALSE
    /\ Call(Main, TerminateRequest)
    /\ UNCHANGED <<filevars, started, defaultLogger, mapped, threadvars>>

\* Mutant: the destructor of the pool detaches its thread.
DetachPool == UNCHANGED logvars

\* ... and joins it.
JoinPool ==
    /\ backend = "ended"
    /\ UNCHANGED logvars
=============================================================================
