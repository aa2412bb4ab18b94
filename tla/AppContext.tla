----------------------------- MODULE AppContext -----------------------------
(***************************************************************************)
(* The life of the process: main (Main.cpp), the construction, the run and  *)
(* the destruction of AppContext (App/Bootstrap/AppContext.cpp), the        *)
(* threads of Server::Run and of the database pool, which log, and the      *)
(* logger they log to (AsyncLogging).  Each step of the start may fail with *)
(* an exception, which main reports through the same logger.                *)
(***************************************************************************)
EXTENDS AsyncLogging

CONSTANTS IoThreads, DbThreads

ASSUME AppThreads ==
    /\ Workers = IoThreads \cup DbThreads
    /\ IoThreads \cap DbThreads = {}
    /\ IoThreads # {}

VARIABLES
    main,       \* what main does next
    live,       \* the workers whose function has not returned
    joinable,   \* m_thread_pool: the threads started and not joined
    dbStopped,  \* stop() was called on the database pool
    failed,     \* an exception is on its way to main, or was
    console,    \* main has reported it on the console
    exiting     \* main has returned: static objects are being destroyed

appvars == <<live, joinable, dbStopped, failed, console, exiting>>
vars    == <<logvars, main, live, joinable, dbStopped, failed, console, exiting>>

Ended == {"exited", "aborted", "crashed"}
Init ==
    /\ LogInit
    /\ main = "create_pool"
    /\ live = {} /\ joinable = {}
    /\ dbStopped = FALSE /\ failed = FALSE /\ console = FALSE /\ exiting = FALSE

-----------------------------------------------------------------------------
(* The workers                                                              *)

\* The database pool has work only from a session, and while a session awaits
\* it, io_context::run does not return.
WorkerLogs(t) ==
    /\ t \in live
    /\ t \in DbThreads => live \cap IoThreads # {}
    /\ started < MaxRecords
    /\ \E err \in BOOLEAN : PostNext(t, err)
    /\ UNCHANGED <<main, appvars>>

PostGoesOn(t) ==
    /\ PostPushes(t) \/ PostWaitsOrReturns(t)
    /\ UNCHANGED <<main, appvars>>

\* io_context::run returns (TCPServer says when); a thread of the database
\* pool ends after the handler it runs once the pool is stopped.
WorkerEnds(t) ==
    /\ t \in live
    /\ at[t] = "idle"
    /\ IF t \in DbThreads THEN dbStopped ELSE \A d \in DbThreads : at[d] = "idle"
    /\ live' = live \ {t}
    /\ UNCHANGED <<logvars, main, joinable, dbStopped, failed, console, exiting>>

-----------------------------------------------------------------------------
(* Main, between two calls of the queue                                     *)

\* Main does `this' and goes on to do `that'.
From(this, that) ==
    /\ main = this
    /\ at[Main] = "idle"
    /\ main' = that

\* An exception leaves this step; main next does `that'.
Throws(this, that) ==
    /\ From(this, that)
    /\ failed' = TRUE
    /\ UNCHANGED <<logvars, joinable, dbStopped, console, exiting>>

\* Constructor.  What throws in it runs the destructors of the members only:
\* the database pool is stopped and joined, the logger stays.
InitLogger ==
    \/ From("create_pool", "create_sink") /\ CreatePool /\ UNCHANGED appvars
    \/ From("create_sink", "flush_every") /\ RegisterLogger /\ UNCHANGED appvars
    \/ From("flush_every", "set_default") /\ FlushEvery /\ UNCHANGED appvars
    \/ From("set_default", "init_db") /\ SetDefaultLogger /\ UNCHANGED appvars

InitDb ==
    /\ From("init_db", "build_server")
    /\ live' = DbThreads
    /\ UNCHANGED <<logvars, joinable, dbStopped, failed, console, exiting>>

BuildServer ==
    /\ From("build_server", "listen")
    /\ UNCHANGED <<logvars, appvars>>

ConstructorThrows ==
    /\ \E step \in {"create_pool", "create_sink", "flush_every", "init_db", "build_server"} :
         Throws(step, "catch")
    /\ live' = {}

\* Run.  What throws in it runs the destructor of AppContext.
Listen ==
    /\ From("listen", "spawn")
    /\ PostNext(Main, FALSE)
    /\ UNCHANGED appvars

SpawnThread ==
    \E t \in IoThreads \ joinable :
      /\ From("spawn", IF joinable \cup {t} = IoThreads THEN "join_io" ELSE "spawn")
      /\ live' = live \cup {t}
      /\ joinable' = joinable \cup {t}
      /\ UNCHANGED <<logvars, dbStopped, failed, console, exiting>>

RunThrows ==
    /\ \E step \in {"listen", "spawn"} : Throws(step, "stop_db")
    /\ UNCHANGED live

\* Mutant: the threads are detached.
DetachThreads ==
    /\ From("join_io", "stop_db")
    /\ joinable' = {}
    /\ UNCHANGED <<logvars, live, dbStopped, failed, console, exiting>>

JoinThreads ==
    /\ From("join_io", "stop_db")
    /\ live \cap IoThreads = {}
    /\ joinable' = {}
    /\ UNCHANGED <<logvars, live, dbStopped, failed, console, exiting>>

\* Destructor.
StopDb ==
    /\ From("stop_db", "join_db")
    /\ dbStopped' = TRUE
    /\ UNCHANGED <<logvars, live, joinable, failed, console, exiting>>

JoinDb ==
    /\ From("join_db", "reset_server")
    /\ live \cap DbThreads = {}
    /\ UNCHANGED <<logvars, appvars>>

\* server_.reset(): a std::thread destroyed while joinable ends the process.
ResetServer ==
    /\ From("reset_server", IF joinable = {} THEN "stop_flusher" ELSE "aborted")
    /\ UNCHANGED <<logvars, appvars>>

\* registry::shutdown, and ~registry when main has returned: there the default
\* logger goes first and loggers_ last.
EndsFlusher ==
    \/ From("stop_flusher", "join_flusher") /\ StopFlusher /\ UNCHANGED appvars
    \/ /\ From("join_flusher", IF exiting THEN "reset_pool" ELSE "drop_all")
       /\ JoinFlusher
       /\ UNCHANGED appvars

DropsLoggers ==
    /\ From("drop_all", IF exiting THEN "exited" ELSE "reset_pool")
    /\ DropAll
    /\ UNCHANGED appvars

EndsPool ==
    \/ From("reset_pool", "join_pool") /\ ResetPool /\ UNCHANGED appvars
    \/ /\ From("join_pool", IF exiting THEN "drop_all" ELSE IF failed THEN "catch" ELSE "exit")
       /\ JoinPool
       /\ UNCHANGED appvars

\* The handlers of main: spdlog::error goes to whatever the default logger is
\* by now, through a raw pointer.
Catch ==
    \/ /\ From("catch", "exit")
       /\ Post(Main, LogRecord(0, TRUE))
       /\ UNCHANGED <<started, appvars>>
    \/ /\ From("catch", "exit")
       /\ defaultLogger = "console"
       /\ console' = TRUE
       /\ UNCHANGED <<logvars, live, joinable, dbStopped, failed, exiting>>
    \/ /\ From("catch", "crashed")
       /\ defaultLogger = "none"
       /\ UNCHANGED <<logvars, appvars>>

Exit ==
    /\ From("exit", IF flusher = "running" THEN "stop_flusher"
                    ELSE IF tp THEN "reset_pool" ELSE "drop_all")
    /\ DropDefault
    /\ exiting' = TRUE
    /\ UNCHANGED <<live, joinable, dbStopped, failed, console>>

MainStep ==
    \/ InitLogger \/ InitDb \/ BuildServer \/ ConstructorThrows
    \/ Listen \/ SpawnThread \/ RunThrows \/ JoinThreads
    \/ StopDb \/ JoinDb \/ ResetServer
    \/ EndsFlusher \/ DropsLoggers \/ EndsPool
    \/ Catch \/ Exit

BackendStep == (ProcessNextMsg \/ BackendDequeues) /\ UNCHANGED <<main, appvars>>

FlusherStep ==
    /\ FlusherFires \/ FlusherEnds
    /\ UNCHANGED <<main, appvars>>

WakeUp(t) ==
    /\ SpuriousWakeUp(t)
    /\ UNCHANGED <<filevars, started, registry, threadvars, main, appvars>>

\* The process has ended.
Done == main \in Ended /\ UNCHANGED vars

Next ==
    \/ /\ main \notin Ended
       /\ \/ MainStep \/ BackendStep \/ FlusherStep
          \/ \E t \in Workers : WorkerLogs(t) \/ WorkerEnds(t)
          \/ \E t \in Producers : PostGoesOn(t)
          \/ \E t \in Threads : WakeUp(t)
    \/ Done

Spec == Init /\ [][Next]_vars

\* Nothing is queued and no call is under way that could go on.
Drained == IsEmpty(q) /\ \A t \in Threads : at[t] \in {"idle", "waiting"}

\* Every thread is scheduled.  Main gets a mutex of the registry that is free
\* again and again, and the queue is drained again and again if the flusher
\* fires again and again: it sleeps for 3 s in between, and is the only thread
\* that could keep the queue full, and its mutex taken, for ever.  A thread of
\* the database pool ends once it is stopped; nothing makes a thread log, a
\* thread of the server end, or a wait end for no reason.
Fairness ==
    /\ SF_vars(MainStep /\ main \notin Ended)
    /\ WF_vars(BackendStep /\ main \notin Ended)
    /\ WF_vars(FlusherStep /\ main \notin Ended)
    /\ \A t \in Producers : WF_vars(PostGoesOn(t) /\ main \notin Ended)
    /\ \A t \in DbThreads : WF_vars(WorkerEnds(t) /\ main \notin Ended)
    /\ []<><<FlusherStep>>_vars => []<>Drained

FairSpec == Spec /\ Fairness

-----------------------------------------------------------------------------
(* Properties                                                               *)

\* The logger, the pool and its thread are there for as long as anybody may
\* log: while a worker runs, and while a call of any thread but main is under
\* way.  spdlog takes the default logger by a raw pointer, so only the order
\* of the joins in Run and in ~AppContext and of the resets in shutdown makes
\* it so.
LoggerOutlivesUsers ==
    /\ live # {} => defaultLogger = "file"
    /\ (live # {} \/ \E t \in Producers \ {Main} : at[t] # "idle") =>
         mapped /\ tp /\ backend = "running"

\* Whatever the interleaving of the threads, the log they share behaves as
\* LogChannel says: the order of the queue is the order of the file, nothing
\* is written twice, and when the process exits, after a run or after a
\* failed start, every record posted is on disk.
Channel == INSTANCE LogChannel WITH
    log <- accepted, disk <- SubSeq(file, 1, durable), closed <- main = "exited"
ImplementsLogChannel == Channel!Spec

\* Once the destruction has begun, or an exception has reached main, the
\* process ends: no join waits for a thread that waits for the queue, and no
\* destructor for a mutex that a waiting thread holds.
TeardownEnds == main \in {"stop_db", "catch", "exit"} ~> main \in Ended

\* A record posted by a process that stays up reaches the disk, though it is
\* below flush_on and nobody ever logs again: the periodic flush gets through
\* the same queue, even when it is full.
AcceptedIsFlushed ==
    \A n \in 1 .. (MaxRecords + 1) :
      Len(accepted) >= n ~> (durable >= n \/ main \in Ended)

\* What main does in its handlers (spdlog::error, Main.cpp:25-33): a failure
\* of the start, and of Run, is in the log file or on the console when the
\* process has ended.
FailureIsReported ==
    (failed /\ main \in Ended) =>
      console \/ LogRecord(0, TRUE) \in {file[i] : i \in 1 .. durable}
=============================================================================
