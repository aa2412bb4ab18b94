------------------------------ MODULE LoginService ------------------------------
(***************************************************************************)
(* Logins, from the handler to the database and back: LoginHandler,         *)
(* LoginUseCase and PostgresAccountRepository, run by the coroutine of a    *)
(* session's ReadLoop, with the two things all sessions share: the threads  *)
(* of the server's io_context and the pool of database connections.         *)
(*                                                                         *)
(* GetPassword posts itself to the database's thread pool, but a coroutine  *)
(* always resumes on its own executor, the session's strand: a database     *)
(* thread only passes the resumption on, and try_lease and the query block  *)
(* a thread of the io_context.                                             *)
(***************************************************************************)
EXTENDS Naturals, Sequences, FiniteSets

CONSTANTS
    Clients,         \* the sessions that log in, each again and again
    IoThreads,       \* threads that run the io_context
    PoolSize         \* connections in the pool

ASSUME SizesAssumption == IoThreads \in Nat \ {0} /\ PoolSize \in Nat \ {0}
ASSUME ClientsAssumption == IsFiniteSet(Clients)

VARIABLES
    ready,           \* FIFO of the sessions whose coroutine the io_context can resume
    place,           \* where each coroutine is
    lease,           \* the connection each has leased, 0 for none
    m_pool,          \* connections free to be leased
    broken,          \* connections whose session with the database is lost
    lookup,          \* what the last GetPassword of each found
    answer           \* the last answer each was sent

vars == <<ready, place, lease, m_pool, broken, lookup, answer>>

Connections == 1..PoolSize

\* The places where a coroutine waits in the queue, and where it blocks a thread.
Queueing == {"received", "bounced", "returning"}
Blocking == {"leasing", "querying"}
Places   == {"idle", "posted"} \union Queueing \union Blocking

Lookups == {"none", "same", "different", "missing", "error", "timeout"}
LoginResults == {"Success", "InvalidCredentials"}

Busy == {c \in Clients : place[c] \in Blocking}

Init ==
    /\ ready = <<>> /\ place = [c \in Clients |-> "idle"]
    /\ lease = [c \in Clients |-> 0] /\ m_pool = Connections /\ broken = {}
    /\ lookup = [c \in Clients |-> "none"] /\ answer = [c \in Clients |-> "none"]

(***************************************************************************)
(* The io_context: a coroutine becomes ready; a free thread resumes the     *)
(* first one that is.                                                      *)
(***************************************************************************)
Queue(c, where) ==
    /\ place' = [place EXCEPT ![c] = where]
    /\ ready' = Append(ready, c)

BlocksNoThread(c, where) ==         \* mutant: the handler runs on a database thread
    /\ ready # <<>> /\ Head(ready) = c
    /\ ready' = Tail(ready)
    /\ place' = [place EXCEPT ![c] = where]

Resume(c, where) ==
    /\ ready # <<>> /\ Head(ready) = c
    /\ Cardinality(Busy) < IoThreads
    /\ ready' = Tail(ready)
    /\ place' = [place EXCEPT ![c] = where]

\* The next login request of a session has been read.
Request(c) ==
    /\ place[c] = "idle"
    /\ Queue(c, "received")
    /\ lookup' = [lookup EXCEPT ![c] = "none"]
    /\ answer' = [answer EXCEPT ![c] = "none"]
    /\ UNCHANGED <<lease, m_pool, broken>>

(***************************************************************************)
(* LoginHandler and LoginUseCase.                                          *)
(***************************************************************************)
\* A body that does not decode gets no answer; else the coroutine goes to the pool.
Handle(c) ==
    /\ place[c] = "received"
    /\ Resume(c, "idle") \/ Resume(c, "posted")
    /\ UNCHANGED <<lease, m_pool, broken, lookup, answer>>

ValidateCredentials(found) == IF found = "same" THEN "Success" ELSE "InvalidCredentials"

Answer(c) ==
    /\ place[c] = "returning"
    /\ Resume(c, "idle")
    /\ answer' = [answer EXCEPT ![c] = ValidateCredentials(lookup[c])]
    /\ UNCHANGED <<lease, m_pool, broken, lookup>>

(***************************************************************************)
(* GetPassword.                                                            *)
(***************************************************************************)
\* A database thread hands the coroutine back to its strand.
Bounce(c) ==
    /\ place[c] = "posted"
    /\ Queue(c, "bounced")
    /\ UNCHANGED <<lease, m_pool, broken, lookup, answer>>

TryLease(c) ==
    /\ place[c] = "bounced"
    /\ Resume(c, "leasing")
    /\ UNCHANGED <<lease, m_pool, broken, lookup, answer>>

Leased(c) ==
    /\ place[c] = "leasing"
    /\ \E pos \in m_pool : /\ lease' = [lease EXCEPT ![c] = pos]
                           /\ m_pool' = m_pool \ {pos}
    /\ place' = [place EXCEPT ![c] = "querying"]
    /\ UNCHANGED <<ready, broken, lookup, answer>>

LeaseTriesAgain(c) ==                                 \* mutant: it waits without a limit
    /\ place[c] = "leasing"
    /\ m_pool = {}
    /\ UNCHANGED vars

\* Two seconds have passed; a connection may just have become free.
LeaseTimesOut(c) ==
    /\ place[c] = "leasing"
    /\ lookup' = [lookup EXCEPT ![c] = "timeout"]
    /\ Queue(c, "returning")
    /\ UNCHANGED <<lease, m_pool, broken, answer>>

\* Mutant: a connection whose query threw is not given back.
GiveBackUnlessThrown(c) ==
    m_pool' = IF lookup'[c] = "error" THEN m_pool ELSE m_pool \union {lease[c]}

GiveBack(c) == m_pool' = m_pool \union {lease[c]}

\* The query throws on a broken connection; every way the connection goes back.
Queried(c) ==
    /\ place[c] = "querying"
    /\ \E found \in IF lease[c] \in broken THEN {"error"}
                    ELSE {"same", "different", "missing"} :
          lookup' = [lookup EXCEPT ![c] = found]
    /\ lease' = [lease EXCEPT ![c] = 0]
    /\ GiveBack(c)
    /\ Queue(c, "returning")
    /\ UNCHANGED <<broken, answer>>

\* Nothing opens the connection again: the factory opened it, once.
ConnectionBreaks(pos) ==
    /\ pos \notin broken
    /\ broken' = broken \union {pos}
    /\ UNCHANGED <<ready, place, lease, m_pool, lookup, answer>>

-----------------------------------------------------------------------------
GetPassword(c) == Bounce(c) \/ TryLease(c) \/ Leased(c) \/ LeaseTimesOut(c) \/ Queried(c)

Login(c) == Handle(c) \/ GetPassword(c) \/ Answer(c)

Next ==
    \/ \E c \in Clients : Request(c) \/ Login(c)
    \/ \E pos \in Connections : ConnectionBreaks(pos)

Spec == Init /\ [][Next]_vars

\* Every ready coroutine is resumed by a free thread, in order; a database
\* thread passes it on; a lease is had or times out, and a query ends.
FairSpec == Spec /\ \A c \in Clients : WF_vars(Login(c))
-----------------------------------------------------------------------------
\* The values each variable ranges over.
TypeOK ==
    /\ ready \in Seq(Clients)
    /\ place \in [Clients -> Places]
    /\ lease \in [Clients -> Connections \union {0}]
    /\ m_pool \subseteq Connections /\ broken \subseteq Connections
    /\ lookup \in [Clients -> Lookups]
    /\ answer \in [Clients -> LoginResults \union {"none"}]

\* Every connection is either free or leased by one coroutine, the one whose
\* query runs on it: none is shared, none is lost, whatever the query throws.
LeasesAreExclusive ==
    /\ \A pos \in Connections :
          pos \in m_pool <=> {c \in Clients : lease[c] = pos} = {}
    /\ \A c, d \in Clients : lease[c] = lease[d] /\ lease[c] # 0 => c = d
    /\ \A c \in Clients : lease[c] # 0 <=> place[c] = "querying"

\* Who waits for a connection waits for queries that hold all of them (none was
\* lost on the way), and waiters and queries block a thread of the io_context
\* each: a pool with as many connections as there are threads, and the default
\* is twice as many, is never exhausted.
LeaseWaitsForQueries ==
    LET waiting == Cardinality({c \in Clients : place[c] = "leasing"})
    IN  (m_pool = {} /\ waiting > 0)
            => /\ Cardinality({c \in Clients : place[c] = "querying"}) = PoolSize
               /\ PoolSize + waiting <= IoThreads

\* Every request is handled to the end, however many coroutines block threads.
RequestIsHandled == \A c \in Clients : place[c] = "received" ~> place[c] = "idle"

=============================================================================
