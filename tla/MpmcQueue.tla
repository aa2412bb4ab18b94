------------------------------ MODULE MpmcQueue ------------------------------
(***************************************************************************)
(* The blocking queue of spdlog (details/mpmc_blocking_q.h): a ring, one    *)
(* mutex and two condition variables.  What a call does between taking and  *)
(* giving back queue_mutex_ is one step; notify_one comes after it, in a    *)
(* step of its own.                                                        *)
(*                                                                         *)
(* A thread is at "idle" outside a call, at "lock" when it is to take the   *)
(* mutex and to test its condition (on entry or woken), at "waiting" on     *)
(* pop_cv_ (a producer) or push_cv_ (a consumer), and at "notify" between   *)
(* the unlock and its notify_one.                                          *)
(***************************************************************************)
EXTENDS CircularQ, FiniteSets

CONSTANTS Producers, Consumers, Items

ASSUME ThreadsAssumption ==
    /\ IsFiniteSet(Producers) /\ IsFiniteSet(Consumers)
    /\ Producers \cap Consumers = {}
    /\ NoItem \notin Items

VARIABLES
    q,      \* q_, the ring
    at,     \* where each thread is
    item    \* what it is about to push, or has popped

qvars == <<q, at, item>>

Threads == Producers \cup Consumers
Places  == {"idle", "lock", "waiting", "notify"}

QTypeOK ==
    /\ q \in Rings(Items)
    /\ at \in [Threads -> Places]
    /\ item \in [Threads -> Items \cup {NoItem}]

QInit ==
    /\ q = EmptyRing
    /\ at = [t \in Threads |-> "idle"]
    /\ item = [t \in Threads |-> NoItem]

-----------------------------------------------------------------------------
(* enqueue and dequeue                                                      *)

Call(p, x) ==
    /\ at[p] = "idle"
    /\ at' = [at EXCEPT ![p] = "lock"]
    /\ item' = [item EXCEPT ![p] = x]
    /\ UNCHANGED q

WaitForRoom(p) ==
    /\ at[p] = "lock"
    /\ IsFull(q)
    /\ at' = [at EXCEPT ![p] = "waiting"]
    /\ UNCHANGED <<q, item>>

Push(p) ==
    /\ at[p] = "lock"
    /\ ~IsFull(q)
    /\ q' = PushBack(q, item[p])
    /\ at' = [at EXCEPT ![p] = "notify"]
    /\ item' = [item EXCEPT ![p] = NoItem]

WaitForItem(c) ==
    /\ at[c] = "lock"
    /\ IsEmpty(q)
    /\ at' = [at EXCEPT ![c] = "waiting"]
    /\ UNCHANGED <<q, item>>

Pop(c) ==
    /\ at[c] = "lock"
    /\ ~IsEmpty(q)
    /\ q' = PopFront(q)
    /\ at' = [at EXCEPT ![c] = "notify"]
    /\ item' = [item EXCEPT ![c] = Front(q)]

\* notify_one wakes one thread that waits on the other side, if there is one.
NotifyOne(t, others) ==
    /\ at[t] = "notify"
    /\ LET waiters == {w \in others : at[w] = "waiting"}
       IN \/ /\ waiters = {}
             /\ at' = [at EXCEPT ![t] = "idle"]
          \/ \E w \in waiters : at' = [at EXCEPT ![t] = "idle", ![w] = "lock"]
    /\ UNCHANGED <<q, item>>

\* Mutant: dequeue notifies only when it made the first room.
NotifyIfWasFull(c) ==
    IF Size(q) = MaxItems - 1 THEN NotifyOne(c, Producers)
    ELSE at[c] = "notify" /\ at' = [at EXCEPT ![c] = "idle"] /\ UNCHANGED <<q, item>>

NotifyConsumer(p) == NotifyOne(p, Consumers)
NotifyProducer(c) == NotifyOne(c, Producers)

\* A condition variable may wake a thread that nobody has notified.
SpuriousWakeUp(t) ==
    /\ at[t] = "waiting"
    /\ at' = [at EXCEPT ![t] = "lock"]
    /\ UNCHANGED <<q, item>>

QProducerStep(p) == WaitForRoom(p) \/ Push(p) \/ NotifyConsumer(p)
QConsumerStep(c) == WaitForItem(c) \/ Pop(c) \/ NotifyProducer(c)

\* A consumer that has used what it popped asks for the next, or lets go of it
\* and asks no more.
DequeueNext(c) == Call(c, NoItem)
Discard(c) ==
    /\ at[c] = "idle"
    /\ item' = [item EXCEPT ![c] = NoItem]
    /\ UNCHANGED <<q, at>>

QNext ==
    \/ \E p \in Producers : QProducerStep(p) \/ \E x \in Items : Call(p, x)
    \/ \E c \in Consumers : QConsumerStep(c) \/ DequeueNext(c) \/ Discard(c)
    \/ \E t \in Threads : SpuriousWakeUp(t)

QSpec == QInit /\ [][QNext]_qvars

-----------------------------------------------------------------------------
In(S, place) == {t \in S : at[t] = place}

\* No wake-up is lost, on either condition variable.  As long as a thread of
\* one side waits, what it could do (items to take, room to fill) does not
\* exceed the threads of its side that are on their way to the mutex and the
\* notifications that are still to come from the other: those for whom there
\* is something to do are awake or about to be woken.  The notification comes
\* after the unlock, so a third thread may take what it announces.
NoLostWakeUp ==
    /\ In(Consumers, "waiting") # {} =>
         Size(q) <= Cardinality(In(Consumers, "lock")) + Cardinality(In(Producers, "notify"))
    /\ In(Producers, "waiting") # {} =>
         MaxItems - Size(q) <= Cardinality(In(Producers, "lock")) + Cardinality(In(Consumers, "notify"))
=============================================================================
