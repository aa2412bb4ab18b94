-------------------------- MODULE LoginServiceProofs --------------------------
(***************************************************************************)
(* Proofs about LoginService, for any number of clients, threads and        *)
(* connections.  That connections are exclusive is inductive with the       *)
(* types.  Who waits for whom follows from it and from the number of        *)
(* coroutines that block a thread: connections and the queries that hold    *)
(* them are then as many.                                                   *)
(***************************************************************************)
EXTENDS LoginService, FunctionTheorems, FiniteSetTheorems, TLAPS

\* A coroutine blocks the thread that resumed it, so no more block than there
\* are threads.
ThreadsBounded == Cardinality(Busy) <= IoThreads

LoginInv == TypeOK /\ LeasesAreExclusive /\ ThreadsBounded

-----------------------------------------------------------------------------
(* The queue of ready coroutines                                            *)

LEMMA QueueType ==
  ASSUME TypeOK, NEW c \in Clients, NEW where \in Places, Queue(c, where)
  PROVE  /\ ready' \in Seq(Clients)
         /\ place' \in [Clients -> Places]
BY DEF TypeOK, Queue

LEMMA ResumeType ==
  ASSUME TypeOK, NEW c \in Clients, NEW where \in Places, Resume(c, where)
  PROVE  /\ ready' \in Seq(Clients)
         /\ place' \in [Clients -> Places]
BY DEF TypeOK, Resume

-----------------------------------------------------------------------------
(* Types                                                                    *)

LEMMA TypeStep ==
  ASSUME TypeOK, LeasesAreExclusive, [Next]_vars
  PROVE  TypeOK'
<1> USE DEF Queueing, Blocking
<1>1. ASSUME NEW c \in Clients, Request(c)
      PROVE  TypeOK'
  <2>1. Queue(c, "received") /\ "received" \in Places
    BY <1>1 DEF Request, Places
  <2> QED
    BY <1>1, <2>1, QueueType DEF Request, TypeOK, Lookups
<1>2. ASSUME NEW c \in Clients, Handle(c)
      PROVE  TypeOK'
  <2>1. PICK where \in Places : Resume(c, where)
    BY <1>2 DEF Handle, Places
  <2> QED
    BY <1>2, <2>1, ResumeType DEF Handle, TypeOK
<1>3. ASSUME NEW c \in Clients, Bounce(c)
      PROVE  TypeOK'
  <2>1. Queue(c, "bounced") /\ "bounced" \in Places
    BY <1>3 DEF Bounce, Places
  <2> QED
    BY <1>3, <2>1, QueueType DEF Bounce, TypeOK
<1>4. ASSUME NEW c \in Clients, TryLease(c)
      PROVE  TypeOK'
  <2>1. Resume(c, "leasing") /\ "leasing" \in Places
    BY <1>4 DEF TryLease, Places
  <2> QED
    BY <1>4, <2>1, ResumeType DEF TryLease, TypeOK
<1>5. ASSUME NEW c \in Clients, Leased(c)
      PROVE  TypeOK'
  BY <1>5 DEF Leased, TypeOK, Places
<1>6. ASSUME NEW c \in Clients, LeaseTimesOut(c)
      PROVE  TypeOK'
  <2>1. Queue(c, "returning") /\ "returning" \in Places
    BY <1>6 DEF LeaseTimesOut, Places
  <2> QED
    BY <1>6, <2>1, QueueType DEF LeaseTimesOut, TypeOK, Lookups
<1>7. ASSUME NEW c \in Clients, Queried(c)
      PROVE  TypeOK'
  <2>1. Queue(c, "returning") /\ "returning" \in Places
    BY <1>7 DEF Queried, Places
  <2>2. lease[c] \in Connections
    BY <1>7 DEF Queried, TypeOK, LeasesAreExclusive
  <2> QED
    BY <1>7, <2>1, <2>2, QueueType DEF Queried, GiveBack, TypeOK, Lookups
<1>8. ASSUME NEW c \in Clients, Answer(c)
      PROVE  TypeOK'
  <2>1. Resume(c, "idle") /\ "idle" \in Places
    BY <1>8 DEF Answer, Places
  <2> QED
    BY <1>8, <2>1, ResumeType DEF Answer, TypeOK, LoginResults, ValidateCredentials
<1>9. ASSUME NEW pos \in Connections, ConnectionBreaks(pos)
      PROVE  TypeOK'
  BY <1>9 DEF ConnectionBreaks, TypeOK
<1>10. CASE UNCHANGED vars
  BY <1>10 DEF vars, TypeOK
<1> QED
  BY <1>1, <1>2, <1>3, <1>4, <1>5, <1>6, <1>7, <1>8, <1>9, <1>10
  DEF Next, Login, GetPassword

-----------------------------------------------------------------------------
(* Connections                                                              *)

\* A step that gives and takes no connection.
LEMMA LeasesKept ==
  ASSUME TypeOK, LeasesAreExclusive,
         UNCHANGED <<lease, m_pool>>,
         NEW c \in Clients, place[c] # "querying",
         NEW where, where # "querying", place' = [place EXCEPT ![c] = where]
  PROVE  LeasesAreExclusive'
<1>1. \A d \in Clients : place'[d] = "querying" <=> place[d] = "querying"
  BY DEF TypeOK
<1> QED
  BY <1>1 DEF LeasesAreExclusive

LEMMA LeasesStep ==
  ASSUME TypeOK, LeasesAreExclusive, [Next]_vars
  PROVE  LeasesAreExclusive'
<1>1. ASSUME NEW c \in Clients,
             Request(c) \/ Handle(c) \/ Bounce(c) \/ TryLease(c) \/ LeaseTimesOut(c) \/ Answer(c)
      PROVE  LeasesAreExclusive'
  <2>1. /\ UNCHANGED <<lease, m_pool>>
        /\ place[c] # "querying"
        /\ \E where : where # "querying" /\ place' = [place EXCEPT ![c] = where]
    BY <1>1, Zenon DEF Request, Handle, Bounce, TryLease, LeaseTimesOut, Answer, Queue, Resume
  <2> QED
    BY <2>1, LeasesKept
<1>2. ASSUME NEW c \in Clients, Leased(c)
      PROVE  LeasesAreExclusive'
  <2>1. PICK pos \in m_pool : /\ lease' = [lease EXCEPT ![c] = pos]
                              /\ m_pool' = m_pool \ {pos}
    BY <1>2 DEF Leased
  <2>2. /\ pos \in Connections /\ pos # 0
        /\ lease[c] = 0
        /\ \A d \in Clients : lease[d] # pos
        /\ place[c] = "leasing" /\ place' = [place EXCEPT ![c] = "querying"]
    BY <1>2, SizesAssumption DEF Leased, TypeOK, LeasesAreExclusive, Connections
  <2>3. \A d \in Clients : lease'[d] = IF d = c THEN pos ELSE lease[d]
    BY <2>1 DEF TypeOK
  <2>4. \A p \in Connections : p \in m_pool' <=> {d \in Clients : lease'[d] = p} = {}
    <3> SUFFICES ASSUME NEW p \in Connections
                 PROVE  p \in m_pool' <=> {d \in Clients : lease'[d] = p} = {}
      OBVIOUS
    <3>1. p # 0
      BY SizesAssumption DEF Connections
    <3>2. CASE p = pos
      BY <2>1, <2>3, <3>2
    <3>3. CASE p # pos
      <4>1. {d \in Clients : lease'[d] = p} = {d \in Clients : lease[d] = p}
        BY <2>2, <2>3, <3>1, <3>3
      <4> QED
        BY <2>1, <3>3, <4>1 DEF LeasesAreExclusive
    <3> QED
      BY <3>2, <3>3
  <2>5. \A d, e \in Clients : lease'[d] = lease'[e] /\ lease'[d] # 0 => d = e
    BY <2>2, <2>3 DEF LeasesAreExclusive
  <2>6. \A d \in Clients : lease'[d] # 0 <=> place'[d] = "querying"
    BY <2>2, <2>3 DEF LeasesAreExclusive, TypeOK
  <2> QED
    BY <2>4, <2>5, <2>6 DEF LeasesAreExclusive, Connections
<1>3. ASSUME NEW c \in Clients, Queried(c)
      PROVE  LeasesAreExclusive'
  <2>1. /\ lease[c] \in Connections /\ lease[c] # 0
        /\ m_pool' = m_pool \union {lease[c]}
        /\ place' = [place EXCEPT ![c] = "returning"]
    BY <1>3 DEF Queried, GiveBack, Queue, TypeOK, LeasesAreExclusive
  <2>2. \A d \in Clients : lease'[d] = IF d = c THEN 0 ELSE lease[d]
    BY <1>3 DEF Queried, TypeOK
  <2>3. \A p \in Connections : p \in m_pool' <=> {d \in Clients : lease'[d] = p} = {}
    <3> SUFFICES ASSUME NEW p \in Connections
                 PROVE  p \in m_pool' <=> {d \in Clients : lease'[d] = p} = {}
      OBVIOUS
    <3>1. p # 0
      BY SizesAssumption DEF Connections
    <3> QED
      BY <2>1, <2>2, <3>1 DEF LeasesAreExclusive
  <2>4. \A d, e \in Clients : lease'[d] = lease'[e] /\ lease'[d] # 0 => d = e
    BY <2>2 DEF LeasesAreExclusive
  <2>5. \A d \in Clients : lease'[d] # 0 <=> place'[d] = "querying"
    BY <2>1, <2>2 DEF LeasesAreExclusive, TypeOK
  <2> QED
    BY <2>3, <2>4, <2>5 DEF LeasesAreExclusive, Connections
<1>4. ASSUME NEW pos \in Connections, ConnectionBreaks(pos)
      PROVE  LeasesAreExclusive'
  BY <1>4 DEF ConnectionBreaks, LeasesAreExclusive
<1>5. CASE UNCHANGED vars
  BY <1>5 DEF vars, LeasesAreExclusive
<1> QED
  BY <1>1, <1>2, <1>3, <1>4, <1>5 DEF Next, Login, GetPassword

-----------------------------------------------------------------------------
(* Threads                                                                  *)

LEMMA BusyFinite == IsFiniteSet(Busy) /\ Cardinality(Busy) \in Nat
<1>1. Busy \in SUBSET Clients
  BY DEF Busy
<1> QED
  BY <1>1, ClientsAssumption, FS_Subset, FS_CardinalityType

LEMMA BusyFinitePrime == IsFiniteSet(Busy') /\ Cardinality(Busy') \in Nat
<1>1. Busy' \in SUBSET Clients
  BY DEF Busy
<1> QED
  BY <1>1, ClientsAssumption, FS_Subset, FS_CardinalityType

\* Only a free thread can be blocked anew.
LEMMA ThreadsStep ==
  ASSUME TypeOK, ThreadsBounded, [Next]_vars
  PROVE  ThreadsBounded'
<1>1. ASSUME Busy' \subseteq Busy
      PROVE  ThreadsBounded'
  <2>1. Cardinality(Busy') <= Cardinality(Busy)
    BY <1>1, BusyFinite, FS_Subset
  <2> QED
    BY <2>1, BusyFinite, BusyFinitePrime, SizesAssumption DEF ThreadsBounded
<1>2. ASSUME NEW c \in Clients, NEW where, Resume(c, where)
      PROVE  ThreadsBounded'
  <2>1. /\ Cardinality(Busy) < IoThreads
        /\ Busy' \subseteq Busy \cup {c}
    BY <1>2 DEF Resume, Busy, TypeOK
  <2>2. /\ IsFiniteSet(Busy \cup {c})
        /\ Cardinality(Busy \cup {c}) <= Cardinality(Busy) + 1
    BY BusyFinite, FS_AddElement
  <2>3. Cardinality(Busy') <= Cardinality(Busy \cup {c})
    BY <2>1, <2>2, FS_Subset
  <2>4. Cardinality(Busy \cup {c}) \in Nat
    BY <2>2, FS_CardinalityType
  <2> QED
    BY <2>1, <2>2, <2>3, <2>4, BusyFinite, BusyFinitePrime, SizesAssumption DEF ThreadsBounded
<1>3. ASSUME NEW c \in Clients, Handle(c) \/ TryLease(c) \/ Answer(c)
      PROVE  ThreadsBounded'
  BY <1>2, <1>3 DEF Handle, TryLease, Answer
<1>4. ASSUME NEW c \in Clients, Request(c) \/ Bounce(c) \/ LeaseTimesOut(c) \/ Queried(c)
      PROVE  ThreadsBounded'
  <2>1. Busy' \subseteq Busy
    BY <1>4 DEF Request, Bounce, LeaseTimesOut, Queried, Queue, Busy, Blocking, TypeOK
  <2> QED
    BY <1>1, <2>1
<1>5. ASSUME NEW c \in Clients, Leased(c)
      PROVE  ThreadsBounded'
  <2>1. Busy' \subseteq Busy
    BY <1>5 DEF Leased, Busy, Blocking, TypeOK
  <2> QED
    BY <1>1, <2>1
<1>6. ASSUME UNCHANGED place
      PROVE  ThreadsBounded'
  BY <1>1, <1>6 DEF Busy
<1> QED
  BY <1>3, <1>4, <1>5, <1>6 DEF Next, Login, GetPassword, ConnectionBreaks, vars

-----------------------------------------------------------------------------
(* The theorems                                                             *)

LEMMA InitInv == Init => LoginInv
<1> SUFFICES ASSUME Init
             PROVE  LoginInv
  OBVIOUS
<1>1. TypeOK
  BY DEF Init, TypeOK, Places, Lookups
<1>2. LeasesAreExclusive
  <2>1. \A p \in Connections : p # 0
    BY SizesAssumption DEF Connections
  <2> QED
    BY <2>1 DEF Init, LeasesAreExclusive
<1>3. Busy = {}
  BY DEF Init, Busy, Blocking
<1>4. ThreadsBounded
  BY <1>3, FS_EmptySet, SizesAssumption DEF ThreadsBounded
<1> QED
  BY <1>1, <1>2, <1>4 DEF LoginInv

THEOREM LoginInvariance == Spec => []LoginInv
<1>1. LoginInv /\ [Next]_vars => LoginInv'
  BY TypeStep, LeasesStep, ThreadsStep DEF LoginInv
<1> QED
  BY InitInv, <1>1, PTL DEF Spec

\* No connection of the pool is shared by two logins or lost by a query that
\* throws (PostgresAccountRepository::GetPassword).
THEOREM Exclusive == Spec => []LeasesAreExclusive
<1>1. LoginInv => LeasesAreExclusive
  BY DEF LoginInv
<1> QED
  BY <1>1, LoginInvariance, PTL

\* When the pool is empty each connection has the one query that holds it.
LEMMA EmptyPool ==
  ASSUME LoginInv, m_pool = {}
  PROVE  Cardinality({c \in Clients : place[c] = "querying"}) = PoolSize
<1> DEFINE Q == {c \in Clients : place[c] = "querying"}
           f == [c \in Q |-> lease[c]]
<1>1. \A c \in Q : lease[c] \in Connections /\ lease[c] # 0
  BY DEF LoginInv, TypeOK, LeasesAreExclusive
<1>2. \A pos \in Connections : \E c \in Q : lease[c] = pos
  <2> SUFFICES ASSUME NEW pos \in Connections
               PROVE  \E c \in Q : lease[c] = pos
    OBVIOUS
  <2>1. pos # 0
    BY SizesAssumption DEF Connections
  <2>2. PICK c \in Clients : lease[c] = pos
    BY DEF LoginInv, LeasesAreExclusive
  <2> QED
    BY <2>1, <2>2 DEF LoginInv, LeasesAreExclusive
<1>3. \A c, d \in Q : lease[c] = lease[d] => c = d
  BY <1>1 DEF LoginInv, LeasesAreExclusive
<1>4. f \in Bijection(Q, Connections)
  BY <1>1, <1>2, <1>3, Fun_IsBij
<1>5. ExistsBijection(Q, Connections)
  BY <1>4 DEF ExistsBijection
<1>6. IsFiniteSet(Q)
  BY ClientsAssumption, FS_Subset
<1>7. Cardinality(Connections) = PoolSize
  BY FS_Interval, SizesAssumption DEF Connections
<1> QED
  BY <1>5, <1>6, <1>7, FS_Bijection

\* Who waits in try_lease waits for queries that are running, and a pool of as
\* many connections as the io_context has threads is never exhausted.
THEOREM WaitsForQueries == Spec => []LeaseWaitsForQueries
<1>1. LoginInv => LeaseWaitsForQueries
  <2> DEFINE W == {c \in Clients : place[c] = "leasing"}
             Q == {c \in Clients : place[c] = "querying"}
  <2> SUFFICES ASSUME LoginInv, m_pool = {}
               PROVE  Cardinality(Q) = PoolSize /\ PoolSize + Cardinality(W) <= IoThreads
    BY DEF LeaseWaitsForQueries
  <2>1. Cardinality(Q) = PoolSize
    BY EmptyPool
  <2>2. Busy = Q \cup W /\ Q \cap W = {}
    BY DEF Busy, Blocking
  <2>3. IsFiniteSet(Q) /\ IsFiniteSet(W)
    BY ClientsAssumption, FS_Subset
  <2>4. Cardinality(Busy) = Cardinality(Q) + Cardinality(W)
    <3>1. Cardinality(Q \cup W) = Cardinality(Q) + Cardinality(W) - Cardinality(Q \cap W)
      BY <2>3, FS_Union
    <3>2. Cardinality(Q \cap W) = 0
      BY <2>2, FS_EmptySet
    <3>3. Cardinality(Q) \in Nat /\ Cardinality(W) \in Nat
      BY <2>3, FS_CardinalityType
    <3>4. Cardinality(Busy) = Cardinality(Q \cup W)
      BY <2>2
    <3> HIDE DEF Q, W
    <3> QED
      BY <3>1, <3>2, <3>3, <3>4
  <2> QED
    BY <2>1, <2>4 DEF LoginInv, ThreadsBounded
<1> QED
  BY <1>1, LoginInvariance, PTL
=============================================================================
