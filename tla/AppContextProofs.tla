-------------------------- MODULE AppContextProofs --------------------------
(***************************************************************************)
(* Proofs about CircularQ, MpmcQueue and AppContext, for any number of      *)
(* threads and any capacity of the queue.                                   *)
(*                                                                          *)
(* The ring is a bounded first-in first-out queue wherever head and tail    *)
(* have got to: PushBack appends to its contents, PopFront takes the first  *)
(* away.  NoLostWakeUp is inductive once the types are known: a push pays   *)
(* for itself with the notification it owes, a notification that finds a    *)
(* waiter with the waiter it wakes, and one that finds none leaves nobody   *)
(* to whom anything is owed.                                                *)
(*                                                                          *)
(* Every step of the process is a step of the queue or leaves it alone, so  *)
(* the process inherits what is proved of the queue. That the logger        *)
(* outlives its users follows from where main is while a thread runs        *)
(* (WorkersInv), from the registry being whole at those points              *)
(* (RegistryInv), from the flusher being over before its queue is taken     *)
(* away (FlusherInv), and from the pool's thread being told to end only     *)
(* when the pool is gone (PoolInv).                                         *)
(*                                                                          *)
(* The process implements LogChannel because no record is lost, doubled or  *)
(* overtaken between its acceptance and the file.  OrderInv says so without *)
(* counting: there are numbers upto[0], ..., upto[n] for the n messages of  *)
(* the queue such that a record is the one accepted at its number, the      *)
(* first continues the file and the last ends what was accepted.  EndInv    *)
(* adds that nothing is queued or held once the pool's thread has ended, so *)
(* the file is all that was accepted when the process exits.                *)
(***************************************************************************)
EXTENDS AppContext, FiniteSetTheorems, TLAPS

-----------------------------------------------------------------------------
(* The queue                                                                *)

\* The number of threads of one side at a place.
Count(S, place) == Cardinality(In(S, place))

QInv == QTypeOK /\ NoLostWakeUp

-----------------------------------------------------------------------------
(* The ring                                                                 *)

\* What the remainder is, within the two turns an index can be taken over.
LEMMA ModSlots ==
  ASSUME NEW n \in 0 .. (2 * MaxItems + 1)
  PROVE  n % Slots = IF n < Slots THEN n ELSE n - Slots
BY MaxItemsAssumption DEF Slots

\* The index after the last one is 0, and no other wraps.
LEMMA AfterWraps ==
  ASSUME NEW i \in Indices
  PROVE  /\ After(i) = IF i = MaxItems THEN 0 ELSE i + 1
         /\ After(i) \in Indices
BY MaxItemsAssumption DEF After, Slots, Indices

\* The size is what empty and full say it is, and never more than MaxItems.
LEMMA SizeOfRing ==
  ASSUME NEW S, NEW r \in Rings(S)
  PROVE  /\ Size(r) \in 0 .. MaxItems
         /\ IsEmpty(r) <=> Size(r) = 0
         /\ IsFull(r) <=> Size(r) = MaxItems
<1>1. /\ r.head \in 0 .. MaxItems
      /\ r.tail \in 0 .. MaxItems
  BY DEF Rings, Indices
<1>2. After(r.tail) = IF r.tail = MaxItems THEN 0 ELSE r.tail + 1
  BY <1>1, AfterWraps DEF Indices
<1> QED
  BY <1>1, <1>2, MaxItemsAssumption DEF Size, IsEmpty, IsFull, Slots

\* A ring starts empty.
LEMMA EmptyIsRing ==
  ASSUME NEW S
  PROVE  EmptyRing \in Rings(S) /\ Size(EmptyRing) = 0
BY MaxItemsAssumption DEF EmptyRing, Rings, Indices, Size

\* Where the item of index k is, without the remainder.
LEMMA AtIndex ==
  ASSUME NEW S, NEW r \in Rings(S), NEW k \in 0 .. MaxItems
  PROVE  At(r, k) = IF r.head + k < Slots THEN r.v[r.head + k]
                                          ELSE r.v[r.head + k - Slots]
<1>1. r.head \in 0 .. MaxItems
  BY DEF Rings, Indices
<1> DEFINE n == r.head + k
<1>2. n \in 0 .. (2 * MaxItems + 1)
  BY <1>1, MaxItemsAssumption
<1>3. At(r, k) = r.v[n % Slots]
  BY DEF At
<1> HIDE DEF n
<1>4. n % Slots = IF n < Slots THEN n ELSE n - Slots
  BY <1>2, ModSlots
<1>5. At(r, k) = IF n < Slots THEN r.v[n] ELSE r.v[n - Slots]
  BY <1>3, <1>4
<1>6. Slots \in Nat
  BY MaxItemsAssumption DEF Slots
<1> QED
  BY <1>1, <1>5, <1>6, MaxItemsAssumption DEF n

\* An index that is not yet at the size is at a slot other than the tail.
LEMMA SlotBeforeTail ==
  ASSUME NEW h \in 0 .. MaxItems, NEW t \in 0 .. MaxItems, NEW k \in 0 .. MaxItems,
         k < IF t >= h THEN t - h ELSE Slots - (h - t)
  PROVE  LET j == IF h + k < Slots THEN h + k ELSE h + k - Slots
         IN  j \in 0 .. MaxItems /\ j # t
<1> USE MaxItemsAssumption DEF Slots
<1>1. CASE t >= h
  <2>1. h + k < t /\ h + k < Slots
    BY <1>1
  <2> QED
    BY <2>1
<1>2. CASE t < h
  <2>1. h + k < Slots + t
    BY <1>2
  <2>2. CASE h + k < Slots
    BY <1>2, <2>2
  <2>3. CASE h + k >= Slots
    BY <1>2, <2>1, <2>3
  <2> QED
    BY <2>2, <2>3
<1> QED
  BY <1>1, <1>2

\* push_back on a ring with room: a ring again, one item longer, and the item
\* is behind those that were there.
THEOREM PushAppends ==
  ASSUME NEW S, NEW r \in Rings(S), NEW x \in S, ~IsFull(r)
  PROVE  /\ PushBack(r, x) \in Rings(S)
         /\ Size(PushBack(r, x)) = Size(r) + 1
         /\ Contents(PushBack(r, x)) = Append(Contents(r), x)
<1> DEFINE p == PushBack(r, x)
<1>1. /\ r.head \in 0 .. MaxItems
      /\ r.tail \in 0 .. MaxItems
      /\ r.v \in [Indices -> S \cup {NoItem}]
  BY DEF Rings, Indices
<1>2. After(r.tail) = (IF r.tail = MaxItems THEN 0 ELSE r.tail + 1)
  BY <1>1, AfterWraps DEF Indices
<1>3. /\ p.head = r.head
      /\ p.tail = After(r.tail)
      /\ p.v = [r.v EXCEPT ![r.tail] = x]
      /\ p = [v |-> p.v, head |-> p.head, tail |-> p.tail]
  BY DEF PushBack, IsFull
<1> HIDE DEF p
<1>4. p \in Rings(S)
  <2>1. p.v \in [Indices -> S \cup {NoItem}]
    BY <1>1, <1>3 DEF Indices
  <2> QED
    BY <1>1, <1>2, <1>3, <2>1, MaxItemsAssumption DEF Rings, Indices
<1>5. Size(p) = Size(r) + 1
  BY <1>1, <1>2, <1>3, MaxItemsAssumption DEF Size, IsFull, Slots
<1>6. Size(r) \in 0 .. MaxItems /\ Size(r) # MaxItems
  BY SizeOfRing
<1>7. ASSUME NEW k \in 0 .. (Size(r) - 1)
      PROVE  At(p, k) = At(r, k)
  <2>1. k \in 0 .. MaxItems
    BY <1>6, MaxItemsAssumption
  <2> DEFINE j == IF r.head + k < Slots THEN r.head + k ELSE r.head + k - Slots
  <2>2. At(p, k) = p.v[j] /\ At(r, k) = r.v[j]
    <3>1. At(r, k) = r.v[j]
      BY <2>1, AtIndex
    <3>2. At(p, k) = IF p.head + k < Slots THEN p.v[p.head + k] ELSE p.v[p.head + k - Slots]
      BY <1>4, <2>1, AtIndex
    <3> QED
      BY <1>3, <3>1, <3>2
  <2>3. j \in Indices /\ j # r.tail
    <3>1. k < IF r.tail >= r.head THEN r.tail - r.head ELSE Slots - (r.head - r.tail)
      BY <1>6 DEF Size
    <3> QED
      BY <1>1, <2>1, <3>1, SlotBeforeTail DEF Indices
  <2> HIDE DEF j
  <2> QED
    BY <1>1, <1>3, <2>2, <2>3
<1>8. At(p, Size(r)) = x
  <2> DEFINE n == Size(r)
             j == IF r.head + n < Slots THEN r.head + n ELSE r.head + n - Slots
  <2>1. j = r.tail
    BY <1>1, MaxItemsAssumption DEF Size, Slots
  <2> HIDE DEF n
  <2>2. n \in 0 .. MaxItems
    BY <1>6 DEF n
  <2>3. At(p, n) = p.v[j]
    <3>1. At(p, n) = IF p.head + n < Slots THEN p.v[p.head + n] ELSE p.v[p.head + n - Slots]
      BY <1>4, <2>2, AtIndex
    <3> QED
      BY <1>3, <3>1
  <2> HIDE DEF j
  <2>4. At(p, n) = x
    BY <1>1, <1>3, <2>1, <2>3 DEF Indices
  <2> QED
    BY <2>4 DEF n
<1>9. Contents(p) = Append(Contents(r), x)
  <2>1. /\ Contents(p) = [k \in 1 .. (Size(r) + 1) |-> At(p, k - 1)]
        /\ Contents(r) = [k \in 1 .. Size(r) |-> At(r, k - 1)]
    BY <1>5 DEF Contents
  <2>2. Append(Contents(r), x) = [k \in 1 .. (Size(r) + 1) |-> IF k = Size(r) + 1 THEN x ELSE At(r, k - 1)]
    BY <1>6, <2>1
  <2>3. ASSUME NEW k \in 1 .. (Size(r) + 1)
        PROVE  At(p, k - 1) = IF k = Size(r) + 1 THEN x ELSE At(r, k - 1)
    <3>1. CASE k = Size(r) + 1
      BY <1>6, <1>8, <3>1
    <3>2. CASE k # Size(r) + 1
      <4>1. k - 1 \in 0 .. (Size(r) - 1)
        BY <1>6, <3>2
      <4> QED
        BY <1>7, <3>2, <4>1
    <3> QED
      BY <3>1, <3>2
  <2> QED
    BY <2>1, <2>2, <2>3
<1> QED
  BY <1>4, <1>5, <1>9 DEF p

\* pop_front on a ring that holds something: the front is the first of the
\* contents, and the rest stay as they were.
THEOREM PopTakesFirst ==
  ASSUME NEW S, NEW r \in Rings(S), ~IsEmpty(r)
  PROVE  /\ PopFront(r) \in Rings(S)
         /\ Size(PopFront(r)) = Size(r) - 1
         /\ Front(r) = Head(Contents(r))
         /\ Contents(PopFront(r)) = Tail(Contents(r))
<1> DEFINE p == PopFront(r)
<1>1. /\ r.head \in 0 .. MaxItems
      /\ r.tail \in 0 .. MaxItems
      /\ r.v \in [Indices -> S \cup {NoItem}]
      /\ r = [v |-> r.v, head |-> r.head, tail |-> r.tail]
  BY DEF Rings, Indices
<1>2. After(r.head) = (IF r.head = MaxItems THEN 0 ELSE r.head + 1)
  BY <1>1, AfterWraps DEF Indices
<1>3. /\ p.head = After(r.head)
      /\ p.tail = r.tail
      /\ p.v = [r.v EXCEPT ![r.head] = NoItem]
      /\ p = [v |-> p.v, head |-> p.head, tail |-> p.tail]
  BY DEF PopFront
<1> HIDE DEF p
<1>4. p \in Rings(S)
  <2>1. p.v \in [Indices -> S \cup {NoItem}]
    BY <1>1, <1>3 DEF Indices
  <2> QED
    BY <1>1, <1>2, <1>3, <2>1, MaxItemsAssumption DEF Rings, Indices
<1>5. Size(p) = Size(r) - 1
  BY <1>1, <1>2, <1>3, MaxItemsAssumption DEF Size, IsEmpty, Slots
<1>6. Size(r) \in 1 .. MaxItems
  BY SizeOfRing
<1>7. ASSUME NEW k \in 0 .. (Size(r) - 2)
      PROVE  At(p, k) = At(r, k + 1)
  <2>1. k \in 0 .. MaxItems /\ k + 1 \in 0 .. MaxItems
    BY <1>6, MaxItemsAssumption
  <2>2. /\ At(p, k) = IF p.head + k < Slots THEN p.v[p.head + k] ELSE p.v[p.head + k - Slots]
        /\ At(r, k + 1) = IF r.head + (k + 1) < Slots THEN r.v[r.head + (k + 1)]
                                                      ELSE r.v[r.head + (k + 1) - Slots]
    BY <1>4, <2>1, AtIndex
  <2> DEFINE j == IF p.head + k < Slots THEN p.head + k ELSE p.head + k - Slots
  <2>3. /\ j \in Indices
        /\ j # r.head
        /\ j = IF r.head + (k + 1) < Slots THEN r.head + (k + 1) ELSE r.head + (k + 1) - Slots
    <3>0. /\ k + 1 < Slots /\ Slots = MaxItems + 1
          /\ k \in Nat /\ r.head \in Nat /\ r.head <= MaxItems
      BY <1>1, <1>6, <2>1, MaxItemsAssumption DEF Slots
    <3>1. CASE r.head = MaxItems
      <4>1. p.head = 0 /\ j = k
        BY <1>2, <1>3, <3>0, <3>1
      <4> QED
        BY <1>6, <3>0, <3>1, <4>1, MaxItemsAssumption DEF Indices
    <3>2. CASE r.head # MaxItems
      <4>1. p.head = r.head + 1
        BY <1>2, <1>3, <3>2
      <4>2. CASE r.head + 1 + k < Slots
        <5>1. j = r.head + 1 + k
          BY <4>1, <4>2
        <5> QED
          BY <3>0, <4>2, <5>1, MaxItemsAssumption DEF Indices
      <4>3. CASE ~(r.head + 1 + k < Slots)
        <5>1. j = r.head + 1 + k - Slots
          BY <4>1, <4>3
        <5> QED
          BY <3>0, <4>3, <5>1, MaxItemsAssumption DEF Indices
      <4> QED
        BY <4>2, <4>3
    <3> QED
      BY <3>1, <3>2
  <2>4. At(p, k) = p.v[j] /\ At(r, k + 1) = r.v[j]
    BY <2>2, <2>3
  <2> HIDE DEF j
  <2> QED
    BY <1>1, <1>3, <2>3, <2>4
<1>8. /\ Contents(p) = [k \in 1 .. (Size(r) - 1) |-> At(p, k - 1)]
      /\ Contents(r) = [k \in 1 .. Size(r) |-> At(r, k - 1)]
  BY <1>5 DEF Contents
<1>9. Front(r) = Head(Contents(r))
  <2>1. At(r, 0) = Front(r)
    BY <1>1, AtIndex, MaxItemsAssumption DEF Front, Slots
  <2> QED
    BY <1>6, <1>8, <2>1
<1>10. Contents(p) = Tail(Contents(r))
  <2>1. Tail(Contents(r)) = [k \in 1 .. (Size(r) - 1) |-> At(r, k)]
    BY <1>6, <1>8
  <2>2. ASSUME NEW k \in 1 .. (Size(r) - 1)
        PROVE  At(p, k - 1) = At(r, k)
    <3>1. k - 1 \in 0 .. (Size(r) - 2) /\ (k - 1) + 1 = k
      BY <1>6
    <3> QED
      BY <1>7, <3>1
  <2> QED
    BY <1>8, <2>1, <2>2
<1> QED
  BY <1>4, <1>5, <1>9, <1>10 DEF p

-----------------------------------------------------------------------------
(* Rings and counts                                                         *)

\* A slot may hold NoItem, so a ring of items is a ring of items and NoItem.
LEMMA RingsWithNoItem == Rings(Items) = Rings(Items \cup {NoItem})
BY DEF Rings

LEMMA CountType ==
  ASSUME NEW S, IsFiniteSet(S), NEW place
  PROVE  /\ IsFiniteSet(In(S, place))
         /\ Count(S, place) \in Nat
<1>1. In(S, place) \in SUBSET S
  BY DEF In
<1> QED
  BY <1>1, FS_Subset, FS_CardinalityType DEF Count

LEMMA FiniteSides ==
  /\ IsFiniteSet(Producers) /\ IsFiniteSet(Consumers)
  /\ Producers \subseteq Threads /\ Consumers \subseteq Threads
  /\ Producers \cap Consumers = {}
BY ThreadsAssumption DEF Threads

\* A thread that goes from one place to another is counted there instead.
LEMMA MoveCounts ==
  ASSUME QTypeOK, NEW t \in Threads, NEW b \in Places, at[t] # b, at' = [at EXCEPT ![t] = b]
  PROVE  \A S \in {Producers, Consumers}, place \in Places :
           Count(S, place)' = IF t \notin S THEN Count(S, place)
                              ELSE IF place = b THEN Count(S, place) + 1
                              ELSE IF place = at[t] THEN Count(S, place) - 1
                              ELSE Count(S, place)
<1> TAKE S \in {Producers, Consumers}, place \in Places
<1>0. IsFiniteSet(S) /\ S \subseteq Threads
  BY FiniteSides
<1>1. at \in [Threads -> Places]
  BY DEF QTypeOK
<1>2. IsFiniteSet(In(S, place))
  BY <1>0, CountType
<1>3. CASE t \notin S
  <2>1. In(S, place)' = In(S, place)
    BY <1>0, <1>1, <1>3 DEF In
  <2> QED
    BY <1>3, <2>1 DEF Count
<1>4. CASE t \in S /\ place = b
  <2>1. In(S, place)' = In(S, place) \cup {t} /\ t \notin In(S, place)
    <3>1. \A w \in S : at'[w] = place <=> w = t \/ at[w] = place
      BY <1>0, <1>1, <1>4
    <3>2. at[t] # place
      BY <1>4
    <3> QED
      BY <1>4, <3>1, <3>2, Zenon DEF In
  <2> QED
    BY <1>2, <1>4, <2>1, FS_AddElement DEF Count
<1>5. CASE t \in S /\ place # b /\ place = at[t]
  <2>1. In(S, place)' = In(S, place) \ {t} /\ t \in In(S, place)
    <3>1. \A w \in S : at'[w] = place <=> w # t /\ at[w] = place
      BY <1>0, <1>1, <1>5
    <3> QED
      BY <1>5, <3>1, Zenon DEF In
  <2> QED
    BY <1>2, <1>5, <2>1, FS_RemoveElement DEF Count
<1>6. CASE t \in S /\ place # b /\ place # at[t]
  <2>1. In(S, place)' = In(S, place)
    BY <1>0, <1>1, <1>6 DEF In
  <2> QED
    BY <1>6, <2>1 DEF Count
<1> QED
  BY <1>3, <1>4, <1>5, <1>6

\* Nobody starts to wait but the thread that moves.
LEMMA MoveWaits ==
  ASSUME NEW S, S \subseteq Threads, QTypeOK, NEW t \in Threads, NEW b \in Places,
         at' = [at EXCEPT ![t] = b], t \in S => b # "waiting",
         In(S, "waiting")' # {}
  PROVE  In(S, "waiting") # {}
<1>1. PICK w \in S : at'[w] = "waiting"
  BY DEF In
<1>2. at[w] = "waiting"
  BY <1>1 DEF QTypeOK
<1> QED
  BY <1>2 DEF In

\* What an invariant state says of the numbers NoLostWakeUp compares.
LEMMA NumbersOK ==
  ASSUME QTypeOK
  PROVE  /\ Size(q) \in 0 .. MaxItems
         /\ \A place : Count(Producers, place) \in Nat /\ Count(Consumers, place) \in Nat
<1>1. Size(q) \in 0 .. MaxItems
  BY SizeOfRing DEF QTypeOK
<1>2. ASSUME NEW place
      PROVE  Count(Producers, place) \in Nat /\ Count(Consumers, place) \in Nat
  BY FiniteSides, CountType
<1> QED
  BY <1>1, <1>2

-----------------------------------------------------------------------------
(* Types                                                                    *)

LEMMA InitQInv == QInit => QInv
<1> SUFFICES ASSUME QInit PROVE QInv
  OBVIOUS
<1>1. QTypeOK
  BY EmptyIsRing DEF QInit, QTypeOK, Places
<1>2. In(Producers, "waiting") = {} /\ In(Consumers, "waiting") = {}
  BY FiniteSides DEF QInit, In
<1> QED
  BY <1>1, <1>2 DEF QInv, NoLostWakeUp

LEMMA NextKeepsTypes == QTypeOK /\ [QNext]_qvars => QTypeOK'
<1> SUFFICES ASSUME QTypeOK, [QNext]_qvars PROVE QTypeOK'
  OBVIOUS
<1> USE FiniteSides DEF QTypeOK, Places
<1>1. ASSUME NEW p \in Producers, WaitForRoom(p) PROVE QTypeOK'
  BY <1>1 DEF WaitForRoom
<1>2. ASSUME NEW p \in Producers, Push(p) PROVE QTypeOK'
  <2>1. item[p] \in Items \cup {NoItem} /\ q \in Rings(Items \cup {NoItem})
    BY RingsWithNoItem
  <2>2. PushBack(q, item[p]) \in Rings(Items)
    BY <1>2, <2>1, PushAppends, RingsWithNoItem DEF Push
  <2> QED
    BY <1>2, <2>2 DEF Push
<1>3. ASSUME NEW t \in Threads, NEW others, others \subseteq Threads, NotifyOne(t, others)
      PROVE  QTypeOK'
  BY <1>3 DEF NotifyOne
<1>4. ASSUME NEW t \in Threads, NEW x \in Items \cup {NoItem}, Call(t, x) PROVE QTypeOK'
  BY <1>4 DEF Call
<1>5. ASSUME NEW c \in Consumers, WaitForItem(c) PROVE QTypeOK'
  BY <1>5 DEF WaitForItem
<1>6. ASSUME NEW c \in Consumers, Pop(c) PROVE QTypeOK'
  <2>1. PopFront(q) \in Rings(Items)
    BY <1>6, PopTakesFirst DEF Pop
  <2>2. Front(q) \in Items \cup {NoItem}
    BY DEF Front, Rings
  <2> QED
    BY <1>6, <2>1, <2>2 DEF Pop
<1>7. ASSUME NEW c \in Consumers, Discard(c) PROVE QTypeOK'
  BY <1>7 DEF Discard
<1>8. ASSUME NEW t \in Threads, SpuriousWakeUp(t) PROVE QTypeOK'
  BY <1>8 DEF SpuriousWakeUp
<1>9. CASE UNCHANGED qvars
  BY <1>9 DEF qvars
<1> QED
  BY <1>1, <1>2, <1>3, <1>4, <1>5, <1>6, <1>7, <1>8, <1>9
  DEF QNext, QProducerStep, QConsumerStep, NotifyConsumer, NotifyProducer, DequeueNext

-----------------------------------------------------------------------------
(* Wake-ups                                                                 *)

\* A step of one thread that does not begin to wait: the sides are owed no more
\* than before if the numbers move together.
LEMMA OneThreadMoves ==
  ASSUME QInv, QTypeOK', NEW t \in Threads, NEW b \in Places, at[t] # b,
         at' = [at EXCEPT ![t] = b], b # "waiting",
         \/ Size(q') = Size(q) /\ at[t] \in {"idle", "waiting"} /\ b = "lock"
         \/ Size(q') = Size(q) + 1 /\ t \in Producers /\ at[t] = "lock" /\ b = "notify"
         \/ Size(q') = Size(q) - 1 /\ t \in Consumers /\ at[t] = "lock" /\ b = "notify"
  PROVE  NoLostWakeUp'
<1>1. /\ In(Producers, "waiting")' # {} => In(Producers, "waiting") # {}
      /\ In(Consumers, "waiting")' # {} => In(Consumers, "waiting") # {}
  BY FiniteSides, MoveWaits DEF QInv
<1>2. /\ Size(q) \in 0 .. MaxItems /\ Size(q') \in 0 .. MaxItems
      /\ Count(Producers, "lock") \in Nat /\ Count(Producers, "notify") \in Nat
      /\ Count(Consumers, "lock") \in Nat /\ Count(Consumers, "notify") \in Nat
  BY NumbersOK, SizeOfRing DEF QInv, QTypeOK
<1>3. \A place \in Places :
        /\ Count(Producers, place)' =
             IF t \notin Producers THEN Count(Producers, place)
             ELSE IF place = b THEN Count(Producers, place) + 1
             ELSE IF place = at[t] THEN Count(Producers, place) - 1
             ELSE Count(Producers, place)
        /\ Count(Consumers, place)' =
             IF t \notin Consumers THEN Count(Consumers, place)
             ELSE IF place = b THEN Count(Consumers, place) + 1
             ELSE IF place = at[t] THEN Count(Consumers, place) - 1
             ELSE Count(Consumers, place)
  BY MoveCounts DEF QInv
<1>4. "lock" \in Places /\ "notify" \in Places
  BY DEF Places
<1>5. /\ In(Consumers, "waiting") # {} =>
           Size(q) <= Count(Consumers, "lock") + Count(Producers, "notify")
      /\ In(Producers, "waiting") # {} =>
           MaxItems - Size(q) <= Count(Producers, "lock") + Count(Consumers, "notify")
  BY DEF QInv, NoLostWakeUp, Count
<1>6. t \in Producers <=> t \notin Consumers
  BY FiniteSides DEF Threads
<1>7. /\ Count(Consumers, "lock")' + Count(Producers, "notify")' - Size(q')
            >= Count(Consumers, "lock") + Count(Producers, "notify") - Size(q)
      /\ Count(Producers, "lock")' + Count(Consumers, "notify")' + Size(q')
            >= Count(Producers, "lock") + Count(Consumers, "notify") + Size(q)
  <2>1. CASE t \in Producers
    <3>1. /\ Count(Consumers, "lock")' = Count(Consumers, "lock")
          /\ Count(Consumers, "notify")' = Count(Consumers, "notify")
      BY <1>3, <1>4, <1>6, <2>1
    <3>2. /\ Count(Producers, "lock")' =
               IF b = "lock" THEN Count(Producers, "lock") + 1
               ELSE IF at[t] = "lock" THEN Count(Producers, "lock") - 1 ELSE Count(Producers, "lock")
          /\ Count(Producers, "notify")' =
               IF b = "notify" THEN Count(Producers, "notify") + 1
               ELSE IF at[t] = "notify" THEN Count(Producers, "notify") - 1 ELSE Count(Producers, "notify")
      BY <1>3, <1>4, <2>1
    <3> QED
      BY <1>2, <1>6, <2>1, <3>1, <3>2
  <2>2. CASE t \in Consumers
    <3>1. /\ Count(Producers, "lock")' = Count(Producers, "lock")
          /\ Count(Producers, "notify")' = Count(Producers, "notify")
      BY <1>3, <1>4, <1>6, <2>2
    <3>2. /\ Count(Consumers, "lock")' =
               IF b = "lock" THEN Count(Consumers, "lock") + 1
               ELSE IF at[t] = "lock" THEN Count(Consumers, "lock") - 1 ELSE Count(Consumers, "lock")
          /\ Count(Consumers, "notify")' =
               IF b = "notify" THEN Count(Consumers, "notify") + 1
               ELSE IF at[t] = "notify" THEN Count(Consumers, "notify") - 1 ELSE Count(Consumers, "notify")
      BY <1>3, <1>4, <2>2
    <3> QED
      BY <1>2, <1>6, <2>2, <3>1, <3>2
  <2> QED
    BY <1>6, <2>1, <2>2
<1>8. /\ Count(Producers, "lock")' \in Int /\ Count(Producers, "notify")' \in Int
      /\ Count(Consumers, "lock")' \in Int /\ Count(Consumers, "notify")' \in Int
  BY <1>2, <1>3, <1>4
<1>9. /\ In(Consumers, "waiting")' # {} =>
           Size(q') <= Count(Consumers, "lock")' + Count(Producers, "notify")'
      /\ In(Producers, "waiting")' # {} =>
           MaxItems - Size(q') <= Count(Producers, "lock")' + Count(Consumers, "notify")'
  BY <1>1, <1>2, <1>5, <1>7, <1>8, MaxItemsAssumption
<1> QED
  BY <1>9 DEF NoLostWakeUp, Count

\* A producer begins to wait: the queue is full, so its side is owed nothing.
LEMMA ProducerWaits ==
  ASSUME QInv, NEW p \in Producers, WaitForRoom(p)
  PROVE  NoLostWakeUp'
<1>1. /\ p \in Threads /\ at[p] = "lock" /\ q' = q
      /\ at' = [at EXCEPT ![p] = "waiting"] /\ p \notin Consumers
  BY FiniteSides DEF WaitForRoom
<1>2. /\ In(Consumers, "waiting")' = In(Consumers, "waiting")
      /\ In(Consumers, "lock")' = In(Consumers, "lock")
      /\ In(Consumers, "notify")' = In(Consumers, "notify")
      /\ In(Producers, "notify")' = In(Producers, "notify")
  BY <1>1, FiniteSides DEF In, QInv, QTypeOK
<1>3. Size(q) = MaxItems
  BY SizeOfRing DEF WaitForRoom, QInv, QTypeOK
<1>4. Cardinality(In(Producers, "lock")') \in Nat /\ Cardinality(In(Consumers, "notify")') \in Nat
  <2>1. In(Producers, "lock")' \subseteq Producers /\ In(Consumers, "notify")' \subseteq Consumers
    BY DEF In
  <2> QED
    BY <2>1, FiniteSides, FS_Subset, FS_CardinalityType
<1>5. MaxItems - Size(q') <= Cardinality(In(Producers, "lock")') + Cardinality(In(Consumers, "notify")')
  BY <1>1, <1>3, <1>4, MaxItemsAssumption
<1>6. In(Consumers, "waiting")' # {} =>
        Size(q') <= Cardinality(In(Consumers, "lock")') + Cardinality(In(Producers, "notify")')
  BY <1>1, <1>2 DEF QInv, NoLostWakeUp
<1> QED
  BY <1>5, <1>6 DEF NoLostWakeUp

\* A consumer begins to wait: the queue is empty.
LEMMA ConsumerWaits ==
  ASSUME QInv, NEW c \in Consumers, WaitForItem(c)
  PROVE  NoLostWakeUp'
<1>1. /\ c \in Threads /\ at[c] = "lock" /\ q' = q
      /\ at' = [at EXCEPT ![c] = "waiting"] /\ c \notin Producers
  BY FiniteSides DEF WaitForItem
<1>2. /\ In(Producers, "waiting")' = In(Producers, "waiting")
      /\ In(Producers, "lock")' = In(Producers, "lock")
      /\ In(Producers, "notify")' = In(Producers, "notify")
      /\ In(Consumers, "notify")' = In(Consumers, "notify")
  BY <1>1, FiniteSides DEF In, QInv, QTypeOK
<1>3. Size(q) = 0
  BY SizeOfRing DEF WaitForItem, QInv, QTypeOK
<1>4. Cardinality(In(Consumers, "lock")') \in Nat /\ Cardinality(In(Producers, "notify")') \in Nat
  <2>1. In(Consumers, "lock")' \subseteq Consumers /\ In(Producers, "notify")' \subseteq Producers
    BY DEF In
  <2> QED
    BY <2>1, FiniteSides, FS_Subset, FS_CardinalityType
<1>5. Size(q') <= Cardinality(In(Consumers, "lock")') + Cardinality(In(Producers, "notify")')
  BY <1>1, <1>3, <1>4
<1>6. In(Producers, "waiting")' # {} =>
        MaxItems - Size(q') <= Cardinality(In(Producers, "lock")') + Cardinality(In(Consumers, "notify")')
  BY <1>1, <1>2 DEF QInv, NoLostWakeUp
<1> QED
  BY <1>5, <1>6 DEF NoLostWakeUp

\* A thread of one side, S, notifies the other, O: what it owed is owed by the
\* thread it wakes, or there is nobody to owe it to.
LEMMA NotifyMoves ==
  ASSUME QInv, NEW S, NEW O, IsFiniteSet(S), IsFiniteSet(O), S \cup O \subseteq Threads,
         S \cap O = {}, NEW t \in S, NotifyOne(t, O)
  PROVE  /\ In(S, "waiting")' = In(S, "waiting") /\ In(S, "lock")' = In(S, "lock")
         /\ In(O, "notify")' = In(O, "notify")
         /\ In(O, "waiting")' # {} =>
              /\ In(O, "waiting") # {}
              /\ Count(O, "lock")' + Count(S, "notify")' = Count(O, "lock") + Count(S, "notify")
<1>0. at \in [Threads -> Places] /\ at[t] = "notify" /\ t \in Threads /\ t \notin O
  BY DEF QInv, QTypeOK, NotifyOne
<1>1. CASE In(O, "waiting") = {} /\ at' = [at EXCEPT ![t] = "idle"]
  BY <1>0, <1>1 DEF In
<1>2. ASSUME NEW w \in O, at[w] = "waiting", at' = [at EXCEPT ![t] = "idle", ![w] = "lock"]
      PROVE  /\ In(S, "waiting")' = In(S, "waiting") /\ In(S, "lock")' = In(S, "lock")
             /\ In(O, "notify")' = In(O, "notify")
             /\ In(O, "waiting") # {}
             /\ Count(O, "lock")' + Count(S, "notify")' = Count(O, "lock") + Count(S, "notify")
  <2>0. w \in Threads /\ w \notin S /\ w # t
    BY <1>0, <1>2
  <2>1. /\ In(S, "waiting")' = In(S, "waiting") /\ In(S, "lock")' = In(S, "lock")
        /\ In(O, "notify")' = In(O, "notify") /\ In(O, "waiting") # {}
    BY <1>0, <1>2, <2>0 DEF In
  <2>2. In(O, "lock")' = In(O, "lock") \cup {w} /\ w \notin In(O, "lock")
    BY <1>0, <1>2, <2>0 DEF In
  <2>3. In(S, "notify")' = In(S, "notify") \ {t} /\ t \in In(S, "notify")
    BY <1>0, <1>2, <2>0 DEF In
  <2>4. Count(O, "lock")' = Count(O, "lock") + 1
    BY <2>2, CountType, FS_AddElement DEF Count
  <2>5. Count(S, "notify")' = Count(S, "notify") - 1
    BY <2>3, CountType, FS_RemoveElement DEF Count
  <2>6. Count(O, "lock") \in Nat /\ Count(S, "notify") \in Nat
    BY CountType
  <2> QED
    BY <2>1, <2>4, <2>5, <2>6
<1>3. \/ In(O, "waiting") = {} /\ at' = [at EXCEPT ![t] = "idle"]
      \/ \E w \in O : at[w] = "waiting" /\ at' = [at EXCEPT ![t] = "idle", ![w] = "lock"]
  BY DEF NotifyOne, In
<1> QED
  BY <1>1, <1>2, <1>3

LEMMA NextKeepsWakeUps == QInv /\ [QNext]_qvars => QInv'
<1> SUFFICES ASSUME QInv, [QNext]_qvars PROVE QInv'
  OBVIOUS
<1>0. QTypeOK /\ QTypeOK'
  BY NextKeepsTypes DEF QInv
<1> USE FiniteSides
<1>1. ASSUME NEW t \in Threads, NEW x, Call(t, x) PROVE NoLostWakeUp'
  <2>1. at[t] = "idle" /\ at' = [at EXCEPT ![t] = "lock"] /\ q' = q
    BY <1>1 DEF Call
  <2> QED
    BY <1>0, <2>1, OneThreadMoves DEF Places
<1>2. ASSUME NEW t \in Threads, SpuriousWakeUp(t) PROVE NoLostWakeUp'
  <2>1. at[t] = "waiting" /\ at' = [at EXCEPT ![t] = "lock"] /\ q' = q
    BY <1>2 DEF SpuriousWakeUp
  <2> QED
    BY <1>0, <2>1, OneThreadMoves DEF Places
<1>3. ASSUME NEW p \in Producers, Push(p) PROVE NoLostWakeUp'
  <2>1. item[p] \in Items \cup {NoItem} /\ q \in Rings(Items \cup {NoItem}) /\ ~IsFull(q)
    BY <1>0, <1>3, RingsWithNoItem DEF Push, QTypeOK
  <2>2. Size(q') = Size(q) + 1
    BY <1>3, <2>1, PushAppends DEF Push
  <2>3. at[p] = "lock" /\ at' = [at EXCEPT ![p] = "notify"] /\ p \in Threads
    BY <1>3 DEF Push
  <2> QED
    BY <1>0, <2>2, <2>3, OneThreadMoves DEF Places
<1>4. ASSUME NEW c \in Consumers, Pop(c) PROVE NoLostWakeUp'
  <2>1. Size(q') = Size(q) - 1
    BY <1>0, <1>4, PopTakesFirst DEF Pop, QTypeOK
  <2>2. at[c] = "lock" /\ at' = [at EXCEPT ![c] = "notify"] /\ c \in Threads
    BY <1>4 DEF Pop
  <2> QED
    BY <1>0, <2>1, <2>2, OneThreadMoves DEF Places
<1>5. ASSUME NEW p \in Producers, NotifyConsumer(p) PROVE NoLostWakeUp'
  <2>1. /\ In(Producers, "waiting")' = In(Producers, "waiting")
        /\ In(Producers, "lock")' = In(Producers, "lock")
        /\ In(Consumers, "notify")' = In(Consumers, "notify")
        /\ In(Consumers, "waiting")' # {} =>
             /\ In(Consumers, "waiting") # {}
             /\ Count(Consumers, "lock")' + Count(Producers, "notify")'
                   = Count(Consumers, "lock") + Count(Producers, "notify")
    BY <1>5, NotifyMoves DEF NotifyConsumer
  <2>2. q' = q
    BY <1>5 DEF NotifyConsumer, NotifyOne
  <2> QED
    BY <2>1, <2>2 DEF QInv, NoLostWakeUp, Count
<1>6. ASSUME NEW c \in Consumers, NotifyProducer(c) PROVE NoLostWakeUp'
  <2>1. /\ In(Consumers, "waiting")' = In(Consumers, "waiting")
        /\ In(Consumers, "lock")' = In(Consumers, "lock")
        /\ In(Producers, "notify")' = In(Producers, "notify")
        /\ In(Producers, "waiting")' # {} =>
             /\ In(Producers, "waiting") # {}
             /\ Count(Producers, "lock")' + Count(Consumers, "notify")'
                   = Count(Producers, "lock") + Count(Consumers, "notify")
    BY <1>6, NotifyMoves DEF NotifyProducer
  <2>2. q' = q
    BY <1>6 DEF NotifyProducer, NotifyOne
  <2> QED
    BY <2>1, <2>2 DEF QInv, NoLostWakeUp, Count
<1>7. ASSUME NEW c \in Consumers, Discard(c) PROVE NoLostWakeUp'
  BY <1>7 DEF Discard, QInv, NoLostWakeUp, In
<1>8. ASSUME UNCHANGED qvars PROVE NoLostWakeUp'
  BY <1>8 DEF qvars, QInv, NoLostWakeUp, In
<1>9. /\ \A p \in Producers : WaitForRoom(p) => NoLostWakeUp'
      /\ \A c \in Consumers : WaitForItem(c) => NoLostWakeUp'
  BY ProducerWaits, ConsumerWaits
<1>10. NoLostWakeUp'
  BY <1>1, <1>2, <1>3, <1>4, <1>5, <1>6, <1>7, <1>8, <1>9
  DEF QNext, QProducerStep, QConsumerStep, DequeueNext
<1> QED
  BY <1>0, <1>10 DEF QInv

\* The queue loses no wake-up, for every capacity and every number of threads,
\* though both sides notify after they have unlocked (enqueue and dequeue of
\* mpmc_blocking_q.h).
THEOREM QueueLosesNoWakeUp == QSpec => [](QTypeOK /\ NoLostWakeUp)
<1>1. QInv => QTypeOK /\ NoLostWakeUp
  BY DEF QInv
<1> QED
  BY InitQInv, NextKeepsWakeUps, <1>1, PTL DEF QSpec

-----------------------------------------------------------------------------
(* The process                                                              *)

Early == {"create_pool", "create_sink", "flush_every", "set_default", "init_db",
          "build_server", "listen"}
Ups   == {"build_server", "listen", "spawn", "join_io", "stop_db", "join_db",
          "reset_server", "aborted"}

WorkersInv ==
    /\ live \subseteq Workers /\ joinable \subseteq IoThreads
    /\ live \cap IoThreads \subseteq joinable
    /\ live # {} => main \in Ups
    /\ main = "reset_server" => live \cap DbThreads = {}
    /\ \A t \in Workers : at[t] # "idle" => t \in live
    /\ main \in Early => joinable = {} /\ \A t \in Workers : at[t] = "idle"

RegistryInv ==
    /\ main \in Ups \cup {"init_db"} => defaultLogger = "file" /\ mapped /\ tp
    /\ main \in {"create_sink", "flush_every", "set_default"} => tp
    /\ main \in {"flush_every", "set_default"} => mapped

FlusherInv ==
    /\ flusher = "running" => mapped /\ tp
    /\ at[Flusher] # "idle" => flusher = "running"
    /\ main \in {"reset_pool", "join_pool", "drop_all", "exited"} => flusher # "running"

NobodyTerminates ==
    /\ \A i \in Indices : q.v[i] # TerminateRequest
    /\ \A t \in Threads : item[t] # TerminateRequest

PoolInv ==
    /\ tp => backend = "running"
    /\ tp \/ main = "create_pool" => NobodyTerminates

\* Records are numbered from 1, so that each has its number.
NumberInv ==
    /\ started \in Nat
    /\ main \in Early => started = 0

ProcessInv == WorkersInv /\ RegistryInv /\ FlusherInv /\ PoolInv /\ NumberInv

-----------------------------------------------------------------------------
(* What the log needs.                                                      *)

\* Nobody holds a message it has passed on or has not got yet.
ItemInv ==
    /\ \A p \in Producers : at[p] \in {"idle", "notify"} => item[p] = NoItem
    /\ at[Backend] \in {"lock", "waiting"} => item[Backend] = NoItem

FileInv ==
    /\ accepted \in Seq(Records) /\ file \in Seq(Records)
    /\ durable \in 0 .. Len(file)

Weight(m) == IF m \in Records THEN 1 ELSE 0

\* upto[i] is how many records were accepted up to the i-th message of the
\* queue: it steps by one at each record, from those the backend has, to all.
Numbers(upto) ==
    /\ upto[0] = Len(file) + Weight(item[Backend])
    /\ \A i \in 1 .. Size(q) : /\ upto[i] = upto[i - 1] + Weight(Contents(q)[i])
                               /\ Contents(q)[i] \in Records => accepted[upto[i]] = Contents(q)[i]
    /\ upto[Size(q)] = Len(accepted)

\* What was accepted is the file, then what the backend holds, then the queue.
OrderInv ==
    /\ \E upto \in [0 .. Size(q) -> 0 .. Len(accepted)] : Numbers(upto)
    /\ item[Backend] \in Records => accepted[Len(file) + 1] = item[Backend]
    /\ \A i \in 1 .. Len(file) : file[i] = accepted[i]

\* Where main is tells whether the pool is there.
PoolAtInv ==
    /\ main \in {"stop_flusher", "join_flusher", "reset_pool"} => tp
    /\ main = "drop_all" /\ ~ exiting => tp
    /\ main = "drop_all" /\ exiting => ~ tp
    /\ main = "join_pool" => ~ tp
    /\ backend = "running" => tp \/ main = "join_pool"

\* The request to end is the last message of the queue: with main, in the
\* queue, with the backend, done.
NoneQueued == \A i \in 1 .. Size(q) : Contents(q)[i] # TerminateRequest
Terminating ==
    \/ /\ at[Main] \in {"lock", "waiting"} /\ item[Main] = TerminateRequest
       /\ NoneQueued /\ item[Backend] # TerminateRequest
    \/ /\ at[Main] \in {"idle", "notify"} /\ item[Backend] # TerminateRequest
       /\ Size(q) > 0 /\ Contents(q)[Size(q)] = TerminateRequest
       /\ \A i \in 1 .. (Size(q) - 1) : Contents(q)[i] # TerminateRequest
    \/ /\ at[Main] \in {"idle", "notify"} /\ item[Backend] = TerminateRequest
       /\ Size(q) = 0

EndInv ==
    /\ backend \in {"none", "running", "ended"}
    /\ main = "create_pool" => backend = "none"
    /\ backend = "none" => at[Main] = "idle"
    /\ backend # "running" => /\ Size(q) = 0 /\ item[Backend] = NoItem
                              /\ at[Main] \in {"idle", "notify"}
    /\ backend = "running" /\ ~ tp => Terminating

LogInv == ItemInv /\ FileInv /\ OrderInv /\ PoolAtInv /\ EndInv

-----------------------------------------------------------------------------
(* Threads and messages                                                     *)

LEMMA TheThreads ==
    /\ Main \in Producers /\ Flusher \in Producers /\ Backend \in Consumers
    /\ Main \in Threads /\ Flusher \in Threads /\ Backend \in Threads
    /\ Workers \subseteq Threads /\ Workers \subseteq Producers
    /\ Producers \subseteq Threads /\ Consumers \subseteq Threads
    /\ Main \notin Workers /\ Flusher \notin Workers /\ Backend \notin Workers
    /\ Main # Flusher /\ Main # Backend /\ Flusher # Backend
    /\ Producers = Workers \cup {Main, Flusher} /\ Consumers = {Backend}
    /\ Workers = IoThreads \cup DbThreads /\ IoThreads \cap DbThreads = {}
BY LoggingAssumption, ThreadsAssumption, AppThreads DEF Threads

LEMMA TheMessages ==
    /\ NoItem # TerminateRequest /\ FlushRequest # TerminateRequest
    /\ FlushRequest \in Items /\ TerminateRequest \in Items
    /\ \A id \in 0 .. (MaxRecords + 1), err \in BOOLEAN : LogRecord(id, err) \in Items
    /\ \A id, err : LogRecord(id, err) # TerminateRequest
BY LoggingAssumption, ThreadsAssumption
DEF Messages, Records, LogRecord, FlushRequest, TerminateRequest

\* The steps of a call after it has begun.
GoesOn(t) ==
    \/ WaitForRoom(t) \/ Push(t) \/ NotifyConsumer(t)
    \/ WaitForItem(t) \/ Pop(t) \/ NotifyProducer(t)
    \/ SpuriousWakeUp(t)

\* They begin no call of another thread.
LEMMA IdleStaysIdle ==
    ASSUME QTypeOK, NEW t \in Threads, GoesOn(t), NEW u \in Threads, at[u] = "idle"
    PROVE  at'[u] = "idle"
<1> USE DEF QTypeOK
<1>1. CASE WaitForRoom(t) \/ Push(t) \/ WaitForItem(t) \/ Pop(t) \/ SpuriousWakeUp(t)
  BY <1>1 DEF WaitForRoom, Push, WaitForItem, Pop, SpuriousWakeUp
<1>2. ASSUME NEW others \in {Producers, Consumers}, NotifyOne(t, others) PROVE at'[u] = "idle"
  BY <1>2, TheThreads DEF NotifyOne
<1> QED
  BY <1>1, <1>2 DEF GoesOn, NotifyConsumer, NotifyProducer

\* They bring up no message but those that are there.
LEMMA GoesOnKeepsMessages ==
    ASSUME QTypeOK, NobodyTerminates, NEW t \in Threads, GoesOn(t)
    PROVE  NobodyTerminates'
<1> USE TheMessages DEF QTypeOK, NobodyTerminates
<1>1. CASE Push(t)
  <2>1. /\ q' = PushBack(q, item[t]) /\ item' = [item EXCEPT ![t] = NoItem]
    BY <1>1 DEF Push
  <2>2. q'.v = [q.v EXCEPT ![q.tail] = item[t]]
    BY <2>1 DEF PushBack
  <2>3. q.v \in [Indices -> Items \cup {NoItem}]
    BY DEF Rings
  <2> QED
    BY <2>1, <2>2, <2>3
<1>2. CASE Pop(t)
  <2>1. /\ q' = PopFront(q) /\ item' = [item EXCEPT ![t] = q.v[q.head]]
    BY <1>2 DEF Pop, Front
  <2>2. q'.v = [q.v EXCEPT ![q.head] = NoItem]
    BY <2>1 DEF PopFront
  <2>3. q.v \in [Indices -> Items \cup {NoItem}] /\ q.head \in Indices
    BY DEF Rings
  <2> QED
    BY <2>1, <2>2, <2>3
<1>3. CASE UNCHANGED <<q, item>>
  BY <1>3
<1> QED
  BY <1>1, <1>2, <1>3
  DEF GoesOn, WaitForRoom, WaitForItem, NotifyConsumer, NotifyProducer, NotifyOne, SpuriousWakeUp

LEMMA CallKeepsMessages ==
    ASSUME QTypeOK, NobodyTerminates, NEW t \in Threads, NEW x, x # TerminateRequest, Call(t, x)
    PROVE  NobodyTerminates'
BY DEF QTypeOK, NobodyTerminates, Call

-----------------------------------------------------------------------------
(* The process                                                              *)

\* A call goes on, and nothing else changes.
LEMMA GoesOnKeepsProcess ==
    ASSUME QTypeOK, ProcessInv, NEW t \in Threads, GoesOn(t),
           UNCHANGED <<started, registry, threadvars, main, appvars>>
    PROVE  ProcessInv'
<1> USE DEF registry, threadvars, appvars, ProcessInv
<1>1. \A u \in Threads : at[u] = "idle" => at'[u] = "idle"
  BY IdleStaysIdle
<1>2. WorkersInv'
  BY <1>1, TheThreads DEF WorkersInv
<1>3. RegistryInv' /\ NumberInv'
  BY DEF RegistryInv, NumberInv
<1>4. FlusherInv'
  BY <1>1, TheThreads DEF FlusherInv
<1>5. PoolInv'
  BY GoesOnKeepsMessages DEF PoolInv
<1> QED
  BY <1>2, <1>3, <1>4, <1>5

\* A thread that may log begins a call.
LEMMA CallKeepsProcess ==
    ASSUME QTypeOK, ProcessInv, NEW t \in Threads, NEW x, Call(t, x), x # TerminateRequest,
           \/ t \in live /\ main \notin Early
           \/ t = Flusher /\ flusher = "running"
           \/ t \in {Main, Backend},
           UNCHANGED <<registry, threadvars, appvars>>,
           \/ main' = main /\ (started' = started \/ main \notin Early)
           \/ main = "listen" /\ main' = "spawn"
           \/ main = "catch" /\ main' = "exit",
           started' \in Nat
    PROVE  ProcessInv'
<1> USE DEF registry, threadvars, appvars, ProcessInv
<1>1. \A u \in Threads : u # t => at'[u] = at[u]
  BY DEF QTypeOK, Call
<1>2. WorkersInv'
  BY <1>1, TheThreads DEF WorkersInv, Early, Ups
<1>3. RegistryInv' /\ NumberInv'
  BY DEF RegistryInv, NumberInv, Early, Ups
<1>4. FlusherInv'
  <2>1. t # Flusher \/ flusher = "running"
    BY TheThreads DEF WorkersInv
  <2> QED
    BY <1>1, <2>1, TheThreads DEF FlusherInv
<1>5. PoolInv'
  BY CallKeepsMessages DEF PoolInv
<1> QED
  BY <1>2, <1>3, <1>4, <1>5

\* A worker ends, and nothing else changes.
LEMMA WorkerEndsKeepsProcess ==
    ASSUME ProcessInv, NEW t \in Workers, WorkerEnds(t)
    PROVE  ProcessInv'
BY DEF ProcessInv, WorkersInv, RegistryInv, FlusherInv, PoolInv, NumberInv, NobodyTerminates,
       WorkerEnds, logvars

\* What main does without touching the logger.
LEMMA MainKeepsProcess ==
    ASSUME ProcessInv,
           InitDb \/ BuildServer \/ ConstructorThrows \/ SpawnThread \/ RunThrows
             \/ JoinThreads \/ StopDb \/ JoinDb \/ ResetServer
    PROVE  ProcessInv'
<1> USE DEF ProcessInv, Throws, From
<1>1. /\ UNCHANGED <<q, at, item, started, defaultLogger, mapped, tp, backend, flusher>>
      /\ main \in Early \cup Ups
  BY DEF InitDb, BuildServer, ConstructorThrows, SpawnThread, RunThrows, JoinThreads, StopDb,
         JoinDb, ResetServer, logvars, Early, Ups
<1>2. /\ main' \in Ups \cup {"catch", "stop_flusher"}
      /\ main' \in Ups => main \in Ups \cup {"init_db"}
      /\ main' \in Early => main \in Early
  BY DEF InitDb, BuildServer, ConstructorThrows, SpawnThread, RunThrows, JoinThreads, StopDb,
         JoinDb, ResetServer, Early, Ups
<1>3. RegistryInv' /\ FlusherInv' /\ PoolInv' /\ NumberInv'
  BY <1>1, <1>2 DEF RegistryInv, FlusherInv, PoolInv, NumberInv, NobodyTerminates, Early, Ups
<1>4. WorkersInv'
  <2> USE <1>1, TheThreads DEF WorkersInv, appvars, Early, Ups
  <2>1. CASE InitDb
    BY <2>1 DEF InitDb
  <2>2. CASE BuildServer \/ StopDb \/ JoinDb
    BY <2>2 DEF BuildServer, StopDb, JoinDb
  <2>3. CASE ConstructorThrows
    BY <2>3 DEF ConstructorThrows
  <2>4. CASE SpawnThread
    BY <2>4 DEF SpawnThread
  <2>5. CASE RunThrows \/ JoinThreads
    BY <2>5 DEF RunThrows, JoinThreads
  <2>6. CASE ResetServer
    BY <2>6 DEF ResetServer
  <2> QED
    BY <2>1, <2>2, <2>3, <2>4, <2>5, <2>6
<1> QED
  BY <1>3, <1>4

\* What main does to the registry, its threads and the queue.
LEMMA RegistryKeepsProcess ==
    ASSUME QTypeOK, ProcessInv,
           InitLogger \/ EndsFlusher \/ DropsLoggers \/ EndsPool \/ Exit
    PROVE  ProcessInv'
<1> USE DEF ProcessInv, From
<1>1. ASSUME UNCHANGED <<q, at, item, started, live, joinable>>, main' \notin Early \cup Ups,
             main \notin Ups
      PROVE  WorkersInv' /\ NumberInv' /\ RegistryInv'
  BY <1>1 DEF WorkersInv, NumberInv, RegistryInv, Early, Ups
<1>2. CASE InitLogger
  <2>1. CASE From("create_pool", "create_sink") /\ CreatePool /\ UNCHANGED appvars
    <3>1. Call(Backend, NoItem)
      BY <2>1 DEF CreatePool, DequeueNext
    <3>2. \A u \in Threads : u # Backend => at'[u] = at[u]
      BY <3>1 DEF QTypeOK, Call
    <3>3. NobodyTerminates'
      BY <2>1, <3>1, CallKeepsMessages, TheThreads, TheMessages DEF PoolInv
    <3> QED
      BY <2>1, <3>2, <3>3, TheThreads
      DEF CreatePool, WorkersInv, RegistryInv, FlusherInv, PoolInv, NumberInv, appvars, Early, Ups
  <2>2. CASE From("create_sink", "flush_every") /\ RegisterLogger /\ UNCHANGED appvars
    BY <2>2 DEF RegisterLogger, WorkersInv, RegistryInv, FlusherInv, PoolInv, NumberInv,
                NobodyTerminates, qvars, threadvars, appvars, Early, Ups
  <2>3. CASE From("flush_every", "set_default") /\ FlushEvery /\ UNCHANGED appvars
    BY <2>3 DEF FlushEvery, WorkersInv, RegistryInv, FlusherInv, PoolInv, NumberInv,
                NobodyTerminates, qvars, registry, appvars, Early, Ups
  <2>4. CASE From("set_default", "init_db") /\ SetDefaultLogger /\ UNCHANGED appvars
    BY <2>4 DEF SetDefaultLogger, WorkersInv, RegistryInv, FlusherInv, PoolInv, NumberInv,
                NobodyTerminates, qvars, threadvars, appvars, Early, Ups
  <2> QED
    BY <1>2, <2>1, <2>2, <2>3, <2>4 DEF InitLogger
<1>3. CASE EndsFlusher
  BY <1>1, <1>3 DEF EndsFlusher, StopFlusher, JoinFlusher, FlusherInv, PoolInv, NobodyTerminates,
                    logvars, qvars, registry, appvars, Early, Ups
<1>4. CASE DropsLoggers
  BY <1>1, <1>4 DEF DropsLoggers, DropAll, Drop, FlusherInv, PoolInv, NobodyTerminates,
                    qvars, threadvars, appvars, Early, Ups
<1>5. CASE EndsPool
  <2>1. CASE From("reset_pool", "join_pool") /\ ResetPool /\ UNCHANGED appvars
    <3>1. \A u \in Threads : u # Main => at'[u] = at[u]
      BY <2>1 DEF ResetPool, QTypeOK, Call
    <3> QED
      BY <2>1, <3>1, TheThreads
      DEF ResetPool, WorkersInv, RegistryInv, FlusherInv, PoolInv, NumberInv, threadvars, appvars,
          Early, Ups
  <2>2. CASE /\ From("join_pool", IF exiting THEN "drop_all" ELSE IF failed THEN "catch" ELSE "exit")
             /\ JoinPool
             /\ UNCHANGED appvars
    BY <1>1, <2>2 DEF JoinPool, FlusherInv, PoolInv, NobodyTerminates, logvars, appvars, Early, Ups
  <2> QED
    BY <1>5, <2>1, <2>2 DEF EndsPool
<1>6. CASE Exit
  BY <1>1, <1>6 DEF Exit, DropDefault, Drop, FlusherInv, PoolInv, NobodyTerminates,
                    qvars, threadvars, Early, Ups
<1> QED
  BY <1>2, <1>3, <1>4, <1>5, <1>6

LEMMA InitProcess == Init => QInv /\ ProcessInv
<1> SUFFICES ASSUME Init PROVE QInv /\ ProcessInv
  OBVIOUS
<1>1. QInv
  BY InitQInv DEF Init, LogInit
<1>2. WorkersInv /\ RegistryInv /\ FlusherInv /\ NumberInv
  BY TheThreads
  DEF Init, LogInit, QInit, WorkersInv, RegistryInv, FlusherInv, NumberInv, Early, Ups
<1>3. PoolInv
  BY TheMessages DEF Init, LogInit, QInit, EmptyRing, PoolInv, NobodyTerminates
<1> QED
  BY <1>1, <1>2, <1>3 DEF ProcessInv

\* Main reports a failure, posts its first record, or a call of its own goes on.
LEMMA CatchAndListenKeepProcess ==
    ASSUME QTypeOK, ProcessInv, Catch \/ Listen
    PROVE  ProcessInv'
<1>1. CASE Listen
  <2>1. Call(Main, LogRecord(started + 1, FALSE)) /\ started' = started + 1
    BY <1>1 DEF Listen, PostNext, Post
  <2>2. /\ UNCHANGED <<registry, threadvars, appvars>>
        /\ main = "listen" /\ main' = "spawn"
    BY <1>1 DEF Listen, PostNext, Post, From
  <2>3. started' \in Nat
    BY <2>1 DEF ProcessInv, NumberInv
  <2> QED
    BY <2>1, <2>2, <2>3, TheThreads, TheMessages, CallKeepsProcess
<1>2. ASSUME From("catch", "exit"), Post(Main, LogRecord(0, TRUE)), UNCHANGED <<started, appvars>>
      PROVE  ProcessInv'
  <2>1. /\ Call(Main, LogRecord(0, TRUE))
        /\ UNCHANGED <<registry, threadvars, appvars>>
        /\ main = "catch" /\ main' = "exit" /\ started' \in Nat
    BY <1>2 DEF Post, From, ProcessInv, NumberInv
  <2> QED
    BY <2>1, TheThreads, TheMessages, CallKeepsProcess
<1>3. ASSUME main = "catch", main' \in {"exit", "crashed"}, UNCHANGED <<logvars, live, joinable>>
      PROVE  ProcessInv'
  BY <1>3 DEF ProcessInv, WorkersInv, RegistryInv, FlusherInv, PoolInv, NobodyTerminates,
              NumberInv, logvars, Early, Ups
<1> QED
  BY <1>1, <1>2, <1>3 DEF Catch, From, appvars

\* Every step of the process is one of the queue, or leaves it alone.
LEMMA StepsOfQueue ==
    ASSUME ProcessInv, [Next]_vars
    PROVE  [QNext]_qvars
<1> USE TheThreads, TheMessages
<1>1. ASSUME UNCHANGED logvars PROVE [QNext]_qvars
  BY <1>1 DEF logvars, qvars
<1>2. ASSUME UNCHANGED qvars PROVE [QNext]_qvars
  BY <1>2
<1>3. ASSUME NEW p \in Producers, NEW x \in Items, Call(p, x) PROVE [QNext]_qvars
  BY <1>3 DEF QNext
<1>4. CASE MainStep
  <2>1. CASE InitLogger
    BY <1>2, <2>1 DEF InitLogger, CreatePool, RegisterLogger, FlushEvery, SetDefaultLogger, QNext
  <2>2. CASE \/ InitDb \/ BuildServer \/ ConstructorThrows \/ SpawnThread \/ RunThrows
             \/ JoinThreads \/ StopDb \/ JoinDb \/ ResetServer
    BY <1>1, <2>2 DEF InitDb, BuildServer, ConstructorThrows, SpawnThread, RunThrows, JoinThreads,
                      StopDb, JoinDb, ResetServer, Throws
  <2>3. CASE EndsFlusher \/ DropsLoggers \/ Exit
    BY <1>1, <1>2, <2>3 DEF EndsFlusher, StopFlusher, JoinFlusher, DropsLoggers, DropAll, Exit,
                            DropDefault, Drop
  <2>4. CASE EndsPool
    BY <1>1, <1>3, <2>4 DEF EndsPool, ResetPool, JoinPool
  <2>5. CASE Listen
    <3>1. started = 0
      BY <2>5 DEF Listen, From, ProcessInv, NumberInv, Early
    <3>2. started + 1 \in 0 .. (MaxRecords + 1)
      BY <3>1, LoggingAssumption
    <3>3. LogRecord(started + 1, FALSE) \in Items
      BY <3>2
    <3>4. Call(Main, LogRecord(started + 1, FALSE))
      BY <2>5 DEF Listen, PostNext, Post
    <3> QED
      BY <1>3, <3>3, <3>4
  <2>6. CASE Catch
    <3>1. 0 \in 0 .. (MaxRecords + 1)
      BY LoggingAssumption
    <3>2. LogRecord(0, TRUE) \in Items
      BY <3>1
    <3> QED
      BY <1>1, <1>3, <2>6, <3>2 DEF Catch, Post
  <2> QED
    BY <1>4, <2>1, <2>2, <2>3, <2>4, <2>5, <2>6 DEF MainStep
<1>5. CASE BackendStep
  BY <1>5 DEF BackendStep, ProcessNextMsg, BackendDequeues, QNext
<1>6. CASE FlusherStep
  BY <1>2, <1>3, <1>6 DEF FlusherStep, FlusherFires, FlusherEnds
<1>7. ASSUME NEW t \in Workers, WorkerLogs(t) PROVE [QNext]_qvars
  <2>1. PICK err \in BOOLEAN : Call(t, LogRecord(started + 1, err)) /\ started < MaxRecords
    BY <1>7 DEF WorkerLogs, PostNext, Post
  <2>2. LogRecord(started + 1, err) \in Items
    BY <2>1, LoggingAssumption DEF ProcessInv, NumberInv
  <2> QED
    BY <1>3, <2>1, <2>2
<1>8. ASSUME NEW t \in Workers, WorkerEnds(t) PROVE [QNext]_qvars
  BY <1>1, <1>8 DEF WorkerEnds
<1>9. ASSUME NEW t \in Producers, PostGoesOn(t) PROVE [QNext]_qvars
  BY <1>9 DEF PostGoesOn, PostPushes, PostWaitsOrReturns, QProducerStep, QNext
<1>10. ASSUME NEW t \in Threads, WakeUp(t) PROVE [QNext]_qvars
  BY <1>10 DEF WakeUp, QNext
<1>11. CASE UNCHANGED vars
  BY <1>1, <1>11 DEF vars
<1> QED
  BY <1>4, <1>5, <1>6, <1>7, <1>8, <1>9, <1>10, <1>11 DEF Next, Done

LEMMA NextKeepsProcess == QInv /\ ProcessInv /\ [Next]_vars => QInv' /\ ProcessInv'
<1> SUFFICES ASSUME QInv, ProcessInv, [Next]_vars PROVE QInv' /\ ProcessInv'
  OBVIOUS
<1>0. QTypeOK /\ QInv'
  BY StepsOfQueue, NextKeepsWakeUps DEF QInv
<1> USE TheThreads
<1>1. ASSUME MainStep PROVE ProcessInv'
  BY <1>0, <1>1, MainKeepsProcess, RegistryKeepsProcess, CatchAndListenKeepProcess DEF MainStep
<1>2. ASSUME BackendStep PROVE ProcessInv'
  <2>1. CASE BackendDequeues
    BY <1>0, <1>2, <2>1, GoesOnKeepsProcess
    DEF BackendStep, BackendDequeues, QConsumerStep, GoesOn
  <2>2. CASE ProcessNextMsg /\ item[Backend] # TerminateRequest
    <3>1. /\ Call(Backend, NoItem) /\ NoItem # TerminateRequest
          /\ UNCHANGED <<registry, threadvars, appvars, main, started>>
      BY <1>2, <2>2, TheMessages DEF BackendStep, ProcessNextMsg, DequeueNext, threadvars
    <3>2. started' \in Nat
      BY <3>1 DEF ProcessInv, NumberInv
    <3> QED
      BY <1>0, <3>1, <3>2, CallKeepsProcess
  <2>3. CASE ProcessNextMsg /\ item[Backend] = TerminateRequest
    <3>1. ~tp /\ main # "create_pool"
      BY <2>3 DEF ProcessInv, PoolInv, NobodyTerminates
    <3>2. UNCHANGED <<at, started, registry, flusher, active, main, appvars>>
      BY <1>2, <2>3 DEF BackendStep, ProcessNextMsg, Discard
    <3> QED
      BY <3>1, <3>2 DEF ProcessInv, WorkersInv, RegistryInv, FlusherInv, PoolInv, NumberInv,
                        registry, appvars
  <2> QED
    BY <1>2, <2>1, <2>2, <2>3 DEF BackendStep
<1>3. ASSUME FlusherStep PROVE ProcessInv'
  <2>1. CASE FlusherFires
    <3>1. /\ Call(Flusher, FlushRequest) /\ flusher = "running"
          /\ UNCHANGED <<registry, threadvars, appvars, main, started>>
      BY <1>3, <2>1 DEF FlusherStep, FlusherFires
    <3>2. started' \in Nat
      BY <3>1 DEF ProcessInv, NumberInv
    <3> QED
      BY <1>0, <3>1, <3>2, TheMessages, CallKeepsProcess
  <2>2. CASE FlusherEnds
    BY <1>3, <2>2 DEF FlusherStep, FlusherEnds, InFlushAll, ProcessInv, WorkersInv, RegistryInv,
                      FlusherInv, PoolInv, NobodyTerminates, NumberInv, qvars, registry, appvars
  <2> QED
    BY <1>3, <2>1, <2>2 DEF FlusherStep
<1>4. ASSUME NEW t \in Workers, WorkerLogs(t) PROVE ProcessInv'
  <2>1. PICK err \in BOOLEAN : /\ Call(t, LogRecord(started + 1, err))
                               /\ started' = started + 1
                               /\ UNCHANGED <<registry, threadvars, appvars, main>>
    BY <1>4 DEF WorkerLogs, PostNext, Post
  <2>2. t \in live /\ main \notin Early
    BY <1>4 DEF WorkerLogs, ProcessInv, WorkersInv
  <2>3. started' \in Nat
    BY <2>1 DEF ProcessInv, NumberInv
  <2> QED
    BY <1>0, <2>1, <2>2, <2>3, TheMessages, CallKeepsProcess
<1>5. ASSUME NEW t \in Producers, PostGoesOn(t) PROVE ProcessInv'
  BY <1>0, <1>5, GoesOnKeepsProcess DEF PostGoesOn, PostPushes, PostWaitsOrReturns, GoesOn
<1>6. ASSUME NEW t \in Threads, WakeUp(t) PROVE ProcessInv'
  BY <1>0, <1>6, GoesOnKeepsProcess DEF WakeUp, GoesOn
<1>7. ASSUME UNCHANGED vars PROVE ProcessInv'
  BY <1>7 DEF vars, logvars, ProcessInv, WorkersInv, RegistryInv, FlusherInv, PoolInv,
              NobodyTerminates, NumberInv
<1>8. ProcessInv'
  BY <1>1, <1>2, <1>3, <1>4, <1>5, <1>6, <1>7, WorkerEndsKeepsProcess DEF Next, Done
<1> QED
  BY <1>0, <1>8

-----------------------------------------------------------------------------
(* The queue as a sequence of messages                                      *)

LEMMA ContentsSeq ==
    ASSUME QTypeOK
    PROVE  /\ Contents(q) \in Seq(Items \cup {NoItem})
           /\ Len(Contents(q)) = Size(q) /\ Size(q) \in Nat
<1>1. Size(q) \in 0 .. MaxItems
  BY SizeOfRing DEF QTypeOK
<1>2. ASSUME NEW k \in 1 .. Size(q)
      PROVE  At(q, k - 1) \in Items \cup {NoItem}
  <2>1. q.head \in 0 .. MaxItems /\ q.v \in [0 .. MaxItems -> Items \cup {NoItem}]
    BY DEF QTypeOK, Rings, Indices
  <2> DEFINE n == q.head + (k - 1)
  <2>2. n \in Nat
    BY <1>1, <2>1
  <2> HIDE DEF n
  <2>3. n % Slots \in 0 .. MaxItems
    BY <2>2, MaxItemsAssumption DEF Slots
  <2> QED
    BY <2>1, <2>3 DEF At, n
<1> QED
  BY <1>1, <1>2 DEF Contents

LEMMA PushContents ==
    ASSUME QTypeOK, NEW t \in Threads, Push(t)
    PROVE  /\ Size(q) \in Nat /\ Size(q') = Size(q) + 1
           /\ \A i \in 1 .. Size(q) : Contents(q')[i] = Contents(q)[i]
           /\ Contents(q')[Size(q) + 1] = item[t]
<1>1. q \in Rings(Items \cup {NoItem}) /\ item[t] \in Items \cup {NoItem} /\ ~ IsFull(q)
  BY RingsWithNoItem DEF QTypeOK, Push
<1>2. Size(q') = Size(q) + 1 /\ Contents(q') = Append(Contents(q), item[t])
  BY <1>1, PushAppends DEF Push
<1> QED
  BY <1>1, <1>2, ContentsSeq

LEMMA PopContents ==
    ASSUME QTypeOK, NEW t \in Threads, Pop(t)
    PROVE  /\ Size(q) \in Nat /\ Size(q) >= 1 /\ Size(q') = Size(q) - 1
           /\ \A i \in 1 .. Size(q') : Contents(q')[i] = Contents(q)[i + 1]
           /\ item'[t] = Contents(q)[1]
           /\ \A u \in Threads : u # t => item'[u] = item[u] /\ at'[u] = at[u]
<1>1. q \in Rings(Items) /\ ~ IsEmpty(q) /\ q' = PopFront(q)
  BY DEF QTypeOK, Pop
<1>2. /\ Size(q') = Size(q) - 1 /\ Front(q) = Head(Contents(q))
      /\ Contents(q') = Tail(Contents(q))
  BY <1>1, PopTakesFirst
<1>3. Size(q) \in Nat /\ Size(q) # 0
  BY <1>1, SizeOfRing, MaxItemsAssumption
<1>4. item'[t] = Contents(q)[1]
  BY <1>2, <1>3, ContentsSeq DEF Pop, QTypeOK
<1>5. \A i \in 1 .. Size(q') : Contents(q')[i] = Contents(q)[i + 1]
  BY <1>2, <1>3, ContentsSeq
<1>6. \A u \in Threads : u # t => item'[u] = item[u] /\ at'[u] = at[u]
  BY DEF Pop, QTypeOK
<1>7. Size(q) >= 1
  BY <1>3
<1> QED
  BY <1>2, <1>3, <1>4, <1>5, <1>6, <1>7

\* A slot in use is a slot.
LEMMA NobodyMeansNoneQueued ==
    ASSUME QTypeOK, NobodyTerminates
    PROVE  NoneQueued
<1> SUFFICES ASSUME NEW k \in 1 .. Size(q) PROVE Contents(q)[k] # TerminateRequest
  BY DEF NoneQueued
<1>1. Size(q) \in 0 .. MaxItems /\ q.head \in 0 .. MaxItems
  BY SizeOfRing DEF QTypeOK, Rings, Indices
<1> DEFINE n == q.head + (k - 1)
<1>2. n \in Nat
  BY <1>1
<1>3. Contents(q)[k] = q.v[n % Slots]
  BY DEF Contents, At
<1> HIDE DEF n
<1>4. n % Slots \in Indices
  BY <1>2, MaxItemsAssumption DEF Slots, Indices
<1> QED
  BY <1>3, <1>4 DEF NobodyTerminates

\* The steps of a call that neither push nor pop leave a thread on its side of
\* the push, or of the pop.
Quiet(t) ==
    \/ WaitForRoom(t) \/ NotifyConsumer(t) \/ WaitForItem(t) \/ NotifyProducer(t)
    \/ SpuriousWakeUp(t)

LEMMA QuietSteps ==
    ASSUME QTypeOK, NEW t \in Threads, Quiet(t)
    PROVE  /\ UNCHANGED <<q, item>>
           /\ \A u \in Threads : /\ at'[u] \in {"lock", "waiting"} <=> at[u] \in {"lock", "waiting"}
                                 /\ at[u] = "idle" => at'[u] = "idle"
<1> USE DEF QTypeOK, Places
<1>1. CASE WaitForRoom(t) \/ WaitForItem(t) \/ SpuriousWakeUp(t)
  BY <1>1 DEF WaitForRoom, WaitForItem, SpuriousWakeUp
<1>2. ASSUME NEW others \in {Producers, Consumers}, NotifyOne(t, others)
      PROVE  /\ UNCHANGED <<q, item>>
             /\ \A u \in Threads : /\ at'[u] \in {"lock", "waiting"} <=> at[u] \in {"lock", "waiting"}
                                   /\ at[u] = "idle" => at'[u] = "idle"
  BY <1>2, TheThreads DEF NotifyOne
<1> QED
  BY <1>1, <1>2 DEF Quiet, NotifyConsumer, NotifyProducer

LEMMA QueueKeepsItems ==
    ASSUME QTypeOK, QTypeOK', ItemInv, [QNext]_qvars
    PROVE  ItemInv'
<1> USE TheThreads DEF QTypeOK, Places, ItemInv
<1>1. ASSUME NEW t \in Threads, Quiet(t) PROVE ItemInv'
  BY <1>1, QuietSteps
<1>2. ASSUME NEW p \in Producers, Push(p) PROVE ItemInv'
  BY <1>2 DEF Push
<1>3. ASSUME Pop(Backend) PROVE ItemInv'
  BY <1>3 DEF Pop
<1>4. ASSUME NEW p \in Producers, NEW x, Call(p, x) PROVE ItemInv'
  BY <1>4 DEF Call
<1>5. CASE DequeueNext(Backend) \/ Discard(Backend)
  BY <1>5 DEF DequeueNext, Call, Discard
<1>6. CASE UNCHANGED qvars
  BY <1>6 DEF qvars
<1> QED
  BY <1>1, <1>2, <1>3, <1>4, <1>5, <1>6 DEF QNext, QProducerStep, QConsumerStep, Quiet

-----------------------------------------------------------------------------
(* The order of the records                                                 *)

LEMMA TheRecords ==
    /\ NoItem \notin Records /\ FlushRequest \notin Records /\ TerminateRequest \notin Records
    /\ Records \subseteq Items /\ Items = Records \cup {FlushRequest, TerminateRequest}
<1>1. \A r \in Records : r.type = "log"
  BY DEF Records, LogRecord
<1>2. FlushRequest.type = "flush" /\ TerminateRequest.type = "terminate"
  BY DEF FlushRequest, TerminateRequest
<1>3. Items = Records \cup {FlushRequest, TerminateRequest} /\ NoItem \notin Items
  BY LoggingAssumption, ThreadsAssumption DEF Messages
<1> QED
  BY <1>1, <1>2, <1>3

\* Nothing that OrderInv speaks of changes.
LEMMA OthersKeepOrder ==
    ASSUME OrderInv, UNCHANGED <<q, accepted, file>>, item'[Backend] = item[Backend]
    PROVE  OrderInv'
BY DEF OrderInv, Numbers, Weight

\* A record pushed is the last accepted, a request pushed counts for nothing.
LEMMA PushKeepsOrder ==
    ASSUME QTypeOK, FileInv, OrderInv, NEW t \in Producers, PostPushes(t)
    PROVE  OrderInv'
<1> DEFINE n == Size(q)
           C == Contents(q)
           D == Contents(q')
<1>1. Push(t) /\ t \in Threads /\ t # Backend /\ file' = file
  BY TheThreads, FiniteSides DEF PostPushes
<1>2. /\ n \in Nat /\ Size(q') = n + 1
      /\ \A i \in 1 .. n : D[i] = C[i]
      /\ D[n + 1] = item[t]
  BY <1>1, PushContents
<1>3. item'[Backend] = item[Backend]
  BY <1>1, TheThreads DEF Push, QTypeOK
<1>4. /\ Len(accepted) \in Nat /\ Len(file) \in Nat
      /\ Len(accepted') = Len(accepted) + Weight(item[t])
      /\ \A i \in 1 .. Len(accepted) : accepted'[i] = accepted[i]
      /\ item[t] \in Records => accepted'[Len(accepted')] = item[t]
  BY DEF FileInv, PostPushes, Weight
<1>5. PICK upto \in [0 .. n -> 0 .. Len(accepted)] :
        /\ upto[0] = Len(file) + Weight(item[Backend])
        /\ \A i \in 1 .. n : /\ upto[i] = upto[i - 1] + Weight(C[i])
                             /\ C[i] \in Records => accepted[upto[i]] = C[i]
        /\ upto[n] = Len(accepted)
  BY DEF OrderInv, Numbers
<1> HIDE DEF n, C, D
<1> DEFINE f == [i \in 0 .. (n + 1) |-> IF i = n + 1 THEN Len(accepted') ELSE upto[i]]
<1>6. f \in [0 .. (n + 1) -> 0 .. Len(accepted')]
  BY <1>2, <1>4, <1>5 DEF Weight
<1>7. \A i \in 0 .. n : f[i] = upto[i]
  BY <1>2
<1>8. f[0] = Len(file') + Weight(item'[Backend])
  BY <1>1, <1>2, <1>3, <1>5, <1>7
<1>9. f[n + 1] = Len(accepted')
  BY <1>2
<1> HIDE DEF f
<1>10. ASSUME NEW i \in 1 .. (n + 1)
       PROVE  /\ f[i] = f[i - 1] + Weight(D[i])
              /\ D[i] \in Records => accepted'[f[i]] = D[i]
  <2>1. CASE i = n + 1
    BY <1>2, <1>4, <1>5, <1>7, <1>9, <2>1
  <2>2. CASE i # n + 1
    <3>1. i \in 1 .. n /\ i - 1 \in 0 .. n /\ i \in 0 .. n
      BY <1>2, <2>2
    <3>2. upto[i] \in 0 .. Len(accepted) /\ upto[i - 1] \in 0 .. Len(accepted)
      BY <1>5, <3>1
    <3>3. D[i] = C[i] /\ f[i] = upto[i] /\ f[i - 1] = upto[i - 1]
      BY <1>2, <1>7, <3>1
    <3>4. C[i] \in Records => upto[i] \in 1 .. Len(accepted)
      BY <1>4, <1>5, <3>1, <3>2 DEF Weight
    <3> QED
      BY <1>4, <1>5, <3>1, <3>3, <3>4
  <2> QED
    BY <2>1, <2>2
<1>11. \E g \in [0 .. Size(q') -> 0 .. Len(accepted')] : Numbers(g)'
  <2>1. PICK g \in [0 .. Size(q') -> 0 .. Len(accepted')] : g = f
    BY <1>2, <1>6
  <2>2. /\ g[0] = Len(file') + Weight(item'[Backend])
        /\ g[Size(q')] = Len(accepted')
        /\ \A i \in 1 .. Size(q') : /\ g[i] = g[i - 1] + Weight(Contents(q')[i])
                                    /\ Contents(q')[i] \in Records => accepted'[g[i]] = Contents(q')[i]
    BY <1>2, <1>8, <1>9, <1>10, <2>1 DEF D
  <2>3. Numbers(g)'
    BY <2>2 DEF Numbers
  <2> QED
    BY <2>3
<1>12. Len(file) + Weight(item[Backend]) \in 0 .. Len(accepted)
  BY <1>2, <1>5
<1>13. item'[Backend] \in Records => accepted'[Len(file') + 1] = item'[Backend]
  BY <1>1, <1>3, <1>4, <1>12 DEF OrderInv, Weight
<1>14. \A i \in 1 .. Len(file') : file'[i] = accepted'[i]
  BY <1>1, <1>4, <1>12 DEF OrderInv, Weight
<1> QED
  BY <1>11, <1>13, <1>14 DEF OrderInv

\* The message popped is now the backend's.
LEMMA PopKeepsOrder ==
    ASSUME QTypeOK, ItemInv, FileInv, OrderInv, Pop(Backend), UNCHANGED <<accepted, file>>
    PROVE  OrderInv'
<1> DEFINE n == Size(q)
           C == Contents(q)
           D == Contents(q')
<1>1. /\ n \in Nat /\ n >= 1 /\ Size(q') = n - 1
      /\ \A i \in 1 .. (n - 1) : D[i] = C[i + 1]
      /\ item'[Backend] = C[1]
  BY PopContents, TheThreads
<1>2. item[Backend] \notin Records
  BY TheRecords DEF ItemInv, Pop
<1>3. Len(accepted) \in Nat /\ Len(file) \in Nat
  BY DEF FileInv
<1>4. PICK upto \in [0 .. n -> 0 .. Len(accepted)] :
        /\ upto[0] = Len(file) + Weight(item[Backend])
        /\ \A i \in 1 .. n : /\ upto[i] = upto[i - 1] + Weight(C[i])
                             /\ C[i] \in Records => accepted[upto[i]] = C[i]
        /\ upto[n] = Len(accepted)
  BY DEF OrderInv, Numbers
<1> HIDE DEF n, C, D
<1> DEFINE f == [i \in 0 .. (n - 1) |-> upto[i + 1]]
<1>5. f \in [0 .. (n - 1) -> 0 .. Len(accepted)]
  BY <1>1, <1>4
<1>6. \A i \in 0 .. (n - 1) : f[i] = upto[i + 1]
  OBVIOUS
<1> HIDE DEF f
<1>7. upto[1] = Len(file) + Weight(C[1]) /\ (C[1] \in Records => accepted[Len(file) + 1] = C[1])
  <2>1. upto[0] = Len(file)
    BY <1>2, <1>3, <1>4 DEF Weight
  <2> QED
    BY <1>1, <1>3, <1>4, <2>1 DEF Weight
<1>8. f[0] = Len(file') + Weight(item'[Backend])
  BY <1>1, <1>6, <1>7
<1>9. f[n - 1] = Len(accepted')
  BY <1>1, <1>4, <1>6
<1>10. ASSUME NEW i \in 1 .. (n - 1)
       PROVE  /\ f[i] = f[i - 1] + Weight(D[i])
              /\ D[i] \in Records => accepted[f[i]] = D[i]
  <2>1. i + 1 \in 1 .. n /\ i \in 0 .. (n - 1) /\ i - 1 \in 0 .. (n - 1) /\ (i - 1) + 1 = i
    BY <1>1
  <2>2. upto[i + 1] = upto[i] + Weight(C[i + 1]) /\ (C[i + 1] \in Records => accepted[upto[i + 1]] = C[i + 1])
    BY <1>4, <2>1
  <2>3. D[i] = C[i + 1] /\ f[i] = upto[i + 1] /\ f[i - 1] = upto[i]
    BY <1>1, <1>6, <2>1
  <2> QED
    BY <2>2, <2>3
<1>11. \E g \in [0 .. Size(q') -> 0 .. Len(accepted')] : Numbers(g)'
  <2>1. PICK g \in [0 .. Size(q') -> 0 .. Len(accepted')] : g = f
    BY <1>1, <1>5
  <2>2. /\ g[0] = Len(file') + Weight(item'[Backend])
        /\ g[Size(q')] = Len(accepted')
        /\ \A i \in 1 .. Size(q') : /\ g[i] = g[i - 1] + Weight(Contents(q')[i])
                                    /\ Contents(q')[i] \in Records => accepted'[g[i]] = Contents(q')[i]
    BY <1>1, <1>8, <1>9, <1>10, <2>1 DEF D
  <2>3. Numbers(g)'
    BY <2>2 DEF Numbers, Weight
  <2> QED
    BY <2>3
<1>12. item'[Backend] \in Records => accepted'[Len(file') + 1] = item'[Backend]
  BY <1>1, <1>7
<1>13. \A i \in 1 .. Len(file') : file'[i] = accepted'[i]
  BY DEF OrderInv
<1> QED
  BY <1>11, <1>12, <1>13 DEF OrderInv

\* The backend has done with its message: a record is written, the next of
\* those accepted; a request leaves the file as it is.
LEMMA ProcessKeepsOrder ==
    ASSUME QTypeOK, FileInv, OrderInv, ProcessNextMsg
    PROVE  FileInv' /\ OrderInv' /\ durable <= durable'
<1> DEFINE m == item[Backend]
<1>1. m \in Records \cup {FlushRequest, TerminateRequest} /\ q' = q /\ accepted' = accepted
      /\ item'[Backend] = NoItem
  BY TheRecords, TheThreads DEF QTypeOK, ProcessNextMsg, DequeueNext, Call, Discard
<1>2. Len(file) \in Nat /\ Len(accepted) \in Nat /\ durable \in 0 .. Len(file)
  BY DEF FileInv
<1>3. PICK upto \in [0 .. Size(q) -> 0 .. Len(accepted)] : Numbers(upto)
  BY DEF OrderInv
<1>4. CASE m \in Records
  <2>1. /\ file' = Append(file, m)
        /\ durable' \in {Len(file')} \cup (durable .. Len(file'))
    <3>1. BackendWrites(m)
      BY <1>4, TheRecords DEF ProcessNextMsg
    <3> QED
      BY <3>1 DEF BackendWrites
  <2>2. file' \in Seq(Records) /\ Len(file') = Len(file) + 1 /\ file'[Len(file) + 1] = m
        /\ \A i \in 1 .. Len(file) : file'[i] = file[i]
    BY <1>4, <2>1 DEF FileInv
  <2>3. FileInv' /\ durable <= durable'
    BY <1>1, <1>2, <2>1, <2>2 DEF FileInv
  <2>4. Numbers(upto)'
    <3>1. upto[0] = Len(file) + 1
      BY <1>3, <1>4 DEF Numbers, Weight
    <3>2. Weight(item'[Backend]) = 0
      BY <1>1, TheRecords DEF Weight
    <3>3. upto[0] = Len(file') + Weight(item'[Backend])
      BY <1>2, <2>2, <3>1, <3>2
    <3> QED
      BY <1>1, <1>3, <3>3 DEF Numbers
  <2>5. \A i \in 1 .. Len(file') : file'[i] = accepted'[i]
    <3>1. accepted[Len(file) + 1] = m
      BY <1>4 DEF OrderInv
    <3> QED
      BY <1>1, <1>2, <2>2, <3>1 DEF OrderInv
  <2>6. OrderInv'
    BY <1>1, <2>4, <2>5, TheRecords DEF OrderInv
  <2> QED
    BY <2>3, <2>6
<1>5. CASE m \in {FlushRequest, TerminateRequest}
  <2>1. file' = file /\ durable' \in {durable, Len(file)}
    BY <1>5 DEF ProcessNextMsg, BackendFlushes
  <2>2. FileInv' /\ durable <= durable'
    BY <1>1, <1>2, <2>1 DEF FileInv
  <2>3. Numbers(upto)'
    <3>1. Weight(item'[Backend]) = 0 /\ Weight(item[Backend]) = 0
      BY <1>1, <1>5, TheRecords DEF Weight
    <3> QED
      BY <1>1, <1>3, <2>1, <3>1 DEF Numbers
  <2>4. OrderInv'
    BY <1>1, <2>1, <2>3, TheRecords DEF OrderInv
  <2> QED
    BY <2>2, <2>4
<1> QED
  BY <1>1, <1>4, <1>5

\* A step of the process, as the log sees it.
LogUnseen ==
    /\ UNCHANGED <<q, accepted, file>>
    /\ item'[Backend] = item[Backend]
    /\ durable' \in {durable, Len(file)}

LEMMA StepsOfLog ==
    ASSUME QTypeOK, ProcessInv, EndInv, [Next]_vars
    PROVE  \/ LogUnseen
           \/ /\ main \notin Ended /\ UNCHANGED main
              /\ \E t \in Producers : PostPushes(t)
           \/ Pop(Backend) /\ UNCHANGED <<filevars, main>>
           \/ ProcessNextMsg /\ UNCHANGED main
<1> USE TheThreads DEF filevars
<1>1. ASSUME UNCHANGED <<q, item, filevars>> PROVE LogUnseen
  BY <1>1 DEF LogUnseen
<1>2. ASSUME NEW p \in Producers, NEW x, Call(p, x), UNCHANGED filevars PROVE LogUnseen
  BY <1>2, FiniteSides DEF LogUnseen, Call, QTypeOK
<1>3. CASE MainStep
  <2>1. CASE InitLogger
    <3>1. CASE From("create_pool", "create_sink") /\ CreatePool
      <4>1. item[Backend] = NoItem
        BY <3>1 DEF From, EndInv
      <4>2. Call(Backend, NoItem) /\ UNCHANGED filevars
        BY <3>1 DEF CreatePool, DequeueNext
      <4> QED
        BY <4>1, <4>2 DEF LogUnseen, Call, QTypeOK
    <3>2. CASE RegisterLogger \/ FlushEvery \/ SetDefaultLogger
      BY <1>1, <3>2 DEF RegisterLogger, FlushEvery, SetDefaultLogger, qvars
    <3> QED
      BY <2>1, <3>1, <3>2 DEF InitLogger
  <2>2. CASE \/ InitDb \/ BuildServer \/ ConstructorThrows \/ SpawnThread \/ RunThrows
             \/ JoinThreads \/ StopDb \/ JoinDb \/ ResetServer
    BY <1>1, <2>2 DEF InitDb, BuildServer, ConstructorThrows, SpawnThread, RunThrows, JoinThreads,
                      StopDb, JoinDb, ResetServer, Throws, logvars
  <2>3. CASE EndsFlusher
    BY <1>1, <2>3 DEF EndsFlusher, StopFlusher, JoinFlusher, logvars, qvars
  <2>4. CASE DropsLoggers \/ Exit
    BY <2>4 DEF DropsLoggers, DropAll, Exit, DropDefault, Drop, LogUnseen, qvars
  <2>5. CASE EndsPool
    BY <1>1, <1>2, <2>5 DEF EndsPool, ResetPool, JoinPool, logvars
  <2>6. CASE Listen
    BY <1>2, <2>6 DEF Listen, PostNext, Post
  <2>7. CASE Catch
    BY <1>1, <1>2, <2>7 DEF Catch, Post, logvars
  <2> QED
    BY <1>3, <2>1, <2>2, <2>3, <2>4, <2>5, <2>6, <2>7 DEF MainStep
<1>4. CASE BackendStep /\ ProcessNextMsg
  BY <1>4 DEF BackendStep
<1>5. CASE BackendStep /\ BackendDequeues
  <2>1. CASE Pop(Backend)
    BY <1>5, <2>1 DEF BackendStep, BackendDequeues
  <2>2. CASE WaitForItem(Backend) \/ NotifyProducer(Backend)
    BY <1>1, <1>5, <2>2 DEF BackendDequeues, WaitForItem, NotifyProducer, NotifyOne
  <2> QED
    BY <1>5, <2>1, <2>2 DEF BackendDequeues, QConsumerStep
<1>6. CASE FlusherStep
  BY <1>1, <1>2, <1>6 DEF FlusherStep, FlusherFires, FlusherEnds, qvars
<1>7. ASSUME NEW t \in Workers, WorkerLogs(t) \/ WorkerEnds(t) PROVE LogUnseen
  BY <1>1, <1>2, <1>7 DEF WorkerLogs, PostNext, Post, WorkerEnds, logvars
<1>8. ASSUME NEW t \in Producers, PostWaitsOrReturns(t) PROVE LogUnseen
  BY <1>1, <1>8 DEF PostWaitsOrReturns, WaitForRoom, NotifyConsumer, NotifyOne
<1>9. ASSUME NEW t \in Threads, WakeUp(t) PROVE LogUnseen
  BY <1>1, <1>9 DEF WakeUp, SpuriousWakeUp
<1>10. CASE UNCHANGED vars
  BY <1>1, <1>10 DEF vars, logvars
<1> QED
  BY <1>3, <1>4, <1>5, <1>6, <1>7, <1>8, <1>9, <1>10 DEF Next, Done, BackendStep, PostGoesOn

LEMMA NextKeepsOrder ==
    ASSUME QTypeOK, ProcessInv, LogInv, [Next]_vars
    PROVE  FileInv' /\ OrderInv'
<1> USE DEF LogInv
<1>1. CASE LogUnseen
  <2>1. OrderInv'
    BY <1>1, OthersKeepOrder DEF LogUnseen
  <2> QED
    BY <1>1, <2>1 DEF LogUnseen, FileInv
<1>2. ASSUME NEW t \in Producers, PostPushes(t) PROVE FileInv' /\ OrderInv'
  BY <1>2, PushKeepsOrder DEF FileInv, PostPushes
<1>3. CASE Pop(Backend) /\ UNCHANGED filevars
  <2>1. OrderInv'
    BY <1>3, PopKeepsOrder DEF filevars
  <2> QED
    BY <1>3, <2>1 DEF FileInv, filevars
<1>4. CASE ProcessNextMsg
  BY <1>4, ProcessKeepsOrder
<1> QED
  BY <1>1, <1>2, <1>3, <1>4, StepsOfLog

-----------------------------------------------------------------------------
(* The end of the pool                                                      *)

LEMMA NextKeepsPoolAt ==
    ASSUME ProcessInv, PoolAtInv, EndInv, [Next]_vars
    PROVE  PoolAtInv'
<1> USE DEF PoolAtInv
<1>1. CASE UNCHANGED <<main, tp, backend, exiting>>
  BY <1>1
<1>2. CASE InitLogger
  BY <1>2 DEF InitLogger, CreatePool, RegisterLogger, FlushEvery, SetDefaultLogger, From,
              registry, threadvars, appvars
<1>3. CASE \/ InitDb \/ BuildServer \/ ConstructorThrows \/ SpawnThread \/ RunThrows
           \/ JoinThreads \/ StopDb \/ JoinDb
  BY <1>3 DEF InitDb, BuildServer, ConstructorThrows, SpawnThread, RunThrows, JoinThreads,
              StopDb, JoinDb, Throws, From, logvars, appvars
<1>4. CASE ResetServer
  BY <1>4 DEF ResetServer, From, logvars, appvars, ProcessInv, RegistryInv, Ups
<1>5. CASE Listen \/ Catch
  BY <1>5 DEF Listen, Catch, PostNext, Post, From, registry, threadvars, logvars, appvars
<1>6. CASE EndsFlusher \/ DropsLoggers
  BY <1>6 DEF EndsFlusher, StopFlusher, JoinFlusher, DropsLoggers, DropAll, Drop, From, registry,
              threadvars, logvars, appvars
<1>7. CASE EndsPool
  BY <1>7 DEF EndsPool, ResetPool, JoinPool, From, threadvars, logvars, appvars
<1>8. CASE Exit
  BY <1>8 DEF Exit, DropDefault, Drop, From, threadvars, ProcessInv, FlusherInv
<1>9. CASE BackendStep
  BY <1>9 DEF BackendStep, ProcessNextMsg, BackendDequeues, registry, threadvars, appvars
<1>10. CASE \/ FlusherStep \/ UNCHANGED vars
            \/ \E t \in Workers : WorkerLogs(t) \/ WorkerEnds(t)
            \/ \E t \in Producers : PostGoesOn(t)
            \/ \E t \in Threads : WakeUp(t)
  BY <1>1, <1>10
  DEF FlusherStep, FlusherFires, FlusherEnds, WorkerLogs, PostNext, Post, WorkerEnds, PostGoesOn,
      PostPushes, PostWaitsOrReturns, WakeUp, registry, threadvars, logvars, appvars, vars
<1> QED
  BY <1>2, <1>3, <1>4, <1>5, <1>6, <1>7, <1>8, <1>9, <1>10 DEF Next, MainStep, Done

\* Without the pool only main may be in a call.
LEMMA OnlyMainCalls ==
    ASSUME ProcessInv, ~ tp, NEW t \in Producers, at[t] # "idle"
    PROVE  t = Main
BY TheThreads DEF ProcessInv, WorkersInv, RegistryInv, FlusherInv

LEMMA PushKeepsEnd ==
    ASSUME QTypeOK, ProcessInv, LogInv, NEW t \in Producers, PostPushes(t), UNCHANGED main
    PROVE  EndInv'
<1> USE DEF LogInv
<1>0. UNCHANGED <<tp, backend>> /\ Push(t) /\ t \in Threads
  BY TheThreads DEF PostPushes, registry, threadvars
<1>1. CASE tp
  BY <1>0, <1>1 DEF EndInv, ProcessInv, PoolInv
<1>2. CASE ~ tp
  <2>1. t = Main /\ at[Main] = "lock"
    BY <1>0, <1>2, OnlyMainCalls DEF Push
  <2>2. backend = "running" /\ Terminating
    BY <1>2, <2>1 DEF EndInv
  <2>3. item[Main] = TerminateRequest /\ NoneQueued /\ item[Backend] # TerminateRequest
    BY <2>1, <2>2 DEF Terminating
  <2>4. /\ Size(q) \in Nat /\ Size(q') = Size(q) + 1
        /\ \A i \in 1 .. Size(q) : Contents(q')[i] = Contents(q)[i]
        /\ Contents(q')[Size(q) + 1] = TerminateRequest
    BY <1>0, <2>1, <2>3, PushContents
  <2>5. at'[Main] = "notify" /\ item'[Backend] = item[Backend]
    BY <1>0, <2>1, TheThreads DEF Push, QTypeOK
  <2>6. Size(q') > 0 /\ Size(q') - 1 = Size(q)
    BY <2>4
  <2>7. /\ Contents(q')[Size(q')] = TerminateRequest
        /\ \A i \in 1 .. (Size(q') - 1) : Contents(q')[i] # TerminateRequest
    BY <2>3, <2>4, <2>6 DEF NoneQueued
  <2>8. Terminating'
    BY <2>3, <2>5, <2>6, <2>7 DEF Terminating
  <2> QED
    BY <1>0, <2>2, <2>8 DEF EndInv
<1> QED
  BY <1>1, <1>2

LEMMA PopKeepsEnd ==
    ASSUME QTypeOK, ProcessInv, LogInv, Pop(Backend), UNCHANGED <<main, tp, backend>>
    PROVE  EndInv'
<1> USE DEF LogInv
<1>1. CASE tp
  BY <1>1 DEF EndInv, ProcessInv, PoolInv
<1>2. CASE ~ tp
  <2>1. /\ Size(q) \in Nat /\ Size(q) >= 1 /\ Size(q') = Size(q) - 1
        /\ \A i \in 1 .. Size(q') : Contents(q')[i] = Contents(q)[i + 1]
        /\ item'[Backend] = Contents(q)[1]
        /\ item'[Main] = item[Main] /\ at'[Main] = at[Main]
    BY PopContents, TheThreads
  <2>2. backend = "running" /\ Terminating
    BY <1>2, <2>1 DEF EndInv
  <2>3. \A i \in 1 .. Size(q') : i + 1 \in 1 .. Size(q)
    BY <2>1
  <2>4. CASE /\ at[Main] \in {"lock", "waiting"} /\ item[Main] = TerminateRequest
             /\ NoneQueued
    <3>1. NoneQueued' /\ item'[Backend] # TerminateRequest
      BY <2>1, <2>3, <2>4 DEF NoneQueued
    <3> QED
      BY <2>1, <2>2, <2>4, <3>1 DEF EndInv, Terminating
  <2>5. CASE /\ at[Main] \in {"idle", "notify"}
             /\ Contents(q)[Size(q)] = TerminateRequest
             /\ \A i \in 1 .. (Size(q) - 1) : Contents(q)[i] # TerminateRequest
    <3>1. CASE Size(q) = 1
      <4>1. item'[Backend] = TerminateRequest /\ Size(q') = 0
        BY <2>1, <2>5, <3>1
      <4> QED
        BY <2>1, <2>2, <2>5, <4>1 DEF EndInv, Terminating
    <3>2. CASE Size(q) # 1
      <4>1. 1 \in 1 .. (Size(q) - 1) /\ Size(q') > 0 /\ Size(q') \in 1 .. Size(q') /\ Size(q') + 1 = Size(q)
        BY <2>1, <3>2
      <4>2. item'[Backend] # TerminateRequest
        BY <2>1, <2>5, <4>1
      <4>3. Contents(q')[Size(q')] = TerminateRequest
        BY <2>1, <2>5, <4>1
      <4>4. \A i \in 1 .. (Size(q') - 1) : i \in 1 .. Size(q') /\ i + 1 \in 1 .. (Size(q) - 1)
        BY <2>1
      <4>5. \A i \in 1 .. (Size(q') - 1) : Contents(q')[i] # TerminateRequest
        BY <2>1, <2>5, <4>4
      <4>6. Terminating'
        BY <2>1, <2>5, <4>1, <4>2, <4>3, <4>5 DEF Terminating
      <4> QED
        BY <2>2, <4>6 DEF EndInv
    <3> QED
      BY <3>1, <3>2
  <2> QED
    BY <2>1, <2>2, <2>4, <2>5 DEF Terminating
<1> QED
  BY <1>1, <1>2

LEMMA ProcessKeepsEnd ==
    ASSUME QTypeOK, ProcessInv, LogInv, ProcessNextMsg, UNCHANGED main
    PROVE  EndInv'
<1> USE DEF LogInv
<1>1. /\ q' = q /\ tp' = tp /\ item'[Backend] = NoItem /\ item'[Main] = item[Main]
      /\ at'[Main] = at[Main] /\ item[Backend] # NoItem
  BY TheThreads DEF QTypeOK, ProcessNextMsg, DequeueNext, Call, Discard, registry
<1>2. backend = "running"
  BY <1>1 DEF EndInv
<1>3. CASE item[Backend] # TerminateRequest
  <2>1. backend' = backend
    BY <1>3 DEF ProcessNextMsg
  <2>2. Terminating => Terminating'
    BY <1>1, <1>3, TheMessages DEF Terminating, NoneQueued
  <2> QED
    BY <1>1, <1>2, <2>1, <2>2 DEF EndInv
<1>4. CASE item[Backend] = TerminateRequest
  <2>1. backend' = "ended"
    BY <1>4 DEF ProcessNextMsg
  <2>2. ~ tp
    BY <1>4, TheThreads DEF ProcessInv, PoolInv, NobodyTerminates
  <2>3. Size(q) = 0 /\ at[Main] \in {"idle", "notify"}
    BY <1>2, <1>4, <2>2 DEF EndInv, Terminating
  <2>4. main # "create_pool"
    BY <1>2 DEF EndInv
  <2> QED
    BY <1>1, <2>1, <2>2, <2>3, <2>4 DEF EndInv
<1> QED
  BY <1>3, <1>4

LEMMA NextKeepsEnd ==
    ASSUME QTypeOK, ProcessInv, LogInv, [Next]_vars
    PROVE  EndInv'
<1> USE TheThreads DEF LogInv
<1>1. ASSUME UNCHANGED <<q, item, tp, backend, at>>, main' # "create_pool" \/ UNCHANGED main
      PROVE  EndInv'
  BY <1>1 DEF EndInv, Terminating, NoneQueued
<1>2. ASSUME tp', backend' = "running", main' # "create_pool" PROVE EndInv'
  BY <1>2 DEF EndInv
<1>3. tp => backend = "running" /\ main # "create_pool"
  BY DEF ProcessInv, PoolInv, EndInv
<1>4. ASSUME NEW t \in Threads, Quiet(t), UNCHANGED <<tp, backend, main>> PROVE EndInv'
  <2>1. /\ UNCHANGED <<q, item>>
        /\ at[Main] \in Places /\ at'[Main] \in Places
        /\ at'[Main] \in {"lock", "waiting"} <=> at[Main] \in {"lock", "waiting"}
        /\ at[Main] = "idle" => at'[Main] = "idle"
    <3>1. [QNext]_qvars
      BY StepsOfQueue
    <3>2. QTypeOK'
      BY <3>1, NextKeepsTypes
    <3> QED
      BY <1>4, <3>2, QuietSteps DEF QTypeOK
  <2>2. at'[Main] \in {"idle", "notify"} <=> at[Main] \in {"idle", "notify"}
    BY <2>1 DEF Places
  <2> QED
    BY <1>4, <2>1, <2>2 DEF EndInv, Terminating, NoneQueued
<1>5. CASE MainStep
  <2>1. CASE InitLogger
    BY <1>1, <1>2, <2>1 DEF InitLogger, From, CreatePool, RegisterLogger, FlushEvery,
                            SetDefaultLogger, qvars, registry, threadvars
  <2>2. CASE \/ InitDb \/ BuildServer \/ ConstructorThrows \/ SpawnThread \/ RunThrows
             \/ JoinThreads \/ StopDb \/ JoinDb \/ ResetServer
    BY <1>1, <2>2 DEF InitDb, BuildServer, ConstructorThrows, SpawnThread, RunThrows, JoinThreads,
                      StopDb, JoinDb, ResetServer, Throws, From, logvars
  <2>3. CASE EndsFlusher \/ DropsLoggers \/ Exit
    BY <1>1, <2>3 DEF EndsFlusher, StopFlusher, JoinFlusher, DropsLoggers, DropAll, Exit,
                      DropDefault, Drop, From, qvars, registry, threadvars, logvars
  <2>4. CASE Listen \/ (Catch /\ tp)
    BY <1>1, <1>2, <1>3, <2>4 DEF Listen, Catch, PostNext, Post, From, registry, threadvars, logvars
  <2>5. CASE Catch /\ ~ tp
    BY <1>1, <2>5 DEF Catch, Post, From, logvars
  <2>6. CASE From("reset_pool", "join_pool") /\ ResetPool
    <3>1. tp /\ backend = "running" /\ UNCHANGED <<q, backend>> /\ main' = "join_pool"
      BY <1>3, <2>6 DEF From, ResetPool, PoolAtInv, Call, threadvars
    <3>2. NobodyTerminates
      BY <3>1 DEF ProcessInv, PoolInv
    <3>3. at'[Main] = "lock" /\ item'[Main] = TerminateRequest /\ item'[Backend] = item[Backend]
      BY <2>6 DEF ResetPool, Call, QTypeOK
    <3>4. NoneQueued /\ item[Backend] # TerminateRequest
      BY <3>2, NobodyMeansNoneQueued DEF NobodyTerminates
    <3>5. Terminating'
      BY <3>1, <3>3, <3>4 DEF Terminating, NoneQueued
    <3> QED
      BY <3>1, <3>5 DEF EndInv
  <2>7. CASE EndsPool /\ JoinPool
    BY <1>1, <2>7 DEF EndsPool, JoinPool, From, logvars
  <2> QED
    BY <1>5, <2>1, <2>2, <2>3, <2>4, <2>5, <2>6, <2>7 DEF MainStep, EndsPool
<1>6. CASE BackendStep
  <2>1. CASE ProcessNextMsg
    BY <1>6, <2>1, ProcessKeepsEnd DEF BackendStep
  <2>2. CASE BackendDequeues
    BY <1>4, <1>6, <2>2, PopKeepsEnd
    DEF BackendStep, BackendDequeues, QConsumerStep, Quiet, registry, threadvars
  <2> QED
    BY <1>6, <2>1, <2>2 DEF BackendStep
<1>7. CASE FlusherStep
  <2>1. CASE FlusherFires
    BY <1>2, <1>3, <1>7, <2>1 DEF FlusherStep, FlusherFires, registry, threadvars
  <2>2. CASE FlusherEnds
    BY <1>1, <1>7, <2>2 DEF FlusherStep, FlusherEnds, qvars, registry
  <2> QED
    BY <1>7, <2>1, <2>2 DEF FlusherStep
<1>8. ASSUME NEW t \in Workers, WorkerLogs(t) PROVE EndInv'
  BY <1>2, <1>3, <1>8 DEF WorkerLogs, PostNext, Post, registry, threadvars
<1>9. ASSUME NEW t \in Workers, WorkerEnds(t) PROVE EndInv'
  BY <1>1, <1>9 DEF WorkerEnds, logvars
<1>10. ASSUME NEW t \in Producers, PostGoesOn(t) PROVE EndInv'
  BY <1>4, <1>10, PushKeepsEnd DEF PostGoesOn, PostWaitsOrReturns, Quiet, registry, threadvars
<1>11. ASSUME NEW t \in Threads, WakeUp(t) PROVE EndInv'
  BY <1>4, <1>11 DEF WakeUp, Quiet, registry, threadvars
<1>12. CASE UNCHANGED vars
  BY <1>1, <1>12 DEF vars, logvars
<1> QED
  BY <1>5, <1>6, <1>7, <1>8, <1>9, <1>10, <1>11, <1>12 DEF Next, Done

LEMMA InitLog == Init => LogInv
<1> SUFFICES ASSUME Init PROVE LogInv
  OBVIOUS
<1>1. q = EmptyRing /\ Size(q) = 0
  BY EmptyIsRing DEF Init, LogInit, QInit
<1>2. ItemInv /\ PoolAtInv
  BY TheThreads DEF Init, LogInit, QInit, ItemInv, PoolAtInv
<1>3. FileInv
  BY DEF Init, LogInit, FileInv
<1>4. EndInv
  BY <1>1, TheThreads DEF Init, LogInit, QInit, EndInv
<1>5. OrderInv
  <2>1. Weight(item[Backend]) = 0 /\ item[Backend] \notin Records
    BY TheThreads, TheRecords DEF Init, LogInit, QInit, Weight
  <2>2. accepted = <<>> /\ file = <<>> /\ Len(accepted) = 0 /\ Len(file) = 0
    BY DEF Init, LogInit
  <2> DEFINE f == [i \in 0 .. 0 |-> 0]
  <2>3. f \in [0 .. Size(q) -> 0 .. Len(accepted)] /\ Numbers(f)
    BY <1>1, <2>1, <2>2 DEF Numbers
  <2> QED
    BY <2>1, <2>2, <2>3 DEF OrderInv
<1> QED
  BY <1>2, <1>3, <1>4, <1>5 DEF LogInv

LEMMA NextKeepsLog ==
    QInv /\ ProcessInv /\ LogInv /\ [Next]_vars => LogInv'
<1> SUFFICES ASSUME QInv, ProcessInv, LogInv, [Next]_vars PROVE LogInv'
  OBVIOUS
<1>1. QTypeOK /\ [QNext]_qvars
  BY StepsOfQueue DEF QInv
<1>2. QTypeOK'
  BY <1>1, NextKeepsTypes
<1>3. ItemInv'
  BY <1>1, <1>2, QueueKeepsItems DEF LogInv
<1>4. PoolAtInv'
  BY NextKeepsPoolAt DEF LogInv
<1> QED
  BY <1>1, <1>3, <1>4, NextKeepsOrder, NextKeepsEnd DEF LogInv

\* No thread of the process ever waits at the queue for a wake-up that is not
\* coming: the process uses the queue as QSpec says (mpmc_blocking_q.h).
THEOREM ProcessLosesNoWakeUp == Spec => []NoLostWakeUp
<1>1. QInv => NoLostWakeUp
  BY DEF QInv
<1> QED
  BY InitProcess, NextKeepsProcess, <1>1, PTL DEF Spec

\* The logger, the pool and its thread are there for as long as a thread of the
\* server, of the database pool or of the registry may log (~AppContext, Run of
\* Server.hpp and registry::shutdown).
THEOREM LoggerIsThere == Spec => []LoggerOutlivesUsers
<1>1. ProcessInv => LoggerOutlivesUsers
  BY TheThreads DEF ProcessInv, WorkersInv, RegistryInv, FlusherInv, PoolInv, LoggerOutlivesUsers
<1> QED
  BY InitProcess, NextKeepsProcess, <1>1, PTL DEF Spec

-----------------------------------------------------------------------------
(* The log implements LogChannel                                            *)

\* A prefix of a prefix.
LEMMA PrefixOfPrefix ==
    ASSUME NEW a \in Seq(Records), NEW f \in Seq(Records), Len(f) <= Len(a),
           \A i \in 1 .. Len(f) : f[i] = a[i], NEW n \in 0 .. Len(f)
    PROVE  SubSeq(f, 1, n) = SubSeq(a, 1, n) /\ Len(SubSeq(f, 1, n)) = n
<1>1. SubSeq(f, 1, n) = [i \in 1 .. n |-> f[i]] /\ SubSeq(a, 1, n) = [i \in 1 .. n |-> a[i]]
  OBVIOUS
<1> QED
  BY <1>1

\* When nothing is left on its way, the file is what was accepted.
LEMMA FileIsAll ==
    ASSUME FileInv, OrderInv, Size(q) = 0, item[Backend] = NoItem
    PROVE  file = accepted
<1>1. PICK upto : upto[0] = Len(file) + Weight(item[Backend]) /\ upto[0] = Len(accepted)
  BY DEF OrderInv, Numbers
<1>2. Len(file) = Len(accepted)
  BY <1>1, TheRecords DEF Weight, FileInv
<1> QED
  BY <1>2 DEF FileInv, OrderInv

\* A step that leaves what was accepted alone keeps more of it, or as much.
LEMMA KeepsMore ==
    ASSUME FileInv, OrderInv, Size(q) \in Nat, FileInv', OrderInv', Size(q') \in Nat,
           accepted' = accepted, durable <= durable', (main' = "exited") = (main = "exited")
    PROVE  [Channel!Next]_(Channel!vars)
<1>1. /\ accepted \in Seq(Records) /\ file \in Seq(Records) /\ durable \in 0 .. Len(file)
      /\ accepted' \in Seq(Records) /\ file' \in Seq(Records) /\ durable' \in 0 .. Len(file')
  BY DEF FileInv
<1>2. Len(file) <= Len(accepted)
  <2>1. PICK upto \in [0 .. Size(q) -> 0 .. Len(accepted)] : upto[0] = Len(file) + Weight(item[Backend])
    BY DEF OrderInv, Numbers
  <2>2. upto[0] \in 0 .. Len(accepted) /\ Weight(item[Backend]) \in 0 .. 1
    BY <2>1 DEF Weight
  <2> QED
    BY <1>1, <2>1, <2>2
<1>3. Len(file') <= Len(accepted')
  <2>1. PICK upto \in [0 .. Size(q') -> 0 .. Len(accepted')] :
                upto[0] = Len(file') + Weight(item'[Backend])
    BY DEF OrderInv, Numbers
  <2>2. upto[0] \in 0 .. Len(accepted') /\ Weight(item'[Backend]) \in 0 .. 1
    BY <2>1 DEF Weight
  <2> QED
    BY <1>1, <2>1, <2>2
<1>4. Len(SubSeq(file, 1, durable)) = durable
  BY <1>1, <1>2, PrefixOfPrefix DEF OrderInv
<1>5. SubSeq(file', 1, durable') = SubSeq(accepted', 1, durable')
  <2>1. \A i \in 1 .. Len(file') : file'[i] = accepted'[i]
    BY DEF OrderInv
  <2> QED
    BY <1>1, <1>3, <2>1, PrefixOfPrefix
<1>6. durable' \in Len(SubSeq(file, 1, durable)) .. Len(accepted)
  BY <1>1, <1>3, <1>4
<1>7. Channel!Keep(durable')
  BY <1>5 DEF Channel!Keep
<1> QED
  BY <1>6, <1>7 DEF Channel!Next

\* Every step of the process is a step of the channel.
LEMMA StepsOfChannel ==
    ASSUME QInv, ProcessInv, LogInv, [Next]_vars, QInv', ProcessInv', LogInv'
    PROVE  [Channel!Next]_(Channel!vars)
<1>0. /\ QTypeOK /\ Size(q) \in Nat /\ Size(q') \in Nat
      /\ FileInv /\ OrderInv /\ FileInv' /\ OrderInv' /\ EndInv
  BY SizeOfRing, MaxItemsAssumption DEF QInv, QTypeOK, LogInv
<1>1. durable \in 0 .. Len(file) /\ Len(file) \in Nat
  BY <1>0 DEF FileInv
\* The process exits: the backend has ended or never was, nothing holds the
\* logger, and so its file is closed with all of the records in it.
<1>2. CASE main' = "exited" /\ main # "exited"
  <2>1. /\ From("drop_all", "exited") /\ exiting /\ DropAll
    BY <1>2 DEF Next, MainStep, InitLogger, InitDb, BuildServer, ConstructorThrows, Listen, SpawnThread,
                RunThrows, Throws, JoinThreads, StopDb, JoinDb, ResetServer, EndsFlusher, DropsLoggers,
                EndsPool, Catch, Exit, From, BackendStep, FlusherStep, WorkerLogs, WorkerEnds, PostGoesOn,
                WakeUp, Done, vars
  <2>2. ~ tp /\ backend # "running"
    BY <2>1 DEF From, LogInv, PoolAtInv
  <2>3. Size(q) = 0 /\ item[Backend] = NoItem /\ at[Main] = "idle"
    BY <2>1, <2>2 DEF From, LogInv, EndInv
  <2>4. \A t \in Threads : item[t] = NoItem
    <3>1. \A p \in Producers : at[p] = "idle"
      BY <2>2, <2>3, OnlyMainCalls
    <3> QED
      BY <2>3, <3>1, TheThreads DEF LogInv, ItemInv, Threads
  <2>5. UNCHANGED <<q, item, accepted, file>> /\ defaultLogger' = "none" /\ ~ mapped'
    BY <2>1 DEF DropAll, Drop, qvars
  <2>6. DOMAIN Contents(q) = {}
    BY <1>0, <2>3, ContentsSeq
  <2>7. ClosesFile
    <3>1. ~ HoldsLogger(NoItem)
      BY TheRecords, LoggingAssumption, ThreadsAssumption DEF HoldsLogger, Messages
    <3>2. \A t \in Threads : ~ HoldsLogger(item'[t])
      BY <2>4, <2>5, <3>1
    <3>3. \A i \in DOMAIN Contents(q') : ~ HoldsLogger(Contents(q')[i])
      BY <2>5, <2>6
    <3> QED
      BY <2>5, <3>2, <3>3 DEF ClosesFile, LoggerHeld
  <2>8. durable' = Len(file')
    BY <2>1, <2>5, <2>7 DEF DropAll, Drop
  <2>9. file = accepted
    BY <1>0, <2>3, FileIsAll
  <2>10. SubSeq(file', 1, durable') = accepted'
    BY <1>0, <2>5, <2>8, <2>9 DEF FileInv
  <2>11. Channel!Close
    BY <1>2, <2>5, <2>10 DEF Channel!Close
  <2> QED
    BY <2>11 DEF Channel!Next
<1>3. CASE main = "exited"
  BY <1>3 DEF Next, Ended, Done, vars, logvars, Channel!vars
<1>4. CASE main' # "exited" /\ main # "exited"
  <2>1. CASE LogUnseen
    BY <1>0, <1>1, <1>4, <2>1, KeepsMore DEF LogUnseen
  <2>2. ASSUME NEW t \in Producers, PostPushes(t) PROVE [Channel!Next]_(Channel!vars)
    <3>1. CASE item[t] \in Records
      BY <1>4, <2>2, <3>1 DEF PostPushes, Channel!Next, Channel!Accept
    <3>2. CASE item[t] \notin Records
      BY <1>4, <2>2, <3>2 DEF PostPushes, Channel!vars
    <3> QED
      BY <3>1, <3>2
  <2>3. CASE Pop(Backend) /\ UNCHANGED filevars
    BY <1>4, <2>3 DEF filevars, Channel!vars
  <2>4. CASE ProcessNextMsg
    BY <1>0, <1>4, <2>4, KeepsMore, ProcessKeepsOrder DEF ProcessNextMsg
  <2> QED
    BY <1>0, <2>1, <2>2, <2>3, <2>4, StepsOfLog
<1> QED
  BY <1>2, <1>3, <1>4

\* The log of the process is the channel that LogChannel describes, for any
\* number of threads, records and slots: what reaches the disk is at any time
\* a prefix of what was accepted, in its order, and all of it when the process
\* exits, after a run as after a failed start (thread_pool-inl.h,
\* mpmc_blocking_q.h, registry-inl.h, ~AppContext).
THEOREM LogIsChannel == Spec => ImplementsLogChannel
<1>1. Init => Channel!Init
  BY DEF Init, LogInit, Channel!Init
<1>2. QInv /\ ProcessInv /\ LogInv /\ [Next]_vars /\ QInv' /\ ProcessInv' /\ LogInv'
        => [Channel!Next]_(Channel!vars)
  BY StepsOfChannel
<1> QED
  BY InitProcess, InitLog, NextKeepsProcess, NextKeepsLog, <1>1, <1>2, PTL
  DEF Spec, ImplementsLogChannel, Channel!Spec
=============================================================================
