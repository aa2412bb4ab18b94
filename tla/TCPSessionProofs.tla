--------------------------- MODULE TCPSessionProofs ---------------------------
(***************************************************************************)
(* Proofs about TCPSession, for every value of the limits that              *)
(* LimitsAssumption admits and every set of inputs.                        *)
(***************************************************************************)
EXTENDS TCPSession, SumsProofs

(***************************************************************************)
(* The byte counts of a queue of frames.                                   *)
(***************************************************************************)
Sizes(queue) == [i \in 1..Len(queue) |-> FrameBytes(queue[i])]

LEMMA SizesSeq ==
    ASSUME NEW queue \in Seq(Nat)
    PROVE  /\ Sizes(queue) \in Seq(Nat) /\ Len(Sizes(queue)) = Len(queue)
           /\ \A i \in 1..Len(queue) : Sizes(queue)[i] = FrameBytes(queue[i])
<1>1. \A i \in 1..Len(queue) : FrameBytes(queue[i]) \in Nat
    BY HeaderAssumption DEF HeaderAssumption, FrameBytes
<1> QED
    BY <1>1 DEF Sizes

\* Byte counts are numbers, from nothing to the bytes of the whole queue.
LEMMA BytesOfNat ==
    ASSUME NEW queue \in Seq(Nat)
    PROVE  /\ \A k \in 0..Len(queue) : BytesOf(queue)[k] \in Nat
           /\ BytesOf(queue)[0] = 0
           /\ QueueBytes(queue) \in Nat
<1>1. BytesOf(queue) = PartialSums(Sizes(queue))
    BY DEF BytesOf, Sizes
<1>2. Len(queue) \in Nat
    OBVIOUS
<1> QED
    BY <1>1, <1>2, SizesSeq, PartialSumsNat, PartialSumsSteps DEF QueueBytes

\* Queueing a frame leaves the counts of the frames before it as they are, and
\* adds its bytes to the whole.
LEMMA BytesOfAppend ==
    ASSUME NEW queue \in Seq(Nat), NEW body \in Nat
    PROVE  /\ \A k \in 0..Len(queue) : BytesOf(Append(queue, body))[k] = BytesOf(queue)[k]
           /\ QueueBytes(Append(queue, body)) = QueueBytes(queue) + FrameBytes(body)
<1> DEFINE more == Append(queue, body)
           s == Sizes(queue)
           t == Sizes(more)
<1>1. /\ more \in Seq(Nat) /\ Len(more) = Len(queue) + 1 /\ Len(queue) \in Nat
      /\ \A i \in 1..Len(queue) : more[i] = queue[i]
      /\ more[Len(queue) + 1] = body
    OBVIOUS
<1> HIDE DEF more
<1>2. /\ s \in Seq(Nat) /\ Len(s) = Len(queue)
      /\ \A i \in 1..Len(queue) : s[i] = FrameBytes(queue[i])
    BY SizesSeq
<1>3. /\ t \in Seq(Nat) /\ Len(t) = Len(queue) + 1
      /\ \A i \in 1..(Len(queue) + 1) : t[i] = FrameBytes(more[i])
    BY <1>1, SizesSeq
<1>4. BytesOf(queue) = PartialSums(s) /\ BytesOf(more) = PartialSums(t)
    BY DEF BytesOf, Sizes
<1> HIDE DEF s, t
<1>5. \A i \in 1..Len(queue) : s[i] = t[i]
    BY <1>1, <1>2, <1>3
<1>6. \A k \in 0..Len(queue) : PartialSums(s)[k] = PartialSums(t)[k]
  <2>1. Len(queue) <= Len(s) /\ Len(queue) <= Len(t)
      BY <1>1, <1>2, <1>3
  <2> QED
      BY <2>1, <1>1, <1>2, <1>3, <1>5, PartialSumsAgree, Zenon
<1>7. PartialSums(t)[Len(queue) + 1] = PartialSums(t)[Len(queue)] + t[Len(queue) + 1]
  <2>1. Len(queue) + 1 \in 1..Len(t) /\ (Len(queue) + 1) - 1 = Len(queue)
      BY <1>1, <1>3
  <2> QED
      BY <2>1, <1>3, PartialSumsSteps
<1>8. t[Len(queue) + 1] = FrameBytes(body)
    BY <1>1, <1>3
<1> QED
    BY <1>1, <1>4, <1>6, <1>7, <1>8 DEF QueueBytes, more

\* Taking the first n frames away takes their bytes away, and no more.
LEMMA BytesOfSuffix ==
    ASSUME NEW queue \in Seq(Nat), NEW n \in 0..Len(queue)
    PROVE  /\ SubSeq(queue, n + 1, Len(queue)) \in Seq(Nat)
           /\ QueueBytes(queue) = BytesOf(queue)[n]
                                   + QueueBytes(SubSeq(queue, n + 1, Len(queue)))
<1> DEFINE rest == SubSeq(queue, n + 1, Len(queue))
           s == Sizes(queue)
           t == Sizes(rest)
<1>1. /\ rest \in Seq(Nat) /\ Len(rest) = Len(queue) - n /\ Len(queue) \in Nat
      /\ \A i \in 1..Len(rest) : rest[i] = queue[n + i]
    OBVIOUS
<1> HIDE DEF rest
<1>2. /\ s \in Seq(Nat) /\ Len(s) = Len(queue)
      /\ \A i \in 1..Len(queue) : s[i] = FrameBytes(queue[i])
    BY SizesSeq
<1>3. /\ t \in Seq(Nat) /\ Len(t) = Len(rest)
      /\ \A i \in 1..Len(rest) : t[i] = FrameBytes(rest[i])
    BY <1>1, SizesSeq
<1>4. BytesOf(queue) = PartialSums(s) /\ BytesOf(rest) = PartialSums(t)
    BY DEF BytesOf, Sizes
<1> HIDE DEF s, t
<1>5. \A i \in 1..Len(t) : t[i] = s[n + i]
  <2> TAKE i \in 1..Len(t)
  <2>1. i \in 1..Len(rest) /\ n + i \in 1..Len(queue)
      BY <1>1, <1>3
  <2>2. t[i] = FrameBytes(rest[i]) /\ rest[i] = queue[n + i]
      BY <2>1, <1>1, <1>3
  <2>3. s[n + i] = FrameBytes(queue[n + i])
      BY <2>1, <1>2
  <2> QED
      BY <2>2, <2>3
<1>6. \A k \in 0..Len(t) : PartialSums(s)[n + k] = PartialSums(s)[n] + PartialSums(t)[k]
  <2>1. n \in 0..Len(s) /\ Len(t) = Len(s) - n
      BY <1>1, <1>2, <1>3
  <2> QED
      BY <2>1, <1>2, <1>3, <1>5, PartialSumsSuffix, Zenon
<1>7. Len(t) \in 0..Len(t) /\ n + Len(t) = Len(queue)
    BY <1>1, <1>3
<1>8. PartialSums(s)[Len(queue)] = PartialSums(s)[n] + PartialSums(t)[Len(rest)]
    BY <1>3, <1>6, <1>7
<1> QED
    BY <1>1, <1>4, <1>8 DEF QueueBytes, rest

(***************************************************************************)
(* Queues of tasks.                                                        *)
(***************************************************************************)
\* What is left of a queue when its first task has been taken.
LEMMA TakeTask ==
    ASSUME NEW s \in Seq(Tasks), s # <<>>
    PROVE  /\ Tail(s) \in Seq(Tasks) /\ Head(s) \in Tasks
           /\ \A w : Has(Tail(s), w) => Has(s, w)
           /\ \A w : w # Head(s).run => (Has(Tail(s), w) <=> Has(s, w))
           /\ \A w : AtMostOne(s, w) => AtMostOne(Tail(s), w)
           /\ Has(s, Head(s).run)
           /\ AtMostOne(s, Head(s).run) => ~ Has(Tail(s), Head(s).run)
<1>1. /\ Len(s) \in Nat \ {0} /\ Len(Tail(s)) = Len(s) - 1
      /\ \A i \in 1..Len(Tail(s)) : Tail(s)[i] = s[i + 1]
      /\ Head(s) = s[1] /\ Head(s) \in Tasks /\ Tail(s) \in Seq(Tasks)
    OBVIOUS
<1> DEFINE t == Tail(s)
           h == Head(s)
           n == Len(s)
           r == Len(Tail(s))
<1>2. /\ n \in Nat \ {0} /\ r = n - 1 /\ h = s[1]
      /\ \A i \in 1..r : t[i] = s[i + 1]
    BY <1>1
<1>3. \A w : Has(s, w) <=> \E i \in 1..n : s[i].run = w
    BY DEF Has
<1>4. \A w : Has(t, w) <=> \E i \in 1..r : t[i].run = w
    BY DEF Has
<1>5. \A w : AtMostOne(s, w) <=>
             \A i, j \in 1..n : s[i].run = w /\ s[j].run = w => i = j
    BY DEF AtMostOne
<1>6. \A w : AtMostOne(t, w) <=>
             \A i, j \in 1..r : t[i].run = w /\ t[j].run = w => i = j
    BY DEF AtMostOne
<1> HIDE DEF t, h, n, r
<1>7. ASSUME NEW w PROVE Has(t, w) => Has(s, w)
  <2> SUFFICES ASSUME NEW i \in 1..r, t[i].run = w PROVE Has(s, w)
      BY <1>4
  <2>1. i + 1 \in 1..n /\ s[i + 1].run = w
      BY <1>2
  <2> QED
      BY <2>1, <1>3
<1>8. ASSUME NEW w, w # h.run PROVE Has(s, w) => Has(t, w)
  <2> SUFFICES ASSUME NEW i \in 1..n, s[i].run = w PROVE Has(t, w)
      BY <1>3
  <2>1. i # 1
      BY <1>2, <1>8
  <2>2. i - 1 \in 1..r /\ (i - 1) + 1 = i
      BY <2>1, <1>2
  <2>3. t[i - 1].run = w
      BY <2>2, <1>2
  <2> QED
      BY <2>2, <2>3, <1>4
<1>9. ASSUME NEW w, AtMostOne(s, w) PROVE AtMostOne(t, w)
  <2> SUFFICES ASSUME NEW i \in 1..r, NEW j \in 1..r, t[i].run = w, t[j].run = w
               PROVE  i = j
      BY <1>6
  <2>1. i + 1 \in 1..n /\ j + 1 \in 1..n /\ s[i + 1].run = w /\ s[j + 1].run = w
      BY <1>2
  <2>2. i + 1 = j + 1
      BY <2>1, <1>9, <1>5
  <2> QED
      BY <2>2
<1>10. Has(s, h.run)
  <2>1. 1 \in 1..n /\ s[1].run = h.run
      BY <1>2
  <2> QED
      BY <2>1, <1>3
<1>11. ASSUME AtMostOne(s, h.run) PROVE ~ Has(t, h.run)
  <2> SUFFICES ASSUME NEW i \in 1..r, t[i].run = h.run PROVE FALSE
      BY <1>4
  <2>1. i + 1 \in 1..n /\ 1 \in 1..n /\ i + 1 # 1
      BY <1>2
  <2>2. s[i + 1].run = h.run /\ s[1].run = h.run
      BY <1>2
  <2> QED
      BY <2>1, <2>2, <1>11, <1>5
<1> QED
    BY <1>1, <1>7, <1>8, <1>9, <1>10, <1>11 DEF t, h

\* A queue with one more task at its end.
LEMMA PostTask ==
    ASSUME NEW s \in Seq(Tasks), NEW x \in Tasks
    PROVE  /\ Append(s, x) \in Seq(Tasks) /\ s \o <<x>> = Append(s, x)
           /\ \A w : Has(Append(s, x), w) <=> (Has(s, w) \/ x.run = w)
           /\ \A w : AtMostOne(s, w) /\ (x.run = w => ~ Has(s, w))
                     => AtMostOne(Append(s, x), w)
<1> DEFINE t == Append(s, x)
           n == Len(s)
<1>1. /\ t \in Seq(Tasks) /\ s \o <<x>> = t
      /\ n \in Nat /\ Len(t) = n + 1 /\ t[n + 1] = x
      /\ \A i \in 1..n : t[i] = s[i]
    OBVIOUS
<1>2. \A w : Has(s, w) <=> \E i \in 1..n : s[i].run = w
    BY DEF Has
<1>3. \A w : Has(t, w) <=> \E i \in 1..Len(t) : t[i].run = w
    BY DEF Has
<1>4. \A w : AtMostOne(s, w) <=>
             \A i, j \in 1..n : s[i].run = w /\ s[j].run = w => i = j
    BY DEF AtMostOne
<1>5. \A w : AtMostOne(t, w) <=>
             \A i, j \in 1..Len(t) : t[i].run = w /\ t[j].run = w => i = j
    BY DEF AtMostOne
<1> HIDE DEF t, n
<1>6. \A i \in 1..Len(t) : i \in 1..n \/ i = n + 1
    BY <1>1
<1>7. \A i \in 1..n : i \in 1..Len(t)
    BY <1>1
<1>8. n + 1 \in 1..Len(t)
    BY <1>1
<1>9. ASSUME NEW w PROVE Has(t, w) <=> (Has(s, w) \/ x.run = w)
    BY <1>1, <1>2, <1>3, <1>6, <1>7, <1>8
<1>10. ASSUME NEW w, AtMostOne(s, w), x.run = w => ~ Has(s, w) PROVE AtMostOne(t, w)
  <2> SUFFICES ASSUME NEW i \in 1..Len(t), NEW j \in 1..Len(t), t[i].run = w, t[j].run = w
               PROVE  i = j
      BY <1>5
  <2>1. CASE i \in 1..n /\ j \in 1..n
      BY <2>1, <1>1, <1>4, <1>10
  <2>2. CASE i = n + 1 /\ j \in 1..n
      BY <2>2, <1>1, <1>2, <1>10
  <2>3. CASE i \in 1..n /\ j = n + 1
      BY <2>3, <1>1, <1>2, <1>10
  <2>4. CASE i = n + 1 /\ j = n + 1
      BY <2>4
  <2> QED
      BY <2>1, <2>2, <2>3, <2>4, <1>6
<1> QED
    BY <1>1, <1>9, <1>10 DEF t

\* Every task of the strand is one.
LEMMA TaskTypes ==
    ASSUME NEW body \in Nat, NEW op \in Operations, NEW ok \in BOOLEAN
    PROVE  /\ SendTask(body) \in Tasks /\ SendTask(body).run = "send"
           /\ CloseTask \in Tasks /\ CloseTask.run = "close"
           /\ OpTask(op, ok) \in Tasks /\ OpTask(op, ok).run = op
  BY DEF Tasks, SendTask, CloseTask, OpTask, Operations

\* A handler that posts nothing: its task is gone, the others stay.
LEMMA RunsNone ==
    ASSUME strand \in Seq(Tasks), NEW what, Runs(what, <<>>)
    PROVE  /\ strand' \in Seq(Tasks) /\ Head(strand) \in Tasks /\ Head(strand).run = what
           /\ Has(strand, what)
           /\ AtMostOne(strand, what) => ~ Has(strand', what)
           /\ \A w : w # what => (Has(strand', w) <=> Has(strand, w))
           /\ \A w : AtMostOne(strand, w) => AtMostOne(strand', w)
<1>1. strand # <<>> /\ Head(strand).run = what /\ strand' = Tail(strand) \o <<>>
    BY DEF Runs
<1>2. Tail(strand) \in Seq(Tasks)
    BY <1>1, TakeTask
<1>3. strand' = Tail(strand)
    BY <1>1, <1>2
<1> QED
    BY <1>1, <1>3, TakeTask

\* A handler that posts one task, of another kind.
LEMMA RunsOne ==
    ASSUME strand \in Seq(Tasks), NEW what, NEW x \in Tasks, x.run # what, Runs(what, <<x>>)
    PROVE  /\ strand' \in Seq(Tasks) /\ Head(strand) \in Tasks /\ Head(strand).run = what
           /\ Has(strand, what)
           /\ AtMostOne(strand, what) => ~ Has(strand', what)
           /\ \A w : w # what /\ w # x.run => (Has(strand', w) <=> Has(strand, w))
           /\ Has(strand', x.run)
           /\ \A w : w # x.run /\ AtMostOne(strand, w) => AtMostOne(strand', w)
           /\ AtMostOne(strand, x.run) /\ ~ Has(strand, x.run) => AtMostOne(strand', x.run)
<1>1. strand # <<>> /\ Head(strand).run = what /\ strand' = Tail(strand) \o <<x>>
    BY DEF Runs
<1> DEFINE t == Tail(strand)
<1>2. /\ t \in Seq(Tasks) /\ Head(strand) \in Tasks
      /\ \A w : Has(t, w) => Has(strand, w)
      /\ \A w : w # what => (Has(t, w) <=> Has(strand, w))
      /\ \A w : AtMostOne(strand, w) => AtMostOne(t, w)
      /\ Has(strand, what)
      /\ AtMostOne(strand, what) => ~ Has(t, what)
    BY <1>1, TakeTask
<1> HIDE DEF t
<1>3. /\ strand' \in Seq(Tasks)
      /\ \A w : Has(strand', w) <=> (Has(t, w) \/ x.run = w)
      /\ \A w : AtMostOne(t, w) /\ (x.run = w => ~ Has(t, w)) => AtMostOne(strand', w)
  <2>1. strand' = Append(t, x)
    <3>1. strand' = t \o <<x>>
        BY <1>1 DEF t
    <3> QED
        BY <3>1, <1>2, PostTask
  <2> QED
      BY <2>1, <1>2, PostTask
<1> QED
    BY <1>1, <1>2, <1>3

\* A completion queues its handler behind what is there.
LEMMA PostsOne ==
    ASSUME strand \in Seq(Tasks), NEW x \in Tasks, strand' = Append(strand, x)
    PROVE  /\ strand' \in Seq(Tasks)
           /\ \A w : Has(strand', w) <=> (Has(strand, w) \/ x.run = w)
           /\ \A w : AtMostOne(strand, w) /\ (x.run = w => ~ Has(strand, w))
                     => AtMostOne(strand', w)
  BY PostTask

(***************************************************************************)
(* The gathering of a batch.                                               *)
(***************************************************************************)
\* There is a longest prefix that fits, the one before the first that does not.
LEMMA BatchItemsFit ==
    ASSUME NEW queue \in Seq(Nat), queue # <<>>
    PROVE  /\ BatchItems(queue) \in 1..Len(queue)
           /\ Fits(queue, BatchItems(queue))
<1>1. Len(queue) \in Nat \ {0}
    OBVIOUS
<1> DEFINE T == {n \in Nat : n \in 1..Len(queue) /\ (n < Len(queue) => ~ Fits(queue, n + 1))}
<1>2. Len(queue) \in T
    BY <1>1
<1>3. PICK n \in T : \A m \in T : ~ (<<m, n>> \in Less)
    BY <1>2, LessWellFounded, WFMin
<1>4. n \in 1..Len(queue) /\ (n < Len(queue) => ~ Fits(queue, n + 1))
    OBVIOUS
<1>5. Fits(queue, n)
  <2>1. CASE n = 1
      BY <2>1 DEF Fits
  <2>2. CASE n # 1
    <3>1. n - 1 \in 1..Len(queue) /\ n - 1 < Len(queue) /\ (n - 1) + 1 = n /\ n - 1 \in Nat
        BY <1>4, <2>2, <1>1
    <3>2. <<n - 1, n>> \in Less
        BY <3>1, <1>4 DEF Less
    <3>3. n - 1 \notin T
        BY <3>2, <1>3
    <3> QED
        BY <3>1, <3>3
  <2> QED
      BY <2>1, <2>2
<1> QED
    BY <1>4, <1>5 DEF BatchItems

\* What Drain leaves: a write of a prefix of the queue, or none.
LEMMA DrainEffect ==
    ASSUME NEW queue \in Seq(Nat), NEW closed \in BOOLEAN, Drain(queue, closed)
    PROVE  /\ m_is_writing' = (~ closed /\ queue # <<>>)
           /\ batch' \in [items : Nat, bytes : Nat]
           /\ pending' = IF m_is_writing' THEN pending \union {"write"} ELSE pending
           /\ m_is_writing' => /\ batch'.items \in 1..Len(queue)
                               /\ batch'.bytes = BytesOf(queue)[batch'.items]
                               /\ batch'.items > 1 => batch'.bytes <= MaxBatchBytes
<1>1. CASE closed \/ queue = <<>>
  <2>1. NoWrite
      BY <1>1 DEF Drain
  <2> QED
      BY <2>1, <1>1 DEF NoWrite, NoBatch
<1>2. CASE ~ closed /\ queue # <<>>
  <2> DEFINE n == BatchItems(queue)
             b == BytesOf(queue)[n]
  <2>1. StartWrite(queue, b)
      BY <1>2 DEF Drain
  <2>2. n \in 1..Len(queue) /\ Fits(queue, n) /\ Len(queue) \in Nat
      BY <1>2, BatchItemsFit
  <2>3. b \in Nat
      BY <2>2, BytesOfNat
  <2>4. n > 1 => b <= MaxBatchBytes
    <3>1. n > 1 => n \in 2..n
        BY <2>2
    <3> QED
        BY <3>1, <2>2 DEF Fits
  <2>5. m_is_writing' = TRUE /\ batch' = [items |-> n, bytes |-> b]
        /\ pending' = pending \union {"write"}
      BY <2>1 DEF StartWrite, Started
  <2> HIDE DEF n, b
  <2>6. batch' \in [items : Nat, bytes : Nat] /\ batch'.items = n /\ batch'.bytes = b
      BY <2>2, <2>3, <2>5
  <2>7. b = BytesOf(queue)[n]
      BY DEF b
  <2> QED
      BY <1>2, <2>2, <2>4, <2>5, <2>6, <2>7
<1> QED
    BY <1>1, <1>2

(***************************************************************************)
(* The inductive invariant: the invariants the runs check, together, and    *)
(* that m_pending_bytes covers the queue even when the session is closed,   *)
(* so that what the completion of a write subtracts is there.               *)
(***************************************************************************)
QueueTypes ==
    /\ m_write_queue \in Seq(Nat) /\ m_pending_bytes \in Nat
    /\ m_is_writing \in BOOLEAN /\ m_backpressure \in BOOLEAN
    /\ batch \in [items : Nat, bytes : Nat]

BytesCovered == QueueBytes(m_write_queue) <= m_pending_bytes

QueueInv ==
    /\ BytesCovered /\ BytesAccounted
    /\ BatchIsQueuePrefix /\ WaterMarks /\ QueueIsDrained

IInv == TypeOK /\ SingleFlight /\ ShutdownIsPosted /\ QueueInv /\ ParkedReaderIsWoken

(***************************************************************************)
(* The handlers of the strand, seen as what they do to the strand: a        *)
(* handler posts at most a frame to send and leaves the flag alone, or it   *)
(* shuts the session down.                                                 *)
(***************************************************************************)
Sends == {t \in Tasks : t.run = "send"}

RunsAndKeeps(what) ==
    /\ Runs(what, <<>>) \/ \E x \in Sends : Runs(what, <<x>>)
    /\ UNCHANGED m_is_closed

RunsAndCloses(what) == Runs(what, ShutdownPosts) /\ m_is_closed' = TRUE

Goes(what, here, places) ==
    \/ here \in places /\ Started(what)
    \/ here = "done" /\ UNCHANGED pending

ReaderStep ==
    /\ RunsAndKeeps("reader") \/ RunsAndCloses("reader")
    /\ Goes("reader", reader', {"parked", "header", "body", "handler"})
    /\ reader' = "parked" => m_backpressure
    /\ idle' \in {"fresh", "soft", "hard"}
    /\ ReaderFrame

HeartbeatStep ==
    /\ RunsAndKeeps("heartbeat") \/ RunsAndCloses("heartbeat")
    /\ Goes("heartbeat", heartbeat', {"interval", "grace"})
    /\ HeartbeatFrame

\* Every action of ReadLoop is such a step.
LEMMA ReaderShape == ASSUME TypeOK, ReadLoop PROVE ReaderStep
<1>1. SendTask(0) \in Sends
    BY TaskTypes DEF Sends, SendTask, Tasks
<1>2. CASE ReaderStart
    BY <1>2 DEF TypeOK, ReaderStart, ReaderStep, RunsAndKeeps, Goes, ReadNext, ReaderFrame
<1>3. CASE ReaderResumed
    BY <1>3 DEF TypeOK, ReaderResumed, ReaderStep, RunsAndKeeps, Goes, ReaderFrame
<1>4. CASE ReadFailed
    BY <1>4 DEF TypeOK, ReadFailed, ReaderStep, RunsAndCloses, Goes, ReaderEnds, ReaderFrame
<1>5. CASE HeaderRefused
    BY <1>5 DEF TypeOK, HeaderRefused, ReaderStep, RunsAndCloses, Goes, ReaderEnds, ReaderFrame
<1>6. CASE KeepAliveRead
  <2>1. PICK h \in Headers : Runs("reader", IF h.service = "Ping" THEN <<SendTask(0)>> ELSE <<>>)
      BY <1>6 DEF KeepAliveRead
  <2>2. Runs("reader", <<>>) \/ \E x \in Sends : Runs("reader", <<x>>)
    <3>1. CASE h.service = "Ping"
        BY <3>1, <2>1, <1>1
    <3>2. CASE h.service # "Ping"
        BY <3>2, <2>1
    <3> QED
        BY <3>1, <3>2
  <2> QED
      BY <1>6, <2>2 DEF KeepAliveRead, ReaderStep, RunsAndKeeps, Goes, ReadNext, ReaderFrame
<1>7. CASE RequestRead
    BY <1>7 DEF TypeOK, RequestRead, ReaderStep, RunsAndKeeps, Goes, ReaderFrame
<1>8. CASE BodyUnhandled
    BY <1>8 DEF TypeOK, BodyUnhandled, ReaderStep, RunsAndCloses, Goes, ReadNext, ReaderFrame
<1>9. CASE BodyMalformed
    BY <1>9 DEF TypeOK, BodyMalformed, ReaderStep, RunsAndKeeps, Goes, ReadNext, ReaderFrame
<1>10. CASE BodyHandled
    BY <1>10 DEF TypeOK, BodyHandled, ReaderStep, RunsAndKeeps, Goes, ReaderFrame
<1>11. CASE HandlerAnswers
  <2>1. PICK body \in ResponseBodies : Runs("reader", <<SendTask(body)>>)
      BY <1>11 DEF HandlerAnswers
  <2>2. SendTask(body) \in Sends
      BY InputsAssumption DEF InputsAssumption, Sends, SendTask, Tasks
  <2> QED
      BY <1>11, <2>1, <2>2
         DEF TypeOK, HandlerAnswers, ReaderStep, RunsAndKeeps, Goes, ReadNext, ReaderFrame
<1>12. CASE HandlerThrows
    BY <1>12 DEF TypeOK, HandlerThrows, ReaderStep, RunsAndCloses, Goes, ReaderEnds, ReaderFrame
<1> QED
    BY <1>2, <1>3, <1>4, <1>5, <1>6, <1>7, <1>8, <1>9, <1>10, <1>11, <1>12 DEF ReadLoop

\* Every action of Heartbeat is such a step.
LEMMA HeartbeatShape == ASSUME TypeOK, Heartbeat PROVE HeartbeatStep
<1>1. SendTask(0) \in Sends
    BY TaskTypes DEF Sends, SendTask, Tasks
<1>2. CASE HeartbeatStart
    BY <1>2 DEF HeartbeatStart, HeartbeatStep, RunsAndKeeps, Goes, HeartbeatNext, HeartbeatFrame
<1>3. CASE HeartbeatAgain
    BY <1>3 DEF HeartbeatAgain, HeartbeatStep, RunsAndKeeps, Goes, HeartbeatNext, HeartbeatFrame
<1>4. CASE HeartbeatPings
    BY <1>1, <1>4 DEF HeartbeatPings, HeartbeatStep, RunsAndKeeps, Goes, HeartbeatFrame
<1>5. CASE HeartbeatGivesUp
    BY <1>5 DEF HeartbeatGivesUp, HeartbeatStep, RunsAndCloses, Goes, HeartbeatFrame
<1> QED
    BY <1>2, <1>3, <1>4, <1>5 DEF Heartbeat

\* What such a step leaves on the strand, and that Shutdown is posted with it.
LEMMA HandlerEffect ==
    ASSUME NEW what \in Operations \union {"send"}, strand \in Seq(Tasks),
           m_is_closed \in BOOLEAN, sock \in {"open", "closed"}, ShutdownIsPosted,
           RunsAndKeeps(what) \/ RunsAndCloses(what), UNCHANGED <<stopping, sock>>
    PROVE  /\ strand' \in Seq(Tasks) /\ Has(strand, what)
           /\ AtMostOne(strand, what) => ~ Has(strand', what) \/ what = "send"
           /\ \A op \in Operations : op # what => (Has(strand', op) <=> Has(strand, op))
           /\ \A op \in Operations : AtMostOne(strand, op) => AtMostOne(strand', op)
           /\ m_is_closed' \in BOOLEAN /\ (m_is_closed => m_is_closed')
           /\ ShutdownIsPosted'
<1>1. /\ \A op \in Operations : op # "send" /\ op # "close"
      /\ what # "close"
    BY DEF Operations
<1>2. CASE Runs(what, <<>>) /\ UNCHANGED m_is_closed
  <2>1. /\ strand' \in Seq(Tasks) /\ Has(strand, what)
        /\ AtMostOne(strand, what) => ~ Has(strand', what)
        /\ \A w : w # what => (Has(strand', w) <=> Has(strand, w))
        /\ \A w : AtMostOne(strand, w) => AtMostOne(strand', w)
      BY <1>2, RunsNone
  <2> QED
      BY <1>1, <1>2, <2>1 DEF ShutdownIsPosted
<1>3. ASSUME NEW x \in Sends, Runs(what, <<x>>), UNCHANGED m_is_closed
      PROVE  /\ strand' \in Seq(Tasks) /\ Has(strand, what)
             /\ AtMostOne(strand, what) => ~ Has(strand', what) \/ what = "send"
             /\ \A op \in Operations : op # what => (Has(strand', op) <=> Has(strand, op))
             /\ \A op \in Operations : AtMostOne(strand, op) => AtMostOne(strand', op)
             /\ ShutdownIsPosted'
  <2>1. x \in Tasks /\ x.run = "send"
      BY DEF Sends
  <2>2. strand # <<>> /\ Head(strand).run = what /\ strand' = Tail(strand) \o <<x>>
      BY <1>3 DEF Runs
  <2> DEFINE t == Tail(strand)
  <2>3. /\ t \in Seq(Tasks) /\ Has(strand, what)
        /\ \A w : w # what => (Has(t, w) <=> Has(strand, w))
        /\ \A w : AtMostOne(strand, w) => AtMostOne(t, w)
        /\ AtMostOne(strand, what) => ~ Has(t, what)
      BY <2>2, TakeTask
  <2>4. strand' = t \o <<x>>
      BY <2>2
  <2> HIDE DEF t
  <2>5. strand' = Append(t, x)
      BY <2>4, <2>3, <2>1, PostTask
  <2>6. /\ strand' \in Seq(Tasks)
        /\ \A w : Has(strand', w) <=> (Has(t, w) \/ x.run = w)
        /\ \A w : AtMostOne(t, w) /\ (x.run = w => ~ Has(t, w)) => AtMostOne(strand', w)
      BY <2>5, <2>3, <2>1, PostTask
  <2>7. /\ \A w : w # what /\ w # "send" => (Has(strand', w) <=> Has(strand, w))
        /\ \A w : w # "send" /\ AtMostOne(strand, w) => AtMostOne(strand', w)
        /\ AtMostOne(strand, what) => ~ Has(strand', what) \/ what = "send"
      BY <2>1, <2>3, <2>6
  <2> QED
      BY <1>1, <1>3, <2>3, <2>6, <2>7 DEF ShutdownIsPosted
<1>4. CASE RunsAndCloses(what) /\ m_is_closed
  <2>1. Runs(what, <<>>) /\ UNCHANGED m_is_closed
      BY <1>4 DEF RunsAndCloses, ShutdownPosts
  <2> QED
      BY <2>1, <1>2
<1>5. CASE RunsAndCloses(what) /\ ~ m_is_closed
  <2>1. Runs(what, <<CloseTask>>) /\ m_is_closed' = TRUE
      BY <1>5 DEF RunsAndCloses, ShutdownPosts
  <2>2. CloseTask \in Tasks /\ CloseTask.run = "close"
      BY DEF Tasks, CloseTask
  <2>3. ~ Has(strand, "close") /\ AtMostOne(strand, "close") /\ ~ stopping /\ sock = "open"
      BY <1>5 DEF ShutdownIsPosted
  <2>4. /\ strand' \in Seq(Tasks) /\ Has(strand, what)
        /\ AtMostOne(strand, what) => ~ Has(strand', what)
        /\ \A w : w # what /\ w # "close" => (Has(strand', w) <=> Has(strand, w))
        /\ Has(strand', "close")
        /\ \A w : w # "close" /\ AtMostOne(strand, w) => AtMostOne(strand', w)
        /\ AtMostOne(strand, "close") /\ ~ Has(strand, "close") => AtMostOne(strand', "close")
      BY <2>1, <2>2, <1>1, RunsOne
  <2> QED
      BY <1>1, <2>1, <2>3, <2>4 DEF ShutdownIsPosted
<1> QED
    BY <1>2, <1>3, <1>4, <1>5 DEF RunsAndKeeps

(***************************************************************************)
(* The queue, step by step.                                                *)
(***************************************************************************)
\* A step that leaves the queue alone and at most closes the session.
LEMMA QueueUntouched ==
    ASSUME QueueTypes, QueueInv, UNCHANGED queueVars, m_is_closed => m_is_closed'
    PROVE  QueueTypes' /\ QueueInv'
<1>1. /\ m_write_queue' = m_write_queue /\ m_pending_bytes' = m_pending_bytes
      /\ m_is_writing' = m_is_writing /\ m_backpressure' = m_backpressure
      /\ batch' = batch
    BY DEF queueVars
<1>2. QueueTypes' /\ BytesCovered' /\ BatchIsQueuePrefix'
    BY <1>1 DEF QueueTypes, QueueInv, BytesCovered, BatchIsQueuePrefix
<1>3. BytesAccounted' /\ WaterMarks' /\ QueueIsDrained'
    BY <1>1 DEF QueueInv, BytesAccounted, WaterMarks, QueueIsDrained
<1> QED
    BY <1>2, <1>3 DEF QueueInv

\* A frame over the cap is counted and not queued, and the session closes.
LEMMA QueueOverCap ==
    ASSUME QueueTypes, QueueInv, strand \in Seq(Tasks), SendOverCap
    PROVE  QueueTypes' /\ QueueInv'
<1>1. /\ m_write_queue' = m_write_queue /\ m_is_writing' = m_is_writing
      /\ m_backpressure' = m_backpressure /\ batch' = batch
      /\ m_is_closed' = TRUE
      /\ m_pending_bytes' = m_pending_bytes + FrameBytes(Head(strand).body)
    BY DEF SendOverCap, SendShutsDown
<1>2. FrameBytes(Head(strand).body) \in Nat
  <2>1. Head(strand) \in Tasks
      BY TakeTask DEF SendOverCap, SendShutsDown, Runs
  <2> QED
      BY <2>1, HeaderAssumption DEF HeaderAssumption, FrameBytes, Tasks
<1>3. m_pending_bytes \in Nat /\ QueueBytes(m_write_queue) \in Nat
    BY BytesOfNat DEF QueueTypes
<1>4. QueueTypes' /\ BatchIsQueuePrefix'
    BY <1>1, <1>2, <1>3 DEF QueueTypes, QueueInv, BatchIsQueuePrefix
<1>5. BytesCovered'
    BY <1>1, <1>2, <1>3 DEF QueueInv, BytesCovered
<1>6. BytesAccounted' /\ WaterMarks' /\ QueueIsDrained'
    BY <1>1 DEF BytesAccounted, WaterMarks, QueueIsDrained
<1> QED
    BY <1>4, <1>5, <1>6 DEF QueueInv

\* A frame queued: it is counted, and a write is in flight or started.
LEMMA QueueQueued ==
    ASSUME QueueTypes, QueueInv, strand \in Seq(Tasks), m_is_closed \in BOOLEAN, SendQueued
    PROVE  QueueTypes' /\ QueueInv'
<1> DEFINE body == Head(strand).body
           queue == m_write_queue
<1>1. body \in Nat /\ FrameBytes(body) \in Nat
  <2>1. Head(strand) \in Tasks
      BY TakeTask DEF SendQueued, Runs
  <2> QED
      BY <2>1, HeaderAssumption DEF HeaderAssumption, FrameBytes, Tasks
<1>2. /\ ~ m_is_closed
      /\ m_pending_bytes' = m_pending_bytes + FrameBytes(body)
      /\ m_pending_bytes' <= HardCap
      /\ m_backpressure' = (m_backpressure \/ m_pending_bytes' > HighWater)
      /\ m_write_queue' = Append(queue, body)
      /\ m_is_closed' \in BOOLEAN
    BY DEF SendQueued, Enqueued, closeVars
<1>3. DrainIfIdle(m_write_queue', m_is_closed')
    BY DEF SendQueued
<1>4. queue \in Seq(Nat) /\ m_pending_bytes \in Nat
    BY DEF QueueTypes
<1>5. /\ Append(queue, body) \in Seq(Nat) /\ Append(queue, body) # <<>>
      /\ Len(Append(queue, body)) = Len(queue) + 1 /\ Len(queue) \in Nat
    BY <1>1, <1>4
<1>6. /\ QueueBytes(Append(queue, body)) = QueueBytes(queue) + FrameBytes(body)
      /\ QueueBytes(queue) \in Nat
      /\ \A k \in 0..Len(queue) : BytesOf(Append(queue, body))[k] = BytesOf(queue)[k]
    BY <1>1, <1>4, BytesOfAppend, BytesOfNat
<1>7. QueueBytes(queue) = m_pending_bytes
    BY <1>2 DEF QueueInv, BytesAccounted
<1> HIDE DEF body, queue
<1>8. BytesCovered' /\ BytesAccounted'
  <2>1. QueueBytes(m_write_queue') = m_pending_bytes' /\ m_pending_bytes' \in Nat
      BY <1>1, <1>2, <1>4, <1>6, <1>7
  <2> QED
      BY <2>1 DEF BytesCovered, BytesAccounted
<1>9. WaterMarks'
  <2>1. m_pending_bytes' >= m_pending_bytes
      BY <1>1, <1>2, <1>4
  <2>2. m_backpressure => m_pending_bytes > LowWater
      BY <1>2 DEF QueueInv, WaterMarks
  <2>3. m_backpressure' => m_pending_bytes' > LowWater
    <3>1. m_pending_bytes' \in Nat /\ LowWater \in Nat /\ HighWater \in Nat /\ LowWater <= HighWater
        BY <1>1, <1>2, <1>4, LimitsAssumption DEF LimitsAssumption
    <3>2. CASE m_backpressure
        BY <3>1, <3>2, <2>1, <2>2, <1>4
    <3>3. CASE m_pending_bytes' > HighWater
        BY <3>1, <3>3
    <3> QED
        BY <3>2, <3>3, <1>2
  <2>4. m_pending_bytes' > HighWater => m_backpressure'
      BY <1>2
  <2> QED
      BY <2>3, <2>4, <1>2 DEF WaterMarks
<1>10. CASE m_is_writing
  <2>1. m_is_writing' = m_is_writing /\ batch' = batch
      BY <1>10, <1>3 DEF DrainIfIdle
  <2>2. /\ batch.items \in 1..Len(queue)
        /\ batch.bytes = BytesOf(queue)[batch.items]
        /\ batch.items > 1 => batch.bytes <= MaxBatchBytes
      BY <1>10 DEF QueueInv, BatchIsQueuePrefix, queue
  <2>3. /\ batch.items \in 1..Len(Append(queue, body))
        /\ batch.bytes = BytesOf(Append(queue, body))[batch.items]
      BY <2>2, <1>5, <1>6
  <2>4. BatchIsQueuePrefix'
      BY <2>1, <2>2, <2>3, <1>2 DEF BatchIsQueuePrefix
  <2>5. QueueIsDrained'
      BY <2>1, <1>10 DEF QueueIsDrained
  <2>6. QueueTypes'
      BY <2>1, <1>1, <1>2, <1>4, <1>5 DEF QueueTypes
  <2> QED
      BY <2>4, <2>5, <2>6, <1>8, <1>9 DEF QueueInv
<1>11. CASE ~ m_is_writing
  <2>1. Drain(Append(queue, body), m_is_closed')
      BY <1>11, <1>2, <1>3 DEF DrainIfIdle
  <2>2. /\ m_is_writing' = (~ m_is_closed' /\ Append(queue, body) # <<>>)
        /\ batch' \in [items : Nat, bytes : Nat]
        /\ m_is_writing' =>
               /\ batch'.items \in 1..Len(Append(queue, body))
               /\ batch'.bytes = BytesOf(Append(queue, body))[batch'.items]
               /\ batch'.items > 1 => batch'.bytes <= MaxBatchBytes
      BY <2>1, <1>2, <1>5, DrainEffect
  <2>3. BatchIsQueuePrefix' /\ QueueIsDrained'
      BY <2>2, <1>2, <1>5 DEF BatchIsQueuePrefix, QueueIsDrained
  <2>4. QueueTypes'
    <3>1. m_is_writing' \in BOOLEAN
        BY <2>2, Zenon
    <3>2. m_backpressure' \in BOOLEAN
        BY <1>2, Zenon
    <3>3. m_pending_bytes' \in Nat
        BY <1>1, <1>2, <1>4
    <3> QED
        BY <3>1, <3>2, <3>3, <2>2, <1>2, <1>5 DEF QueueTypes
  <2> QED
      BY <2>3, <2>4, <1>8, <1>9 DEF QueueInv
<1> QED
    BY <1>10, <1>11 DEF QueueTypes

\* A write that failed: nothing is in flight, and the session closes.
LEMMA QueueWriteFailed ==
    ASSUME QueueTypes, QueueInv, WriteFailed
    PROVE  QueueTypes' /\ QueueInv'
<1>1. /\ m_write_queue' = m_write_queue /\ m_pending_bytes' = m_pending_bytes
      /\ m_backpressure' = m_backpressure /\ batch' = NoBatch
    BY DEF WriteFailed
<1>2. m_is_writing' = FALSE
    BY DEF WriteFailed
<1>3. m_is_closed' = TRUE
    BY DEF WriteFailed
<1>4. QueueTypes'
    BY <1>1, <1>2 DEF QueueTypes, NoBatch
<1>5. BytesCovered' /\ BytesAccounted' /\ BatchIsQueuePrefix' /\ WaterMarks' /\ QueueIsDrained'
    BY <1>1, <1>2, <1>3
       DEF QueueInv, BytesCovered, BytesAccounted, BatchIsQueuePrefix, WaterMarks, QueueIsDrained
<1> QED
    BY <1>4, <1>5 DEF QueueInv

\* A write that is done: what it gathered is popped and its bytes subtracted,
\* and there were that many, and the next write starts.
LEMMA QueueWriteDone ==
    ASSUME QueueTypes, QueueInv, m_is_closed \in BOOLEAN, m_is_writing, WriteDone
    PROVE  QueueTypes' /\ QueueInv'
<1> DEFINE queue == m_write_queue
           n == batch.items
           rest == SubSeq(queue, n + 1, Len(queue))
<1>1. /\ m_write_queue' = rest
      /\ m_pending_bytes' = m_pending_bytes - batch.bytes
      /\ m_backpressure' = StaysPaused(m_pending_bytes')
      /\ Drain(m_write_queue', m_is_closed)
      /\ m_is_closed' = m_is_closed
    BY DEF WriteDone, closeVars
<1>2. queue \in Seq(Nat) /\ m_pending_bytes \in Nat /\ Len(queue) \in Nat
    BY DEF QueueTypes
<1>3. n \in 1..Len(queue) /\ batch.bytes = BytesOf(queue)[n]
    BY DEF QueueInv, BatchIsQueuePrefix
<1>4. n \in 0..Len(queue)
    BY <1>2, <1>3
<1>5. /\ rest \in Seq(Nat) /\ QueueBytes(queue) = BytesOf(queue)[n] + QueueBytes(rest)
      /\ BytesOf(queue)[n] \in Nat /\ QueueBytes(queue) \in Nat
    BY <1>2, <1>4, BytesOfSuffix, BytesOfNat
<1>6. QueueBytes(rest) \in Nat
    BY <1>5, BytesOfNat
<1>7. QueueBytes(queue) <= m_pending_bytes
    BY DEF QueueInv, BytesCovered
<1>8. ~ m_is_closed => m_pending_bytes = QueueBytes(queue)
    BY DEF QueueInv, BytesAccounted
<1>9. ~ m_is_closed => m_pending_bytes <= HardCap /\ (m_pending_bytes > HighWater => m_backpressure)
    BY DEF QueueInv, WaterMarks
<1> HIDE DEF queue, n, rest
<1>10. m_pending_bytes' \in Nat /\ m_pending_bytes' <= m_pending_bytes
    BY <1>1, <1>2, <1>3, <1>5, <1>6, <1>7
<1>11. BytesCovered' /\ BytesAccounted'
  <2>1. QueueBytes(m_write_queue') <= m_pending_bytes'
      BY <1>1, <1>2, <1>3, <1>5, <1>6, <1>7
  <2>2. ~ m_is_closed => m_pending_bytes' = QueueBytes(m_write_queue')
      BY <1>1, <1>2, <1>3, <1>5, <1>6, <1>8
  <2> QED
      BY <2>1, <2>2, <1>1 DEF BytesCovered, BytesAccounted
<1>12. WaterMarks'
  <2>1. LowWater \in Nat /\ HighWater \in Nat /\ HardCap \in Nat /\ LowWater <= HighWater
      BY LimitsAssumption DEF LimitsAssumption
  <2>2. m_backpressure' <=> m_backpressure /\ m_pending_bytes' > LowWater
      BY <1>1 DEF StaysPaused
  <2>3. ~ m_is_closed => m_pending_bytes' <= HardCap
      BY <1>2, <1>9, <1>10, <2>1
  <2>4. ~ m_is_closed /\ m_pending_bytes' > HighWater => m_backpressure'
      BY <1>2, <1>9, <1>10, <2>1, <2>2
  <2> QED
      BY <1>1, <2>2, <2>3, <2>4 DEF WaterMarks
<1>13. /\ m_is_writing' = (~ m_is_closed /\ rest # <<>>)
       /\ batch' \in [items : Nat, bytes : Nat]
       /\ m_is_writing' => /\ batch'.items \in 1..Len(rest)
                           /\ batch'.bytes = BytesOf(rest)[batch'.items]
                           /\ batch'.items > 1 => batch'.bytes <= MaxBatchBytes
    BY <1>1, <1>5, DrainEffect
<1>14. BatchIsQueuePrefix' /\ QueueIsDrained'
    BY <1>1, <1>13 DEF BatchIsQueuePrefix, QueueIsDrained
<1>15. QueueTypes'
  <2>1. m_is_writing' \in BOOLEAN
      BY <1>13, Zenon
  <2>2. m_backpressure' \in BOOLEAN
      BY <1>1 DEF StaysPaused
  <2> QED
      BY <2>1, <2>2, <1>1, <1>5, <1>10, <1>13 DEF QueueTypes
<1> QED
    BY <1>11, <1>12, <1>14, <1>15 DEF QueueInv

(***************************************************************************)
(* The rest of the invariant, step by step.                                *)
(***************************************************************************)
\* The parts of SingleFlight, for use one at a time.
OneEach(op) == AtMostOne(strand, op) /\ ~ (op \in pending /\ Has(strand, op))

LEMMA FlightParts ==
    SingleFlight <=>
        /\ OneEach("reader") /\ OneEach("heartbeat") /\ OneEach("write")
        /\ (reader # "done") <=> Outstanding("reader")
        /\ (heartbeat # "done") <=> Outstanding("heartbeat")
        /\ m_is_writing <=> Outstanding("write")
  BY DEF SingleFlight, OneEach, Operations

\* While a session is open and paused a write is in flight.
LEMMA PausedIsWriting ==
    ASSUME QueueTypes, QueueInv, ~ m_is_closed, m_backpressure
    PROVE  m_is_writing
<1>1. m_pending_bytes > LowWater /\ LowWater \in Nat /\ m_pending_bytes \in Nat
    BY LimitsAssumption DEF LimitsAssumption, QueueInv, WaterMarks, QueueTypes
<1>2. m_pending_bytes = QueueBytes(m_write_queue)
    BY DEF QueueInv, BytesAccounted
<1>3. QueueBytes(<<>>) = 0
  <2>1. <<>> \in Seq(Nat) /\ Len(<<>>) = 0
      OBVIOUS
  <2> QED
      BY <2>1, BytesOfNat DEF QueueBytes
<1>4. m_write_queue # <<>>
    BY <1>1, <1>2, <1>3
<1> QED
    BY <1>4 DEF QueueInv, QueueIsDrained

LEMMA TypeParts ==
    TypeOK <=>
        /\ m_is_closed \in BOOLEAN /\ stopping \in BOOLEAN
        /\ strand \in Seq(Tasks)
        /\ pending \subseteq Operations /\ cancelled \subseteq pending
        /\ sock \in {"open", "closed"}
        /\ QueueTypes
        /\ reader \in {"start", "parked", "header", "body", "handler", "done"}
        /\ heartbeat \in {"start", "interval", "grace", "done"}
        /\ idle \in {"fresh", "soft", "hard"}
  BY DEF TypeOK, QueueTypes

\* A step of ReadLoop.
LEMMA ReaderInvariance == ASSUME IInv, ReaderStep PROVE IInv'
<1>1. /\ TypeOK /\ SingleFlight /\ ShutdownIsPosted /\ QueueInv /\ QueueTypes
      /\ strand \in Seq(Tasks) /\ m_is_closed \in BOOLEAN /\ sock \in {"open", "closed"}
      /\ pending \subseteq Operations /\ cancelled \subseteq pending
    BY TypeParts DEF IInv
<1>2. /\ stopping' = stopping /\ sock' = sock /\ cancelled' = cancelled
      /\ heartbeat' = heartbeat /\ UNCHANGED queueVars
      /\ m_is_writing' = m_is_writing /\ m_backpressure' = m_backpressure
    BY DEF ReaderStep, ReaderFrame, queueVars
<1>3. "reader" \in Operations /\ "heartbeat" \in Operations /\ "write" \in Operations
    BY DEF Operations
<1>4. /\ strand' \in Seq(Tasks) /\ Has(strand, "reader")
      /\ AtMostOne(strand, "reader") => ~ Has(strand', "reader")
      /\ \A op \in Operations : op # "reader" => (Has(strand', op) <=> Has(strand, op))
      /\ \A op \in Operations : AtMostOne(strand, op) => AtMostOne(strand', op)
      /\ m_is_closed' \in BOOLEAN /\ (m_is_closed => m_is_closed')
      /\ ShutdownIsPosted'
  <2>1. RunsAndKeeps("reader") \/ RunsAndCloses("reader")
      BY DEF ReaderStep
  <2> QED
      BY <1>1, <1>2, <1>3, <2>1, HandlerEffect
<1>5. \/ /\ reader' \in {"parked", "header", "body", "handler"}
         /\ pending' = pending \union {"reader"}
      \/ reader' = "done" /\ pending' = pending
    BY DEF ReaderStep, Goes, Started
<1>6. QueueTypes' /\ QueueInv'
    BY <1>1, <1>2, <1>4, QueueUntouched
<1>7. TypeOK'
  <2>1. pending' \subseteq Operations /\ cancelled' \subseteq pending'
      BY <1>1, <1>2, <1>3, <1>5
  <2>2. idle' \in {"fresh", "soft", "hard"}
      BY DEF ReaderStep
  <2> QED
      BY <1>1, <1>2, <1>4, <1>5, <1>6, <2>1, <2>2, TypeParts DEF TypeOK, QueueTypes
<1>8. SingleFlight'
  <2>1. /\ OneEach("reader") /\ OneEach("heartbeat") /\ OneEach("write")
        /\ (heartbeat # "done") <=> Outstanding("heartbeat")
        /\ m_is_writing <=> Outstanding("write")
      BY <1>1, FlightParts
  <2>2. "reader" \notin pending
      BY <2>1, <1>4 DEF OneEach
  <2>3. OneEach("reader")' /\ ((reader' # "done") <=> Outstanding("reader")')
      BY <2>1, <2>2, <1>3, <1>4, <1>5 DEF OneEach, Outstanding
  <2>4. /\ OneEach("heartbeat")' /\ OneEach("write")'
        /\ (heartbeat' # "done") <=> Outstanding("heartbeat")'
        /\ m_is_writing' <=> Outstanding("write")'
      BY <2>1, <1>2, <1>3, <1>4, <1>5 DEF OneEach, Outstanding
  <2> QED
      BY <2>3, <2>4 DEF SingleFlight, OneEach, Operations
<1>9. ParkedReaderIsWoken'
  <2> SUFFICES ASSUME reader' = "parked", ~ m_is_closed'
               PROVE  m_backpressure' /\ m_is_writing'
      BY DEF ParkedReaderIsWoken
  <2>1. m_backpressure /\ ~ m_is_closed
      BY <1>4 DEF ReaderStep
  <2>2. m_is_writing
      BY <2>1, <1>1, PausedIsWriting
  <2> QED
      BY <2>1, <2>2, <1>2
<1> QED
    BY <1>4, <1>6, <1>7, <1>8, <1>9 DEF IInv

\* A step of Heartbeat.
LEMMA HeartbeatInvariance == ASSUME IInv, HeartbeatStep PROVE IInv'
<1>1. /\ TypeOK /\ SingleFlight /\ ShutdownIsPosted /\ QueueInv /\ QueueTypes
      /\ strand \in Seq(Tasks) /\ m_is_closed \in BOOLEAN /\ sock \in {"open", "closed"}
      /\ pending \subseteq Operations /\ cancelled \subseteq pending
    BY TypeParts DEF IInv
<1>2. /\ stopping' = stopping /\ sock' = sock /\ cancelled' = cancelled
      /\ reader' = reader /\ idle' = idle /\ UNCHANGED queueVars
      /\ m_is_writing' = m_is_writing /\ m_backpressure' = m_backpressure
    BY DEF HeartbeatStep, HeartbeatFrame, queueVars
<1>3. "reader" \in Operations /\ "heartbeat" \in Operations /\ "write" \in Operations
    BY DEF Operations
<1>4. /\ strand' \in Seq(Tasks) /\ Has(strand, "heartbeat")
      /\ AtMostOne(strand, "heartbeat") => ~ Has(strand', "heartbeat")
      /\ \A op \in Operations : op # "heartbeat" => (Has(strand', op) <=> Has(strand, op))
      /\ \A op \in Operations : AtMostOne(strand, op) => AtMostOne(strand', op)
      /\ m_is_closed' \in BOOLEAN /\ (m_is_closed => m_is_closed')
      /\ ShutdownIsPosted'
  <2>1. RunsAndKeeps("heartbeat") \/ RunsAndCloses("heartbeat")
      BY DEF HeartbeatStep
  <2> QED
      BY <1>1, <1>2, <1>3, <2>1, HandlerEffect
<1>5. \/ heartbeat' \in {"interval", "grace"} /\ pending' = pending \union {"heartbeat"}
      \/ heartbeat' = "done" /\ pending' = pending
    BY DEF HeartbeatStep, Goes, Started
<1>6. QueueTypes' /\ QueueInv'
    BY <1>1, <1>2, <1>4, QueueUntouched
<1>7. TypeOK'
  <2>1. pending' \subseteq Operations /\ cancelled' \subseteq pending'
      BY <1>1, <1>2, <1>3, <1>5
  <2> QED
      BY <1>1, <1>2, <1>4, <1>5, <1>6, <2>1 DEF TypeOK, QueueTypes
<1>8. SingleFlight'
  <2>1. /\ OneEach("reader") /\ OneEach("heartbeat") /\ OneEach("write")
        /\ (reader # "done") <=> Outstanding("reader")
        /\ m_is_writing <=> Outstanding("write")
      BY <1>1, FlightParts
  <2>2. "heartbeat" \notin pending
      BY <2>1, <1>4 DEF OneEach
  <2>3. OneEach("heartbeat")' /\ ((heartbeat' # "done") <=> Outstanding("heartbeat")')
      BY <2>1, <2>2, <1>3, <1>4, <1>5 DEF OneEach, Outstanding
  <2>4. /\ OneEach("reader")' /\ OneEach("write")'
        /\ (reader' # "done") <=> Outstanding("reader")'
        /\ m_is_writing' <=> Outstanding("write")'
      BY <2>1, <1>2, <1>3, <1>4, <1>5 DEF OneEach, Outstanding
  <2> QED
      BY <2>3, <2>4 DEF SingleFlight, OneEach, Operations
<1>9. ParkedReaderIsWoken'
  <2>1. "reader" \in pending' => "reader" \in pending
      BY <1>5
  <2>2. ParkedReaderIsWoken
      BY DEF IInv
  <2> QED
      BY <2>1, <2>2, <1>2, <1>4 DEF ParkedReaderIsWoken
<1> QED
    BY <1>4, <1>6, <1>7, <1>8, <1>9 DEF IInv

\* The posted half of SendFrame.
LEMMA SendInvariance == ASSUME IInv, SendFrame PROVE IInv'
<1>1. /\ TypeOK /\ SingleFlight /\ ShutdownIsPosted /\ QueueInv /\ QueueTypes
      /\ strand \in Seq(Tasks) /\ m_is_closed \in BOOLEAN /\ sock \in {"open", "closed"}
      /\ pending \subseteq Operations /\ cancelled \subseteq pending
      /\ ParkedReaderIsWoken
    BY TypeParts DEF IInv
<1>2. /\ sock' = sock /\ cancelled' = cancelled
      /\ reader' = reader /\ heartbeat' = heartbeat /\ idle' = idle
    BY DEF SendFrame, SendDropped, SendOversized, SendOverCap, SendQueued
<1>3. /\ "reader" \in Operations /\ "heartbeat" \in Operations /\ "write" \in Operations
      /\ \A op \in Operations : op # "send" /\ op # "close"
    BY DEF Operations
<1>4. /\ OneEach("reader") /\ OneEach("heartbeat") /\ OneEach("write")
      /\ (reader # "done") <=> Outstanding("reader")
      /\ (heartbeat # "done") <=> Outstanding("heartbeat")
      /\ m_is_writing <=> Outstanding("write")
    BY <1>1, FlightParts
<1>5. CASE SendDropped \/ SendOversized \/ SendOverCap
  <2>1. \/ (RunsAndKeeps("send") \/ RunsAndCloses("send")) /\ stopping' = stopping
        \/ ~ m_is_closed /\ Runs("send", <<>>) /\ m_is_closed' = TRUE /\ stopping' = TRUE
    <3>1. CASE SendDropped
        BY <3>1 DEF SendDropped, RunsAndKeeps, closeVars
    <3>2. CASE SendOversized \/ SendOverCap
        BY <3>2 DEF SendOversized, SendOverCap, SendShutsDown, RunsAndCloses, ShutdownPosts
    <3> QED
        BY <1>5, <3>1, <3>2
  <2>2. pending' = pending /\ m_is_writing' = m_is_writing
        /\ m_backpressure' = m_backpressure
      BY <1>5 DEF SendDropped, SendOversized, SendOverCap, queueVars, closeVars
  <2>3. /\ strand' \in Seq(Tasks)
        /\ \A op \in Operations : op # "send" => (Has(strand', op) <=> Has(strand, op))
        /\ \A op \in Operations : AtMostOne(strand, op) => AtMostOne(strand', op)
        /\ m_is_closed' \in BOOLEAN /\ (m_is_closed => m_is_closed')
        /\ stopping' \in BOOLEAN
        /\ ShutdownIsPosted'
    <3>1. CASE (RunsAndKeeps("send") \/ RunsAndCloses("send")) /\ stopping' = stopping
      <4>1. stopping' \in BOOLEAN
          BY <3>1, <1>1 DEF TypeOK
      <4> QED
          BY <1>1, <1>2, <3>1, <4>1, HandlerEffect
    <3>2. CASE /\ ~ m_is_closed /\ Runs("send", <<>>)
               /\ m_is_closed' = TRUE /\ stopping' = TRUE
      <4>1. /\ strand' \in Seq(Tasks)
            /\ \A w : w # "send" => (Has(strand', w) <=> Has(strand, w))
            /\ \A w : AtMostOne(strand, w) => AtMostOne(strand', w)
          BY <1>1, <3>2, RunsNone
      <4>2. /\ ~ stopping /\ ~ Has(strand, "close") /\ sock # "closed"
            /\ AtMostOne(strand, "close")
          BY <1>1, <3>2 DEF ShutdownIsPosted
      <4>3. ~ Has(strand', "close") /\ AtMostOne(strand', "close") /\ sock' = "open"
          BY <4>1, <4>2, <1>1, <1>2
      <4>4. ShutdownIsPosted'
          BY <4>3, <3>2 DEF ShutdownIsPosted
      <4> QED
          BY <3>2, <4>1, <4>4
    <3> QED
        BY <2>1, <3>1, <3>2
  <2>4. QueueTypes' /\ QueueInv'
    <3>1. CASE SendDropped \/ SendOversized
      <4>1. UNCHANGED queueVars
          BY <3>1 DEF SendDropped, SendOversized
      <4> QED
          BY <4>1, <1>1, <2>3, QueueUntouched
    <3>2. CASE SendOverCap
        BY <3>2, <1>1, QueueOverCap
    <3> QED
        BY <1>5, <3>1, <3>2
  <2>5. TypeOK'
      BY <1>1, <1>2, <2>2, <2>3, <2>4 DEF TypeOK, QueueTypes
  <2>6. SingleFlight'
    <3>1. /\ OneEach("reader")' /\ OneEach("heartbeat")' /\ OneEach("write")'
          /\ (reader' # "done") <=> Outstanding("reader")'
          /\ (heartbeat' # "done") <=> Outstanding("heartbeat")'
          /\ m_is_writing' <=> Outstanding("write")'
        BY <1>2, <1>3, <1>4, <2>2, <2>3 DEF OneEach, Outstanding
    <3> QED
        BY <3>1 DEF SingleFlight, OneEach, Operations
  <2>7. ParkedReaderIsWoken'
      BY <1>1, <1>2, <2>2, <2>3 DEF ParkedReaderIsWoken
  <2> QED
      BY <2>3, <2>4, <2>5, <2>6, <2>7 DEF IInv
<1>6. CASE SendQueued
  <2>1. /\ Runs("send", <<>>) /\ ~ m_is_closed
        /\ \/ m_is_closed' = m_is_closed /\ stopping' = stopping
           \/ m_is_closed' = TRUE /\ stopping' = TRUE
        /\ DrainIfIdle(m_write_queue', m_is_closed')
      BY <1>6 DEF SendQueued, closeVars
  <2>2. /\ strand' \in Seq(Tasks)
        /\ \A w : w # "send" => (Has(strand', w) <=> Has(strand, w))
        /\ \A w : AtMostOne(strand, w) => AtMostOne(strand', w)
      BY <1>1, <2>1, RunsNone
  <2>3. QueueTypes' /\ QueueInv'
      BY <1>1, <1>6, QueueQueued
  <2>4. m_is_closed' \in BOOLEAN /\ stopping' \in BOOLEAN
      BY <1>1, <2>1 DEF TypeOK
  <2>5. \/ /\ m_is_writing' = m_is_writing /\ pending' = pending
        \/ /\ ~ m_is_writing
           /\ pending' = IF m_is_writing' THEN pending \union {"write"} ELSE pending
    <3>1. CASE m_is_writing
        BY <3>1, <2>1 DEF DrainIfIdle
    <3>2. CASE ~ m_is_writing
      <4>1. Drain(m_write_queue', m_is_closed') /\ m_write_queue' \in Seq(Nat)
          BY <3>2, <2>1, <2>3 DEF DrainIfIdle, QueueTypes
      <4> QED
          BY <3>2, <4>1, <2>4, DrainEffect
    <3> QED
        BY <3>1, <3>2
  <2>6. m_is_writing' \in BOOLEAN
      BY <2>3 DEF QueueTypes
  <2>7. TypeOK'
    <3>1. pending' \subseteq Operations /\ cancelled' \subseteq pending'
        BY <1>1, <1>2, <1>3, <2>5
    <3> QED
        BY <3>1, <1>1, <1>2, <2>2, <2>3, <2>4 DEF TypeOK, QueueTypes
  <2>8. SingleFlight'
    <3>1. /\ OneEach("reader")' /\ OneEach("heartbeat")'
          /\ (reader' # "done") <=> Outstanding("reader")'
          /\ (heartbeat' # "done") <=> Outstanding("heartbeat")'
        BY <1>2, <1>3, <1>4, <2>2, <2>5 DEF OneEach, Outstanding
    <3>2. OneEach("write")' /\ (m_is_writing' <=> Outstanding("write")')
        BY <1>3, <1>4, <2>2, <2>5, <2>6 DEF OneEach, Outstanding
    <3> QED
        BY <3>1, <3>2 DEF SingleFlight, OneEach, Operations
  <2>9. ShutdownIsPosted'
    <3>1. ~ stopping /\ ~ Has(strand, "close") /\ sock # "closed" /\ AtMostOne(strand, "close")
        BY <1>1, <2>1 DEF ShutdownIsPosted
    <3>2. ~ Has(strand', "close") /\ AtMostOne(strand', "close") /\ sock' = "open"
        BY <3>1, <2>2, <1>1, <1>2
    <3> QED
        BY <3>1, <3>2, <2>1 DEF ShutdownIsPosted
  <2>10. ParkedReaderIsWoken'
    <3> SUFFICES ASSUME reader' = "parked", "reader" \in pending', ~ m_is_closed',
                        "reader" \notin cancelled'
                 PROVE  m_backpressure' /\ m_is_writing'
        BY DEF ParkedReaderIsWoken
    <3>1. "reader" \in pending
        BY <2>5
    <3>2. m_backpressure /\ m_is_writing
        BY <3>1, <1>1, <1>2, <2>1 DEF ParkedReaderIsWoken
    <3>3. m_backpressure'
        BY <3>2, <1>6 DEF SendQueued
    <3> QED
        BY <3>2, <3>3, <2>5
  <2> QED
      BY <2>3, <2>7, <2>8, <2>9, <2>10 DEF IInv
<1> QED
    BY <1>5, <1>6 DEF SendFrame

\* The completion handler of a write.
LEMMA WriteInvariance == ASSUME IInv, WriteFailed \/ WriteDone PROVE IInv'
<1>1. /\ TypeOK /\ SingleFlight /\ ShutdownIsPosted /\ QueueInv /\ QueueTypes
      /\ strand \in Seq(Tasks) /\ m_is_closed \in BOOLEAN /\ sock \in {"open", "closed"}
      /\ pending \subseteq Operations /\ cancelled \subseteq pending
      /\ ParkedReaderIsWoken
    BY TypeParts DEF IInv
<1>2. /\ sock' = sock /\ stopping' = stopping
      /\ reader' = reader /\ heartbeat' = heartbeat /\ idle' = idle
    BY DEF WriteFailed, WriteDone, closeVars
<1>3. /\ "reader" \in Operations /\ "heartbeat" \in Operations /\ "write" \in Operations
    BY DEF Operations
<1>4. /\ OneEach("reader") /\ OneEach("heartbeat") /\ OneEach("write")
      /\ (reader # "done") <=> Outstanding("reader")
      /\ (heartbeat # "done") <=> Outstanding("heartbeat")
      /\ m_is_writing <=> Outstanding("write")
    BY <1>1, FlightParts
<1>5. RunsAndKeeps("write") \/ RunsAndCloses("write")
    BY DEF WriteFailed, WriteDone, RunsAndKeeps, RunsAndCloses, closeVars
<1>6. /\ strand' \in Seq(Tasks) /\ Has(strand, "write")
      /\ AtMostOne(strand, "write") => ~ Has(strand', "write")
      /\ \A op \in Operations : op # "write" => (Has(strand', op) <=> Has(strand, op))
      /\ \A op \in Operations : AtMostOne(strand, op) => AtMostOne(strand', op)
      /\ m_is_closed' \in BOOLEAN /\ (m_is_closed => m_is_closed')
      /\ ShutdownIsPosted'
    BY <1>1, <1>2, <1>3, <1>5, HandlerEffect
<1>7. m_is_writing /\ "write" \notin pending /\ ~ Has(strand', "write")
    BY <1>4, <1>6 DEF OneEach, Outstanding
<1>8. QueueTypes' /\ QueueInv'
    BY <1>1, <1>7, QueueWriteFailed, QueueWriteDone
<1>9. pending' = IF m_is_writing' THEN pending \union {"write"} ELSE pending
  <2>1. CASE WriteFailed
      BY <2>1 DEF WriteFailed
  <2>2. CASE WriteDone
    <3>1. Drain(m_write_queue', m_is_closed) /\ m_write_queue' \in Seq(Nat)
        BY <2>2, <1>8 DEF WriteDone, QueueTypes
    <3> QED
        BY <3>1, <1>1, DrainEffect
  <2> QED
      BY <2>1, <2>2
<1>10. m_is_writing' \in BOOLEAN
    BY <1>8 DEF QueueTypes
<1>11. cancelled' = cancelled \/ (reader = "parked"
                                  /\ cancelled' = cancelled \union (pending \intersect {"reader"}))
    BY DEF WriteFailed, WriteDone, WakeReader
<1>12. TypeOK'
  <2>1. pending' \subseteq Operations /\ cancelled' \subseteq pending'
      BY <1>1, <1>3, <1>9, <1>11
  <2> QED
      BY <2>1, <1>1, <1>2, <1>6, <1>8 DEF TypeOK, QueueTypes
<1>13. SingleFlight'
  <2>1. /\ OneEach("reader")' /\ OneEach("heartbeat")'
        /\ (reader' # "done") <=> Outstanding("reader")'
        /\ (heartbeat' # "done") <=> Outstanding("heartbeat")'
      BY <1>2, <1>3, <1>4, <1>6, <1>9 DEF OneEach, Outstanding
  <2>2. OneEach("write")' /\ (m_is_writing' <=> Outstanding("write")')
      BY <1>3, <1>4, <1>6, <1>7, <1>9, <1>10 DEF OneEach, Outstanding
  <2> QED
      BY <2>1, <2>2 DEF SingleFlight, OneEach, Operations
<1>14. ParkedReaderIsWoken'
  <2> SUFFICES ASSUME reader' = "parked", "reader" \in pending', ~ m_is_closed',
                      "reader" \notin cancelled'
               PROVE  m_backpressure' /\ m_is_writing'
      BY DEF ParkedReaderIsWoken
  <2>1. WriteDone /\ reader = "parked" /\ "reader" \in pending /\ ~ m_is_closed
      BY <1>2, <1>6, <1>9 DEF WriteFailed
  <2>2. m_backpressure
      BY <2>1, <1>1, <1>11 DEF ParkedReaderIsWoken
  <2>3. m_backpressure'
      BY <2>1, <2>2 DEF WriteDone, WakeReader
  <2>4. m_is_writing'
    <3>1. m_pending_bytes' > LowWater
        BY <2>3, <1>8 DEF QueueInv, WaterMarks
    <3>2. LowWater \in Nat /\ m_pending_bytes' \in Nat
        BY <1>8, LimitsAssumption DEF LimitsAssumption, QueueTypes
    <3>3. m_pending_bytes' = QueueBytes(m_write_queue')
        BY <1>8 DEF QueueInv, BytesAccounted
    <3>4. QueueBytes(<<>>) = 0
      <4>1. <<>> \in Seq(Nat) /\ Len(<<>>) = 0
          OBVIOUS
      <4> QED
          BY <4>1, BytesOfNat DEF QueueBytes
    <3>5. m_write_queue' # <<>>
        BY <3>1, <3>2, <3>3, <3>4
    <3> QED
        BY <3>5, <1>8 DEF QueueInv, QueueIsDrained
  <2> QED
      BY <2>3, <2>4
<1> QED
    BY <1>6, <1>8, <1>12, <1>13, <1>14 DEF IInv

\* The posted half of Shutdown.
LEMMA CloseInvariance == ASSUME IInv, CloseSocket PROVE IInv'
<1>1. /\ TypeOK /\ SingleFlight /\ ShutdownIsPosted /\ QueueInv /\ QueueTypes
      /\ strand \in Seq(Tasks)
      /\ pending \subseteq Operations /\ cancelled \subseteq pending
    BY TypeParts DEF IInv
<1>2. /\ Runs("close", <<>>)
      /\ cancelled' = cancelled \union Cancellable /\ sock' = "closed"
      /\ m_is_closed' = m_is_closed /\ stopping' = stopping /\ pending' = pending
      /\ reader' = reader /\ heartbeat' = heartbeat /\ idle' = idle /\ UNCHANGED queueVars
    BY DEF CloseSocket, closeVars
<1>3. /\ strand' \in Seq(Tasks) /\ Has(strand, "close")
      /\ AtMostOne(strand, "close") => ~ Has(strand', "close")
      /\ \A w : w # "close" => (Has(strand', w) <=> Has(strand, w))
      /\ \A w : AtMostOne(strand, w) => AtMostOne(strand', w)
    BY <1>1, <1>2, RunsNone
<1>4. m_is_closed /\ ~ stopping
    BY <1>1, <1>3 DEF ShutdownIsPosted
<1>5. ShutdownIsPosted'
    BY <1>1, <1>2, <1>3, <1>4 DEF ShutdownIsPosted
<1>6. QueueTypes' /\ QueueInv'
    BY <1>1, <1>2, QueueUntouched
<1>7. TypeOK'
  <2>1. cancelled' \subseteq pending'
      BY <1>1, <1>2 DEF Cancellable
  <2> QED
      BY <2>1, <1>1, <1>2, <1>3, <1>6 DEF TypeOK, QueueTypes
<1>8. SingleFlight'
  <2>1. \A op \in Operations : op # "close"
      BY DEF Operations
  <2> QED
      BY <2>1, <1>1, <1>2, <1>3 DEF SingleFlight, Outstanding, queueVars, Operations
<1>9. ParkedReaderIsWoken'
    BY <1>2, <1>4 DEF ParkedReaderIsWoken
<1> QED
    BY <1>5, <1>6, <1>7, <1>8, <1>9 DEF IInv

\* The call of Shutdown on a server thread: the exchange and then the post.
LEMMA ServerInvariance ==
    ASSUME IInv, ServerShutdown \/ ServerShutdownPosts PROVE IInv'
<1>1. /\ TypeOK /\ SingleFlight /\ ShutdownIsPosted /\ QueueInv /\ QueueTypes
      /\ strand \in Seq(Tasks) /\ sock \in {"open", "closed"}
    BY TypeParts DEF IInv
<1>2. /\ pending' = pending /\ cancelled' = cancelled /\ sock' = sock
      /\ reader' = reader /\ heartbeat' = heartbeat /\ idle' = idle /\ UNCHANGED queueVars
      /\ m_is_closed' = TRUE
      /\ m_is_closed => m_is_closed'
  <2>1. stopping => m_is_closed = TRUE
      BY <1>1 DEF ShutdownIsPosted, TypeOK
  <2> QED
      BY <2>1 DEF ServerShutdown, ServerShutdownPosts
<1>3. QueueTypes' /\ QueueInv'
    BY <1>1, <1>2, QueueUntouched
<1>4. /\ strand' \in Seq(Tasks) /\ stopping' \in BOOLEAN
      /\ \A w : w # "close" => (Has(strand', w) <=> Has(strand, w))
      /\ \A w : w # "close" => (AtMostOne(strand, w) => AtMostOne(strand', w))
      /\ ShutdownIsPosted'
  <2>1. CASE ServerShutdown
    <3>1. strand' = strand /\ stopping' = TRUE /\ ~ m_is_closed
        BY <2>1 DEF ServerShutdown
    <3>2. ~ Has(strand, "close") /\ AtMostOne(strand, "close") /\ sock = "open"
        BY <3>1, <1>1 DEF ShutdownIsPosted
    <3>3. ShutdownIsPosted'
        BY <3>1, <3>2, <1>2 DEF ShutdownIsPosted
    <3> QED
        BY <3>1, <3>3, <1>1
  <2>2. CASE ServerShutdownPosts
    <3>1. strand' = Append(strand, CloseTask) /\ stopping' = FALSE /\ stopping
        BY <2>2 DEF ServerShutdownPosts
    <3>2. ~ Has(strand, "close") /\ AtMostOne(strand, "close") /\ sock = "open"
        BY <3>1, <1>1 DEF ShutdownIsPosted
    <3>3. CloseTask \in Tasks /\ CloseTask.run = "close"
        BY DEF Tasks, CloseTask
    <3>4. /\ strand' \in Seq(Tasks)
          /\ \A w : Has(strand', w) <=> (Has(strand, w) \/ CloseTask.run = w)
          /\ \A w : AtMostOne(strand, w) /\ (CloseTask.run = w => ~ Has(strand, w))
                    => AtMostOne(strand', w)
        BY <3>1, <3>3, <1>1, PostsOne
    <3>5. ShutdownIsPosted'
        BY <3>1, <3>2, <3>3, <3>4, <1>2 DEF ShutdownIsPosted
    <3> QED
        BY <3>1, <3>3, <3>4, <3>5
  <2> QED
      BY <2>1, <2>2
<1>5. TypeOK'
    BY <1>1, <1>2, <1>3, <1>4 DEF TypeOK, QueueTypes
<1>6. SingleFlight'
  <2>1. \A op \in Operations : op # "close"
      BY DEF Operations
  <2> QED
      BY <2>1, <1>1, <1>2, <1>4 DEF SingleFlight, Outstanding, queueVars, Operations
<1>7. ParkedReaderIsWoken'
    BY <1>2 DEF ParkedReaderIsWoken
<1> QED
    BY <1>3, <1>4, <1>5, <1>6, <1>7 DEF IInv

\* Asio completes an operation.
LEMMA CompleteInvariance ==
    ASSUME IInv, NEW op \in Operations, NEW ok \in BOOLEAN, Complete(op, ok) PROVE IInv'
<1>1. /\ TypeOK /\ SingleFlight /\ ShutdownIsPosted /\ QueueInv /\ QueueTypes
      /\ strand \in Seq(Tasks)
      /\ pending \subseteq Operations /\ cancelled \subseteq pending
      /\ ParkedReaderIsWoken
    BY TypeParts DEF IInv
<1>2. /\ op \in pending /\ pending' = pending \ {op} /\ cancelled' = cancelled \ {op}
      /\ strand' = Append(strand, OpTask(op, ok))
      /\ m_is_closed' = m_is_closed /\ stopping' = stopping /\ sock' = sock
      /\ reader' = reader /\ heartbeat' = heartbeat /\ idle' = idle /\ UNCHANGED queueVars
    BY DEF Complete, closeVars
<1>3. OpTask(op, ok) \in Tasks /\ OpTask(op, ok).run = op /\ op # "close"
    BY DEF Tasks, OpTask, Operations
<1>4. /\ strand' \in Seq(Tasks)
      /\ \A w : Has(strand', w) <=> (Has(strand, w) \/ op = w)
      /\ \A w : AtMostOne(strand, w) /\ (op = w => ~ Has(strand, w)) => AtMostOne(strand', w)
    BY <1>1, <1>2, <1>3, PostsOne
<1>5. ~ Has(strand, op)
    BY <1>1, <1>2 DEF SingleFlight
<1>6. QueueTypes' /\ QueueInv'
    BY <1>1, <1>2, QueueUntouched
<1>7. TypeOK'
  <2>1. pending' \subseteq Operations /\ cancelled' \subseteq pending'
      BY <1>1, <1>2
  <2> QED
      BY <2>1, <1>1, <1>2, <1>4, <1>6 DEF TypeOK, QueueTypes
<1>8. SingleFlight'
  <2>1. \A p \in Operations : Outstanding(p)' <=> Outstanding(p)
      BY <1>2, <1>4 DEF Outstanding
  <2>2. \A p \in Operations : AtMostOne(strand', p) /\ ~ (p \in pending' /\ Has(strand', p))
      BY <1>1, <1>2, <1>4, <1>5 DEF SingleFlight
  <2> QED
      BY <2>1, <2>2, <1>1, <1>2 DEF SingleFlight, queueVars, Operations
<1>9. ShutdownIsPosted'
    BY <1>1, <1>2, <1>3, <1>4 DEF ShutdownIsPosted
<1>10. ParkedReaderIsWoken'
    BY <1>1, <1>2 DEF ParkedReaderIsWoken, queueVars
<1> QED
    BY <1>6, <1>7, <1>8, <1>9, <1>10 DEF IInv

(***************************************************************************)
(* The inductive step and the theorems.                                    *)
(***************************************************************************)
LEMMA Initially == ASSUME Init PROVE IInv
<1>1. OpTask("reader", TRUE) \in Tasks /\ OpTask("heartbeat", TRUE) \in Tasks
    BY DEF Tasks, OpTask, Operations
<1>2. /\ Len(strand) = 2
      /\ strand[1] = OpTask("reader", TRUE) /\ strand[2] = OpTask("heartbeat", TRUE)
      /\ strand \in Seq(Tasks)
  <2> DEFINE a == OpTask("reader", TRUE)
             b == OpTask("heartbeat", TRUE)
  <2>1. strand = <<a, b>> /\ a \in Tasks /\ b \in Tasks
      BY <1>1 DEF Init
  <2> HIDE DEF a, b
  <2>2. Len(strand) = 2 /\ strand[1] = a /\ strand[2] = b /\ strand \in Seq(Tasks)
      BY <2>1
  <2> QED
      BY <2>2 DEF a, b
<1>3. strand[1].run = "reader" /\ strand[2].run = "heartbeat"
    BY <1>2 DEF OpTask
<1>4. 1..Len(strand) = {1, 2}
    BY <1>2
<1>5. /\ \A w : AtMostOne(strand, w)
      /\ Has(strand, "reader") /\ Has(strand, "heartbeat")
      /\ ~ Has(strand, "write") /\ ~ Has(strand, "close")
    BY <1>3, <1>4 DEF AtMostOne, Has
<1>6. TypeOK
  <2>1. m_is_closed \in BOOLEAN /\ stopping \in BOOLEAN
        /\ m_is_writing \in BOOLEAN /\ m_backpressure \in BOOLEAN
      BY Zenon DEF Init
  <2>2. batch \in [items : Nat, bytes : Nat] /\ m_write_queue \in Seq(Nat)
        /\ m_pending_bytes \in Nat
      BY DEF Init, NoBatch
  <2>3. /\ pending = {} /\ cancelled = {} /\ sock = "open"
        /\ reader = "start" /\ heartbeat = "start" /\ idle = "fresh"
      BY DEF Init
  <2> QED
      BY <1>2, <2>1, <2>2, <2>3 DEF TypeOK
<1>7. SingleFlight
    BY <1>5 DEF Init, SingleFlight, Outstanding, Operations
<1>8. ShutdownIsPosted
    BY <1>5 DEF Init, ShutdownIsPosted
<1>9. QueueInv
  <2>1. QueueBytes(<<>>) = 0
    <3>1. <<>> \in Seq(Nat) /\ Len(<<>>) = 0
        OBVIOUS
    <3> QED
        BY <3>1, BytesOfNat DEF QueueBytes
  <2>2. HighWater \in Nat /\ HardCap \in Nat
      BY LimitsAssumption DEF LimitsAssumption
  <2> QED
      BY <2>1, <2>2 DEF Init, QueueInv, BytesCovered, BytesAccounted, BatchIsQueuePrefix,
                        WaterMarks, QueueIsDrained
<1>10. ParkedReaderIsWoken
    BY DEF Init, ParkedReaderIsWoken
<1> QED
    BY <1>6, <1>7, <1>8, <1>9, <1>10 DEF IInv

\* Every step of the session preserves the invariant.
LEMMA Stepwise == ASSUME IInv, [Next]_vars PROVE IInv'
<1>1. TypeOK
    BY DEF IInv
<1>2. CASE SendFrame
    BY <1>2, SendInvariance
<1>3. CASE WriteFailed \/ WriteDone
    BY <1>3, WriteInvariance
<1>4. CASE ReadLoop
    BY <1>1, <1>4, ReaderShape, ReaderInvariance
<1>5. CASE Heartbeat
    BY <1>1, <1>5, HeartbeatShape, HeartbeatInvariance
<1>6. CASE CloseSocket
    BY <1>6, CloseInvariance
<1>7. CASE ServerShutdown \/ ServerShutdownPosts
    BY <1>7, ServerInvariance
<1>8. ASSUME NEW op \in Operations, NEW ok \in BOOLEAN, Complete(op, ok) PROVE IInv'
    BY <1>8, CompleteInvariance
<1>9. CASE TimePasses
  <2>1. UNCHANGED <<closeVars, strand, pending, cancelled, sock, queueVars, reader, heartbeat>>
        /\ idle' \in {"fresh", "soft", "hard"}
      BY <1>9 DEF TimePasses
  <2> QED
      BY <2>1 DEF IInv, TypeOK, SingleFlight, Outstanding, ShutdownIsPosted, QueueInv,
                  BytesCovered, BytesAccounted, BatchIsQueuePrefix, WaterMarks, QueueIsDrained,
                  ParkedReaderIsWoken, closeVars, queueVars
<1>10. CASE UNCHANGED vars
    BY <1>10 DEF vars, IInv, TypeOK, SingleFlight, Outstanding, ShutdownIsPosted, QueueInv,
                 BytesCovered, BytesAccounted, BatchIsQueuePrefix, WaterMarks, QueueIsDrained,
                 ParkedReaderIsWoken
<1> QED
    BY <1>2, <1>3, <1>4, <1>5, <1>6, <1>7, <1>8, <1>9, <1>10 DEF Next, StrandRuns

\* Every reachable state of a session satisfies the invariant.
THEOREM Invariance == Spec => []IInv
<1>1. Init => IInv
    BY Initially
<1>2. IInv /\ [Next]_vars => IInv'
    BY Stepwise
<1> QED
    BY <1>1, <1>2, PTL DEF Spec

\* Every variable keeps its type: in particular the subtraction in the
\* completion of a write never takes m_pending_bytes, a size_t, below zero.
THEOREM TypeCorrect == Spec => []TypeOK
<1>1. IInv => TypeOK
    BY DEF IInv
<1> QED
    BY <1>1, Invariance, PTL

\* Each coroutine is suspended in one place and one write is in flight at most.
THEOREM OneInFlight == Spec => []SingleFlight
<1>1. IInv => SingleFlight
    BY DEF IInv
<1> QED
    BY <1>1, Invariance, PTL

\* The byte count of an open session is that of its queue, for any limits.
THEOREM Accounting == Spec => []BytesAccounted
<1>1. IInv => BytesAccounted
    BY DEF IInv, QueueInv
<1> QED
    BY <1>1, Invariance, PTL

\* The completion of a write pops what the write was given, and no more.
THEOREM BatchPrefix == Spec => []BatchIsQueuePrefix
<1>1. IInv => BatchIsQueuePrefix
    BY DEF IInv, QueueInv
<1> QED
    BY <1>1, Invariance, PTL

\* Backpressure follows the two water marks, whatever they are.
THEOREM Hysteresis == Spec => []WaterMarks
<1>1. IInv => WaterMarks
    BY DEF IInv, QueueInv
<1> QED
    BY <1>1, Invariance, PTL

\* No reader of an open session waits for a wake-up that cannot come.
THEOREM NoLostWakeUp == Spec => []ParkedReaderIsWoken
<1>1. IInv => ParkedReaderIsWoken
    BY DEF IInv
<1> QED
    BY <1>1, Invariance, PTL

\* No frame of an open session waits for a write that nobody started.
THEOREM NothingStuck == Spec => []QueueIsDrained
<1>1. IInv => QueueIsDrained
    BY DEF IInv, QueueInv
<1> QED
    BY <1>1, Invariance, PTL

\* The exchange makes Shutdown take effect once, whoever calls it.
THEOREM ShutdownOnce == Spec => []ShutdownIsPosted
<1>1. IInv => ShutdownIsPosted
    BY DEF IInv
<1> QED
    BY <1>1, Invariance, PTL

(***************************************************************************)
(* What a step may not do.                                                 *)
(***************************************************************************)
\* The queue grows at its end, shrinks at its front, and only while open grows.
LEMMA QueueStep ==
    ASSUME IInv, Next, ~ UNCHANGED m_write_queue
    PROVE  SendQueued \/ WriteDone
<1>1. TypeOK
    BY DEF IInv
<1>2. ReadLoop => UNCHANGED m_write_queue
    BY <1>1, ReaderShape DEF ReaderStep, ReaderFrame, queueVars
<1>3. Heartbeat => UNCHANGED m_write_queue
    BY <1>1, HeartbeatShape DEF HeartbeatStep, HeartbeatFrame, queueVars
<1>4. SendFrame => UNCHANGED m_write_queue \/ SendQueued
    BY DEF SendFrame, SendDropped, SendOversized, SendOverCap, queueVars
<1>5. /\ WriteFailed => UNCHANGED m_write_queue
      /\ CloseSocket => UNCHANGED m_write_queue
      /\ ServerShutdown => UNCHANGED m_write_queue
      /\ ServerShutdownPosts => UNCHANGED m_write_queue
      /\ TimePasses => UNCHANGED m_write_queue
      /\ \A op \in Operations, ok \in BOOLEAN : Complete(op, ok) => UNCHANGED m_write_queue
    BY DEF WriteFailed, CloseSocket, ServerShutdown, ServerShutdownPosts, TimePasses, Complete,
           queueVars
<1> QED
    BY <1>2, <1>3, <1>4, <1>5 DEF Next, StrandRuns

\* What a completed write leaves of the queue, and what it took.
LEMMA WriteTakesPrefix ==
    ASSUME IInv, WriteDone
    PROVE  /\ Has(strand, "write")
           /\ Len(m_write_queue') <= Len(m_write_queue)
           /\ m_write_queue = SubSeq(m_write_queue, 1, batch.items) \o m_write_queue'
<1>1. Has(strand, "write")
    BY RunsNone DEF WriteDone, IInv, TypeOK
<1>2. m_is_writing
    BY <1>1 DEF IInv, SingleFlight, Outstanding
<1> DEFINE q == m_write_queue
           n == batch.items
<1>3. n \in 1..Len(q) /\ q \in Seq(Nat) /\ Len(q) \in Nat
    BY <1>2 DEF IInv, TypeOK, QueueInv, BatchIsQueuePrefix
<1>4. m_write_queue' = SubSeq(q, n + 1, Len(q))
    BY DEF WriteDone
<1> HIDE DEF q, n
<1>5. Len(SubSeq(q, n + 1, Len(q))) = Len(q) - n
    BY <1>3
<1>6. q = SubSeq(q, 1, n) \o SubSeq(q, n + 1, Len(q))
    BY <1>3
<1>7. Len(q) - n <= Len(q)
    BY <1>3
<1>8. Len(m_write_queue') <= Len(q) /\ q = SubSeq(q, 1, n) \o m_write_queue'
    BY <1>4, <1>5, <1>6, <1>7
<1> QED
    BY <1>1, <1>8 DEF q, n

\* Frames leave in the order in which they were queued.
THEOREM Fifo == Spec => QueueIsFifo
<1>1. ASSUME IInv, [Next]_vars
      PROVE  \/ /\ Len(m_write_queue') >= Len(m_write_queue)
                /\ SubSeq(m_write_queue', 1, Len(m_write_queue)) = m_write_queue
             \/ /\ Has(strand, "write")
                /\ m_write_queue = SubSeq(m_write_queue, 1, batch.items) \o m_write_queue'
  <2>1. m_write_queue \in Seq(Nat) /\ strand \in Seq(Tasks)
      BY <1>1 DEF IInv, TypeOK
  <2>2. CASE UNCHANGED m_write_queue
      BY <2>1, <2>2
  <2>3. CASE SendQueued
    <3>1. Head(strand).body \in Nat
        BY <2>1, <2>3, TakeTask DEF SendQueued, Runs, Tasks
    <3>2. m_write_queue' = Append(m_write_queue, Head(strand).body)
        BY <2>3 DEF SendQueued, Enqueued
    <3> QED
        BY <2>1, <3>1, <3>2
  <2>4. CASE WriteDone
      BY <2>4, <1>1, WriteTakesPrefix
  <2> QED
      BY <1>1, <2>2, <2>3, <2>4, QueueStep DEF vars
<1> QED
    BY <1>1, Invariance, PTL DEF Spec, QueueIsFifo

\* Once the flag is set no frame is queued and no write is started.
THEOREM ClosedIsSilent == Spec => NothingSentOnceClosed
<1>1. ASSUME IInv, [Next]_vars, m_is_closed
      PROVE  /\ Len(m_write_queue') <= Len(m_write_queue)
             /\ ~ ("write" \notin pending /\ "write" \in pending')
  <2>1. m_write_queue \in Seq(Nat) /\ Len(m_write_queue) \in Nat /\ TypeOK
      BY <1>1 DEF IInv, TypeOK
  <2>2. Len(m_write_queue') <= Len(m_write_queue)
    <3>1. CASE UNCHANGED m_write_queue
        BY <2>1, <3>1
    <3>2. ~ SendQueued
        BY <1>1 DEF SendQueued
    <3> QED
        BY <1>1, <3>1, <3>2, QueueStep, WriteTakesPrefix DEF vars
  <2>3. "write" \in pending' => "write" \in pending
    <3>1. CASE ReadLoop
        BY <2>1, <3>1, ReaderShape DEF ReaderStep, Goes, Started
    <3>2. CASE Heartbeat
        BY <2>1, <3>2, HeartbeatShape DEF HeartbeatStep, Goes, Started
    <3>3. CASE SendFrame
        BY <1>1, <3>3 DEF SendFrame, SendDropped, SendOversized, SendOverCap, SendQueued
    <3>4. CASE WriteDone
        BY <1>1, <3>4 DEF WriteDone, Drain, NoWrite
    <3>5. CASE WriteFailed \/ CloseSocket \/ ServerShutdown \/ ServerShutdownPosts \/ TimePasses
               \/ \E op \in Operations, ok \in BOOLEAN : Complete(op, ok)
        BY <3>5 DEF WriteFailed, CloseSocket, ServerShutdown, ServerShutdownPosts, TimePasses,
                    Complete
    <3>6. CASE UNCHANGED vars
        BY <3>6 DEF vars
    <3> QED
        BY <1>1, <3>1, <3>2, <3>3, <3>4, <3>5, <3>6 DEF Next, StrandRuns
  <2> QED
      BY <2>2, <2>3
<1> QED
    BY <1>1, Invariance, PTL DEF Spec, NothingSentOnceClosed

(***************************************************************************)
(* The safety half of the refinement.                                      *)
(***************************************************************************)
PhaseStep == [Lifecycle!Next]_(Lifecycle!vars)

\* A step that neither starts nor ends a write nor closes the socket.
LEMMA QuietPhase ==
    ASSUME IInv, sock' = sock, m_is_closed' \in BOOLEAN, m_is_closed => m_is_closed',
           "write" \in pending' <=> "write" \in pending, m_is_closed => ~ Quiescent
    PROVE  PhaseStep
<1>1. /\ m_is_closed \in BOOLEAN /\ sock \in {"open", "closed"}
      /\ ~ m_is_closed => sock = "open"
    BY DEF IInv, TypeOK, ShutdownIsPosted
<1>2. ("write" \in pending)' = ("write" \in pending)
    OBVIOUS
<1>3. CASE ~ m_is_closed /\ ~ m_is_closed'
  <2>1. phase = "open" /\ phase' = "open"
      BY <1>3 DEF phase
  <2> QED
      BY <2>1, <1>2 DEF PhaseStep, Lifecycle!vars
<1>4. CASE ~ m_is_closed /\ m_is_closed'
  <2>1. phase = "open" /\ phase' = "closing"
      BY <1>1, <1>4 DEF phase
  <2> QED
      BY <2>1, <1>2 DEF PhaseStep, Lifecycle!Next, Lifecycle!Shutdown
<1>5. CASE m_is_closed /\ sock = "open"
  <2>1. phase = "closing" /\ phase' = "closing"
      BY <1>5 DEF phase
  <2> QED
      BY <2>1, <1>2 DEF PhaseStep, Lifecycle!vars
<1>6. CASE m_is_closed /\ sock = "closed"
  <2>1. phase = "closed" /\ phase' = IF Quiescent' THEN "released" ELSE "closed"
      BY <1>6 DEF phase
  <2>2. Quiescent' => "write" \notin pending'
      BY DEF Quiescent
  <2>3. CASE Quiescent'
    <3>1. phase' = "released" /\ "write" \notin pending
        BY <2>1, <2>2, <2>3
    <3> QED
        BY <2>1, <3>1, <1>2 DEF PhaseStep, Lifecycle!Next, Lifecycle!Release
  <2>4. CASE ~ Quiescent'
      BY <2>1, <2>4, <1>2 DEF PhaseStep, Lifecycle!vars
  <2> QED
      BY <2>3, <2>4
<1> QED
    BY <1>1, <1>3, <1>4, <1>5, <1>6

\* A write is started only by an open session that stays open.
LEMMA StartPhase ==
    ASSUME ~ m_is_closed, ~ m_is_closed', "write" \notin pending, "write" \in pending'
    PROVE  PhaseStep
<1>1. phase = "open" /\ phase' = "open"
    BY DEF phase
<1>2. ("write" \in pending) = FALSE /\ ("write" \in pending)' = TRUE
    OBVIOUS
<1> QED
    BY <1>1, <1>2 DEF PhaseStep, Lifecycle!Next, Lifecycle!StartWrite

\* The sends and the completion of a write.
LEMMA SendPhase == ASSUME IInv, SendFrame \/ WriteFailed \/ WriteDone PROVE PhaseStep
<1>1. /\ strand # <<>> /\ sock' = sock
    BY DEF SendFrame, SendDropped, SendOversized, SendOverCap, SendShutsDown, SendQueued,
           WriteFailed, WriteDone, Runs
<1>2. m_is_closed => ~ Quiescent
    BY <1>1 DEF Quiescent
<1>3. IInv'
    BY SendInvariance, WriteInvariance
<1>4. m_is_closed' \in BOOLEAN /\ (m_is_closed => m_is_closed')
  <2>1. m_is_closed' \in BOOLEAN
      BY <1>3 DEF IInv, TypeOK
  <2>2. m_is_closed => m_is_closed'
      BY DEF SendFrame, SendDropped, SendOversized, SendOverCap, SendShutsDown, SendQueued,
             WriteFailed, WriteDone, closeVars
  <2> QED
      BY <2>1, <2>2
<1>5. \/ pending' = pending
      \/ pending' = pending \union {"write"} /\ ~ m_is_closed /\ ~ m_is_closed'
  <2>1. CASE SendDropped \/ SendOversized \/ SendOverCap \/ WriteFailed
      BY <2>1 DEF SendDropped, SendOversized, SendOverCap, WriteFailed
  <2>2. CASE SendQueued
      BY <2>2 DEF SendQueued, DrainIfIdle, Drain, StartWrite, NoWrite, Started
  <2>3. CASE WriteDone
      BY <2>3 DEF WriteDone, Drain, StartWrite, NoWrite, Started, closeVars
  <2> QED
      BY <2>1, <2>2, <2>3 DEF SendFrame
<1>6. CASE "write" \in pending' <=> "write" \in pending
    BY <1>1, <1>2, <1>4, <1>6, QuietPhase
<1>7. CASE ~ ("write" \in pending' <=> "write" \in pending)
    BY <1>5, <1>7, StartPhase
<1> QED
    BY <1>6, <1>7

\* The two coroutines.
LEMMA CoroutinePhase == ASSUME IInv, ReadLoop \/ Heartbeat PROVE PhaseStep
<1>1. ReaderStep \/ HeartbeatStep
    BY ReaderShape, HeartbeatShape DEF IInv
<1>2. IInv'
    BY <1>1, ReaderInvariance, HeartbeatInvariance
<1>3. strand # <<>>
    BY <1>1 DEF ReaderStep, HeartbeatStep, RunsAndKeeps, RunsAndCloses, Runs
<1>4. sock' = sock
    BY <1>1 DEF ReaderStep, HeartbeatStep, ReaderFrame, HeartbeatFrame
<1>5. m_is_closed => m_is_closed'
    BY <1>1 DEF ReaderStep, HeartbeatStep, RunsAndKeeps, RunsAndCloses
<1>6. "write" \in pending' <=> "write" \in pending
    BY <1>1 DEF ReaderStep, HeartbeatStep, Goes, Started
<1>7. m_is_closed' \in BOOLEAN /\ (m_is_closed => ~ Quiescent)
    BY <1>2, <1>3 DEF IInv, TypeOK, Quiescent
<1> QED
    BY <1>4, <1>5, <1>6, <1>7, QuietPhase

\* The posted half of Shutdown.
LEMMA ClosePhase == ASSUME IInv, CloseSocket PROVE PhaseStep
<1>1. /\ strand \in Seq(Tasks) /\ Runs("close", <<>>)
      /\ sock' = "closed" /\ m_is_closed' = m_is_closed /\ pending' = pending
    BY DEF IInv, TypeOK, CloseSocket, closeVars
<1>2. Has(strand, "close")
    BY <1>1, RunsNone
<1>3. m_is_closed /\ sock = "open"
    BY <1>2 DEF IInv, ShutdownIsPosted
<1>4. phase = "closing" /\ phase' = IF Quiescent' THEN "released" ELSE "closed"
    BY <1>1, <1>3 DEF phase
<1>5. Quiescent' => "write" \notin pending
    BY <1>1 DEF Quiescent
<1>6. phase' \in IF "write" \in pending THEN {"closed"} ELSE {"closed", "released"}
    BY <1>4, <1>5
<1> QED
    BY <1>1, <1>4, <1>6 DEF PhaseStep, Lifecycle!Next, Lifecycle!CloseSocket

\* Asio completes an operation.
LEMMA CompletePhase ==
    ASSUME IInv, NEW op \in Operations, NEW ok \in BOOLEAN, Complete(op, ok) PROVE PhaseStep
<1>1. /\ op \in pending /\ pending' = pending \ {op}
      /\ sock' = sock /\ m_is_closed' = m_is_closed
      /\ strand' = Append(strand, OpTask(op, ok))
    BY DEF Complete, closeVars
<1>2. ~ Quiescent
    BY <1>1 DEF Quiescent
<1>3. m_is_closed' \in BOOLEAN
    BY <1>1 DEF IInv, TypeOK
<1>4. CASE op # "write"
    BY <1>1, <1>2, <1>3, <1>4, QuietPhase
<1>5. CASE op = "write"
  <2>1. strand' # <<>>
    <3>1. OpTask(op, ok) \in Tasks /\ strand \in Seq(Tasks)
        BY DEF IInv, TypeOK, Tasks, OpTask, Operations
    <3>2. Has(strand', OpTask(op, ok).run)
        BY <3>1, <1>1, PostsOne
    <3> QED
        BY <3>2 DEF Has
  <2>2. ~ Quiescent'
      BY <2>1 DEF Quiescent
  <2>3. phase' = phase
      BY <1>1, <1>2, <2>2 DEF phase
  <2>4. ("write" \in pending) = TRUE /\ ("write" \in pending)' = FALSE
      BY <1>1, <1>5
  <2> QED
      BY <2>3, <2>4 DEF PhaseStep, Lifecycle!Next, Lifecycle!EndWrite
<1> QED
    BY <1>4, <1>5

\* Every behaviour of a session is one of SessionLifecycle, but for liveness.
THEOREM RefinesLifecycle == Spec => Lifecycle!Init /\ [][Lifecycle!Next]_(Lifecycle!vars)
<1>1. Init => Lifecycle!Init
    BY DEF Init, Lifecycle!Init, phase
<1>2. ASSUME IInv, [Next]_vars PROVE PhaseStep
  <2>1. CASE SendFrame \/ WriteFailed \/ WriteDone
      BY <1>2, <2>1, SendPhase
  <2>2. CASE ReadLoop \/ Heartbeat
      BY <1>2, <2>2, CoroutinePhase
  <2>3. CASE CloseSocket
      BY <1>2, <2>3, ClosePhase
  <2>4. CASE ServerShutdown
    <3>1. /\ ~ m_is_closed /\ m_is_closed' = TRUE /\ sock' = sock /\ pending' = pending
        BY <2>4 DEF ServerShutdown
    <3> QED
        BY <3>1, <1>2, QuietPhase
  <2>5. CASE ServerShutdownPosts
    <3>1. /\ stopping /\ m_is_closed' = m_is_closed /\ sock' = sock /\ pending' = pending
        BY <2>5 DEF ServerShutdownPosts
    <3>2. ~ Quiescent /\ m_is_closed \in BOOLEAN
        BY <3>1, <1>2 DEF Quiescent, IInv, TypeOK
    <3> QED
        BY <3>1, <3>2, <1>2, QuietPhase
  <2>6. ASSUME NEW op \in Operations, NEW ok \in BOOLEAN, Complete(op, ok) PROVE PhaseStep
      BY <1>2, <2>6, CompletePhase
  <2>7. CASE TimePasses \/ UNCHANGED vars
    <3>1. /\ m_is_closed' = m_is_closed /\ stopping' = stopping /\ strand' = strand
          /\ pending' = pending /\ sock' = sock /\ reader' = reader /\ heartbeat' = heartbeat
        BY <2>7 DEF TimePasses, vars, closeVars
    <3>2. phase' = phase /\ ("write" \in pending)' = ("write" \in pending)
        BY <3>1 DEF phase, Quiescent
    <3> QED
        BY <3>2 DEF PhaseStep, Lifecycle!vars
  <2> QED
      BY <1>2, <2>1, <2>2, <2>3, <2>4, <2>5, <2>6, <2>7 DEF Next, StrandRuns
<1>3. IInv /\ [Next]_vars => [Lifecycle!Next]_(Lifecycle!vars)
    BY <1>2 DEF PhaseStep
<1> QED
    BY <1>1, <1>3, Invariance, PTL DEF Spec
=============================================================================
