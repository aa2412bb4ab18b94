------------------------- MODULE RotatingSinkProofs -------------------------
(***************************************************************************)
(* Proofs about RotatingSink, for every number of files, every message size *)
(* and any number of failures.  OldestFirst is not inductive by itself: a   *)
(* step that appends needs the message at hand to be later than everything  *)
(* on disk (AtHandIsLast).  SizeBounded needs that the estimate             *)
(* current_size_ errs on one side only (Estimate).  LossesEndWithFault,     *)
(* which speaks of the end of a call, needs what holds in the middle of one *)
(* (CallInv): a call that has come to its write without a failed open has   *)
(* the file open, and below the oldest file a rotation moves each file to a *)
(* free place, so that no step but a failure loses more than the oldest     *)
(* file (Gapless).  KeepsLatest needs, besides, where the one missing file  *)
(* of a rotation is (Numbered), and that each file was full for the message *)
(* that follows it, which may be two places below or still at hand (Full).  *)
(***************************************************************************)
EXTENDS RotatingSink, SumsProofs

DiskOK ==
    /\ files \in [Names -> Seq(Chunks)]
    /\ present \subseteq Names
    /\ index \in Names
    /\ msg \in Chunks

\* Nothing on disk is later than the message at hand, and while a call is
\* under way everything is earlier.
AtHandIsLast ==
    \A n \in Names : \A k \in DOMAIN files[n] :
      /\ files[n][k].id <= msg.id
      /\ step # "ready" => files[n][k].id < msg.id

OrderInv == DiskOK /\ AtHandIsLast /\ OldestFirst

\* A call that has begun, and what a failed open does not undo.
CallInv ==
    /\ faults \in Nat /\ intact \in Nat /\ fd \in BOOLEAN
    /\ step \in {"ready", "check", "write", "rotate", "salvage"}
    /\ faults = 0 => intact = 0 /\ ~openFailed
    /\ ~openFailed =>
         /\ step = "salvage" => intact = msg.id + 1
         /\ step = "ready" \/ step = "check" \/ step = "write" => fd /\ 0 \in present
         /\ step = "rotate" /\ index < MaxFiles => index \notin present
         /\ \A n \in Names : files[n] # <<>> => n \in present

\* What is kept of the messages since the last failure ends with the last one
\* written, without a gap.
Written == IF step = "ready" THEN msg.id ELSE msg.id - 1

Gapless ==
    /\ step = "ready" /\ msg.id > 0 /\ msg.id >= intact => msg.id \in Kept
    /\ \A id \in Kept : id >= intact => id .. Written \subseteq Kept
    /\ MaxFiles \notin present => \A id \in 1 .. Written : id >= intact => id \in Kept

GapInv == ~openFailed => Gapless

\* The estimate is never below what the base file holds of whole messages, and
\* when the message comes to be written there is room for it, or nothing else.
Estimate ==
    /\ current_size \in Nat /\ new_size \in Nat
    /\ msg.whole /\ (step # "ready" => msg.size > 0)
    /\ WholeSize(files[0]) <= current_size
    /\ step = "check" => current_size + msg.size <= new_size
    /\ step = "write" => /\ WholeSize(files[0]) + msg.size <= new_size
                         /\ files[0] = <<>> \/ new_size <= MaxSize

Sized(file) ==
    /\ \A k \in DOMAIN file : file[k].size > 0
    /\ Cardinality(WholeChunks(file)) <= 1 \/ WholeSize(file) <= MaxSize

SizeInv == Estimate /\ \A n \in Names : Sized(files[n])

\* As long as nothing has failed:
\* the files are numbered from 0 on, but for the place of the next one to move;
Numbered ==
    \E p \in Names :
      \/ present = 0 .. p /\ (step # "rotate" \/ p < index \/ index = MaxFiles)
      \/ present = (0 .. p) \ {index} /\ step = "rotate" /\ index < p

\* current_size_ is exact, and a rotation has its reason;
Exact ==
    /\ step # "rotate" => fd
    /\ step # "salvage"
    /\ step \in {"ready", "check"} => current_size = FileSize(files[0])
    /\ step = "check" => new_size = current_size + msg.size /\ new_size > MaxSize
    /\ step = "write" => new_size = FileSize(files[0]) + msg.size
    /\ step = "rotate" /\ 0 \in present => FileSize(files[0]) + msg.size > MaxSize

\* a file was left when the message that now begins the next one was too long;
FollowerIn(fs, last, n) ==
    IF fs[n - 1] # <<>> THEN fs[n - 1][1].size
    ELSE IF n = 1 THEN last.size
    ELSE fs[n - 2][1].size

Full ==
    /\ \A n \in Names : files[n] # <<>> => n \in present
    /\ \A n \in present \ {0} : files[n] # <<>> /\ FileSize(files[n]) + FollowerIn(files, msg, n) > MaxSize
    /\ step = "ready" /\ msg.id > 0 => files[0] # <<>>
    /\ step = "check" \/ step = "ready" => files[0] # <<>> \/ 1 \notin present
    /\ step = "rotate" /\ 0 \in present => files[0] # <<>>

Latest    == Numbered /\ Exact /\ Full
LatestInv == faults = 0 => Latest

-----------------------------------------------------------------------------
(* Order                                                                    *)

\* Emptying files keeps the order of what is left.
LEMMA EmptyingKeepsOrder ==
    ASSUME OrderInv, NEW x \in Names,
           files' = [files EXCEPT ![x] = <<>>],
           present' \subseteq Names, index' \in Names, msg' = msg,
           step' = "ready" \/ step # "ready"
    PROVE  OrderInv'
<1> USE DEF OrderInv, DiskOK
<1>1. DiskOK'
  <2>1. <<>> \in Seq(Chunks)
    OBVIOUS
  <2> QED
    BY <2>1
<1>2. \A n \in Names : \A k \in DOMAIN files'[n] :
         k \in DOMAIN files[n] /\ files'[n][k] = files[n][k]
  <2> SUFFICES ASSUME NEW n \in Names, NEW k \in DOMAIN files'[n]
               PROVE  k \in DOMAIN files[n] /\ files'[n][k] = files[n][k]
    OBVIOUS
  <2>1. CASE n = x
    <3>1. files'[n] = <<>>
      BY <2>1
    <3> QED
      BY <3>1
  <2>2. CASE n # x
    BY <2>2
  <2> QED
    BY <2>1, <2>2
<1>3. AtHandIsLast'
  <2> SUFFICES ASSUME NEW n \in Names, NEW k \in DOMAIN files'[n]
               PROVE  /\ files'[n][k].id <= msg.id
                      /\ step' # "ready" => files'[n][k].id < msg.id
    BY DEF AtHandIsLast
  <2>1. k \in DOMAIN files[n] /\ files'[n][k] = files[n][k]
    BY <1>2
  <2> QED
    BY <2>1 DEF AtHandIsLast
<1>4. OldestFirst'
  BY <1>2 DEF OldestFirst
<1> QED
  BY <1>1, <1>3, <1>4

\* A file moves to the next index, which becomes its only place.
LEMMA RenamingKeepsOrder == OrderInv /\ RenameNext => OrderInv'
<1> SUFFICES ASSUME OrderInv, RenameNext PROVE OrderInv'
  OBVIOUS
<1> USE DEF OrderInv
<1>1. index \in Names /\ index > 0 /\ index - 1 \in Names
  BY SinkAssumption DEF DiskOK, RenameNext, Names
<1>2. /\ files' = [files EXCEPT ![index] = files[index - 1], ![index - 1] = <<>>]
      /\ msg' = msg /\ step' = step /\ step = "rotate" /\ index' = index - 1
      /\ present' = (present \ {index - 1}) \cup {index}
  BY DEF RenameNext
<1>3. DiskOK'
  <2>1. <<>> \in Seq(Chunks) /\ files[index - 1] \in Seq(Chunks)
    BY <1>1 DEF DiskOK
  <2>2. files' \in [Names -> Seq(Chunks)]
    BY <1>1, <1>2, <2>1 DEF DiskOK
  <2> QED
    BY <1>1, <1>2, <2>2 DEF DiskOK
<1> DEFINE was(n) == IF n = index THEN index - 1 ELSE n
<1>4. \A n \in Names : \A k \in DOMAIN files'[n] :
         /\ n # index - 1 /\ was(n) \in Names /\ was(n) # index
         /\ k \in DOMAIN files[was(n)] /\ files'[n][k] = files[was(n)][k]
  <2> SUFFICES ASSUME NEW n \in Names, NEW k \in DOMAIN files'[n]
               PROVE  /\ n # index - 1 /\ was(n) \in Names /\ was(n) # index
                      /\ k \in DOMAIN files[was(n)] /\ files'[n][k] = files[was(n)][k]
    OBVIOUS
  <2>0. index \in Int /\ n \in Int
    BY SinkAssumption, <1>1 DEF Names
  <2>1. CASE n = index - 1
    <3>1. files'[n] = <<>>
      BY <1>1, <1>2, <2>1 DEF DiskOK
    <3> QED
      BY <3>1
  <2>2. CASE n = index
    <3>1. files'[n] = files[index - 1] /\ was(n) = index - 1
      BY <1>1, <1>2, <2>0, <2>2 DEF DiskOK
    <3> QED
      BY <1>1, <2>0, <2>2, <3>1
  <2>3. CASE n # index /\ n # index - 1
    <3>1. files'[n] = files[n] /\ was(n) = n
      BY <1>1, <1>2, <2>3 DEF DiskOK
    <3> QED
      BY <2>3, <3>1
  <2> QED
    BY <2>1, <2>2, <2>3
<1>5. \A m, n \in Names : (m < n /\ m # index - 1 /\ n # index - 1) => was(m) < was(n)
  BY SinkAssumption, <1>1 DEF Names
<1> HIDE DEF was
<1>6. AtHandIsLast'
  <2> SUFFICES ASSUME NEW n \in Names, NEW k \in DOMAIN files'[n]
               PROVE  files'[n][k].id <= msg.id /\ files'[n][k].id < msg.id
    BY <1>2 DEF AtHandIsLast
  <2>1. /\ was(n) \in Names /\ k \in DOMAIN files[was(n)]
        /\ files'[n][k] = files[was(n)][k]
    BY <1>4
  <2> QED
    BY <1>2, <2>1 DEF AtHandIsLast
<1>7. OldestFirst'
  <2>1. ASSUME NEW n \in Names, NEW j \in DOMAIN files'[n], NEW k \in DOMAIN files'[n], j < k
        PROVE  files'[n][j].id < files'[n][k].id
    <3>1. /\ was(n) \in Names /\ j \in DOMAIN files[was(n)] /\ k \in DOMAIN files[was(n)]
          /\ files'[n][j] = files[was(n)][j] /\ files'[n][k] = files[was(n)][k]
      BY <1>4
    <3> QED
      BY <2>1, <3>1 DEF OldestFirst
  <2>2. ASSUME NEW m \in Names, NEW n \in Names, m < n,
               NEW j \in DOMAIN files'[m], NEW k \in DOMAIN files'[n]
        PROVE  files'[n][k].id < files'[m][j].id
    <3>1. /\ was(m) \in Names /\ j \in DOMAIN files[was(m)] /\ files'[m][j] = files[was(m)][j]
          /\ was(n) \in Names /\ k \in DOMAIN files[was(n)] /\ files'[n][k] = files[was(n)][k]
          /\ m # index - 1 /\ n # index - 1
      BY <1>4
    <3>2. was(m) < was(n)
      BY <1>5, <2>2, <3>1
    <3> QED
      BY <3>1, <3>2 DEF OldestFirst
  <2> QED
    BY <2>1, <2>2 DEF OldestFirst
<1> QED
  BY <1>3, <1>6, <1>7

\* What is appended to the base file is the message at hand, or a part of it.
LEMMA AppendingKeepsOrder ==
    ASSUME OrderInv, step = "write", NEW c \in Chunks, c.id = msg.id,
           files' = [files EXCEPT ![0] = Append(@, c)],
           present' = present, index' = index, msg' = msg, step' = "ready"
    PROVE  OrderInv'
<1> USE DEF OrderInv
<1>1. 0 \in Names
  BY SinkAssumption DEF Names
<1>2. files[0] \in Seq(Chunks) /\ files'[0] = Append(files[0], c)
  BY <1>1 DEF DiskOK
<1>3. DiskOK'
  <2>1. Append(files[0], c) \in Seq(Chunks)
    BY <1>2
  <2> QED
    BY <1>1, <2>1 DEF DiskOK
<1>4. \A n \in Names \ {0} : files'[n] = files[n]
  BY <1>1 DEF DiskOK
<1>5. \A k \in DOMAIN files'[0] :
        /\ k \in Nat
        /\ \/ k \in DOMAIN files[0] /\ k < Len(files[0]) + 1 /\ files'[0][k] = files[0][k]
           \/ k = Len(files[0]) + 1 /\ files'[0][k] = c
  BY <1>2
<1>6. \A n \in Names : \A k \in DOMAIN files[n] : files[n][k].id < msg.id
  BY DEF AtHandIsLast
<1>7. msg.id \in Nat
  BY DEF DiskOK, Chunks
<1>8. \A n \in Names : \A k \in DOMAIN files'[n] :
         \/ n = 0 /\ k = Len(files[0]) + 1 /\ files'[n][k].id = msg.id
         \/ k \in DOMAIN files[n] /\ files'[n][k] = files[n][k] /\ (n = 0 => k < Len(files[0]) + 1)
  BY <1>4, <1>5
<1>9. AtHandIsLast'
  <2> SUFFICES ASSUME NEW n \in Names, NEW k \in DOMAIN files'[n]
               PROVE  files'[n][k].id <= msg.id
    BY DEF AtHandIsLast
  <2> QED
    BY <1>7, <1>8 DEF AtHandIsLast
<1>10. OldestFirst'
  <2>1. ASSUME NEW n \in Names, NEW j \in DOMAIN files'[n], NEW k \in DOMAIN files'[n], j < k
        PROVE  files'[n][j].id < files'[n][k].id
    <3>1. CASE n # 0
      BY <1>4, <2>1, <3>1 DEF OldestFirst
    <3>2. CASE n = 0
      <4>1. j \in DOMAIN files[0] /\ files'[0][j] = files[0][j]
        BY <1>2, <1>5, <2>1, <3>2
      <4>2. CASE k = Len(files[0]) + 1
        BY <1>1, <1>5, <1>6, <3>2, <4>1, <4>2
      <4>3. CASE k \in DOMAIN files[0] /\ files'[0][k] = files[0][k]
        BY <1>1, <2>1, <3>2, <4>1, <4>3 DEF OldestFirst
      <4> QED
        BY <1>5, <3>2, <4>2, <4>3
    <3> QED
      BY <3>1, <3>2
  <2>2. ASSUME NEW m \in Names, NEW n \in Names, m < n,
               NEW j \in DOMAIN files'[m], NEW k \in DOMAIN files'[n]
        PROVE  files'[n][k].id < files'[m][j].id
    <3>1. n # 0
      BY SinkAssumption, <2>2 DEF Names
    <3>2. k \in DOMAIN files[n] /\ files'[n][k] = files[n][k]
      BY <1>4, <3>1
    <3>3. CASE files'[m][j].id = msg.id
      BY <1>6, <3>2, <3>3
    <3>4. CASE j \in DOMAIN files[m] /\ files'[m][j] = files[m][j]
      BY <2>2, <3>2, <3>4 DEF OldestFirst
    <3> QED
      BY <1>8, <3>3, <3>4
  <2> QED
    BY <2>1, <2>2 DEF OldestFirst
<1> QED
  BY <1>3, <1>9, <1>10

\* A step that touches no file keeps the order, if a later message comes only
\* when a call begins.
LEMMA UntouchedKeepsOrder ==
    ASSUME OrderInv, files' = files, present' \subseteq Names, index' \in Names,
           \/ msg' = msg /\ (step' = "ready" \/ step # "ready")
           \/ msg' \in Chunks /\ msg'.id > msg.id
    PROVE  OrderInv'
<1> USE DEF OrderInv
<1>1. DiskOK' /\ OldestFirst'
  BY DEF DiskOK, OldestFirst
<1>2. AtHandIsLast'
  <2> SUFFICES ASSUME NEW n \in Names, NEW k \in DOMAIN files[n]
               PROVE  /\ files[n][k].id <= msg'.id
                      /\ step' # "ready" => files[n][k].id < msg'.id
    BY DEF AtHandIsLast
  <2>1. files[n] \in Seq(Chunks) /\ files[n][k] \in Chunks
    BY DEF DiskOK
  <2>2. files[n][k].id \in Nat /\ msg.id \in Nat /\ msg'.id \in Nat
    BY <1>1, <2>1 DEF DiskOK, Chunks
  <2>3. files[n][k].id <= msg.id /\ (step # "ready" => files[n][k].id < msg.id)
    BY DEF AtHandIsLast
  <2> QED
    BY <2>2, <2>3
<1> QED
  BY <1>1, <1>2

\* What a failed flush leaves of a file is its beginning, in which one chunk may
\* have become shorter.
LEMMA TornFile ==
    ASSUME NEW file \in Seq(Chunks), NEW n \in 0 .. Len(file), NEW rest \in Torn(file, n)
    PROVE  /\ rest \in Seq(Chunks)
           /\ \A k \in DOMAIN rest :
                /\ k \in DOMAIN file /\ rest[k].id = file[k].id
                /\ rest[k].whole => rest[k] = file[k]
                /\ rest[k] = file[k] \/ rest[k].size > 0
           /\ \/ rest = SubSeq(file, 1, n)
              \/ \E c \in Chunks : ~ c.whole /\ rest = Append(SubSeq(file, 1, n), c)
<1> DEFINE cut == SubSeq(file, 1, n)
<1>1. /\ cut \in Seq(Chunks) /\ Len(cut) = n /\ n \in Nat /\ Len(file) \in Nat
      /\ \A k \in 1 .. n : cut[k] = file[k] /\ k \in DOMAIN file
      /\ DOMAIN cut = 1 .. n
  OBVIOUS
<1> HIDE DEF cut
<1>2. CASE rest = cut
  BY <1>1, <1>2 DEF cut
<1>3. CASE rest # cut
  <2>1. n # Len(file)
    BY <1>3 DEF Torn, cut
  <2>2. n + 1 \in DOMAIN file /\ file[n + 1] \in Chunks
    BY <1>1, <2>1
  <2>3. PICK z \in 1 .. file[n + 1].size - 1 : rest = Append(cut, Chunk(file[n + 1].id, z, FALSE))
    BY <1>3, <2>1 DEF Torn, cut
  <2> DEFINE c == Chunk(file[n + 1].id, z, FALSE)
  <2>4. c \in Chunks /\ ~ c.whole /\ c.size > 0 /\ c.id = file[n + 1].id
    BY <2>2, <2>3 DEF Chunk, Chunks
  <2>5. rest = Append(cut, c)
    BY <2>3
  <2> HIDE DEF c
  <2>6. rest \in Seq(Chunks)
    BY <1>1, <2>4, <2>5
  <2>7. \A k \in DOMAIN rest : (k \in 1 .. n /\ rest[k] = cut[k]) \/ (k = n + 1 /\ rest[k] = c)
    BY <1>1, <2>4, <2>5
  <2>8. \A k \in DOMAIN rest :
          /\ k \in DOMAIN file /\ rest[k].id = file[k].id
          /\ rest[k].whole => rest[k] = file[k]
          /\ rest[k] = file[k] \/ rest[k].size > 0
    BY <1>1, <2>2, <2>4, <2>7
  <2> QED
    BY <2>4, <2>5, <2>6, <2>8 DEF cut
<1> QED
  BY <1>2, <1>3

\* Losing the end of the base file keeps the order of what is left.
LEMMA LosingKeepsOrder ==
    ASSUME OrderInv, LoseBuffer, present' \subseteq Names, index' \in Names, msg' = msg,
           step' = "ready"
    PROVE  OrderInv'
<1> USE DEF OrderInv
<1>1. 0 \in Names /\ files[0] \in Seq(Chunks)
  BY SinkAssumption DEF DiskOK, Names
<1>2. PICK n \in 0 .. Len(files[0]) :
        \E rest \in Torn(files[0], n) : files' = [files EXCEPT ![0] = rest]
  BY DEF LoseBuffer
<1>3. PICK rest \in Torn(files[0], n) : files' = [files EXCEPT ![0] = rest]
  BY <1>2
<1>4. /\ rest \in Seq(Chunks)
      /\ \A k \in DOMAIN rest : k \in DOMAIN files[0] /\ rest[k].id = files[0][k].id
  BY <1>1, TornFile
<1>5. DiskOK'
  BY <1>1, <1>3, <1>4 DEF DiskOK
<1>6. \A m \in Names : \A k \in DOMAIN files'[m] :
         k \in DOMAIN files[m] /\ files'[m][k].id = files[m][k].id
  <2> SUFFICES ASSUME NEW m \in Names, NEW k \in DOMAIN files'[m]
               PROVE  k \in DOMAIN files[m] /\ files'[m][k].id = files[m][k].id
    OBVIOUS
  <2>1. CASE m = 0
    <3>1. files'[m] = rest
      BY <1>1, <1>3, <2>1 DEF DiskOK
    <3> QED
      BY <1>4, <2>1, <3>1
  <2>2. CASE m # 0
    <3>1. files'[m] = files[m]
      BY <1>1, <1>3, <2>2 DEF DiskOK
    <3> QED
      BY <3>1
  <2> QED
    BY <2>1, <2>2
<1>7. AtHandIsLast'
  <2> SUFFICES ASSUME NEW m \in Names, NEW k \in DOMAIN files'[m]
               PROVE  files'[m][k].id <= msg.id
    BY DEF AtHandIsLast
  <2>1. k \in DOMAIN files[m] /\ files'[m][k].id = files[m][k].id
    BY <1>6
  <2> QED
    BY <2>1 DEF AtHandIsLast
<1>8. OldestFirst'
  BY <1>6 DEF OldestFirst
<1> QED
  BY <1>5, <1>7, <1>8

LEMMA InitOrderInv == Init => OrderInv
<1> SUFFICES ASSUME Init PROVE OrderInv
  OBVIOUS
<1>1. 0 \in Names
  BY SinkAssumption DEF Names
<1>2. msg \in Chunks /\ msg.id = 0 /\ step = "ready"
  BY DEF Init, Chunk, Chunks
<1>3. \A s \in Sizes : Chunk(0, s, TRUE) \in Chunks /\ Chunk(0, s, TRUE).id = 0
  BY SinkAssumption DEF Chunk, Chunks
<1>4. \A n \in Names :
         \/ files[n] = <<>>
         \/ n = 0 /\ \E s \in Sizes : files[n] = <<Chunk(0, s, TRUE)>>
  <2>1. CASE files = [n \in Names |-> <<>>]
    BY <2>1
  <2>2. ASSUME NEW s \in Sizes,
               files = [n \in Names |-> IF n = 0 THEN <<Chunk(0, s, TRUE)>> ELSE <<>>]
        PROVE  \A n \in Names :
                 \/ files[n] = <<>>
                 \/ n = 0 /\ \E z \in Sizes : files[n] = <<Chunk(0, z, TRUE)>>
    BY <2>2
  <2> QED
    BY <2>1, <2>2 DEF Init
<1>5. \A n \in Names : files[n] \in Seq(Chunks)
  <2> SUFFICES ASSUME NEW n \in Names PROVE files[n] \in Seq(Chunks)
    OBVIOUS
  <2>1. CASE files[n] = <<>>
    BY <2>1
  <2>2. ASSUME NEW s \in Sizes, files[n] = <<Chunk(0, s, TRUE)>>
        PROVE  files[n] \in Seq(Chunks)
    <3> DEFINE c == Chunk(0, s, TRUE)
    <3>1. c \in Chunks
      BY <1>3
    <3> HIDE DEF c
    <3>2. <<c>> \in Seq(Chunks)
      BY <3>1
    <3> QED
      BY <2>2, <3>2 DEF c
  <2> QED
    BY <1>4, <2>1, <2>2
<1>6. files \in [Names -> Seq(Chunks)]
  <2>1. files = [n \in Names |-> files[n]]
    BY DEF Init
  <2> QED
    BY <1>5, <2>1
<1>7. DiskOK
  BY <1>1, <1>2, <1>6 DEF DiskOK, Init
<1>8. \A n \in Names : \A k \in DOMAIN files[n] : n = 0 /\ k = 1 /\ files[n][k].id = 0
  <2> SUFFICES ASSUME NEW n \in Names, NEW k \in DOMAIN files[n]
               PROVE  n = 0 /\ k = 1 /\ files[n][k].id = 0
    OBVIOUS
  <2>1. files[n] # <<>>
    <3>1. ASSUME files[n] = <<>> PROVE FALSE
      BY <3>1
    <3> QED
      BY <3>1
  <2>2. PICK s \in Sizes : n = 0 /\ files[n] = <<Chunk(0, s, TRUE)>>
    BY <1>4, <2>1
  <2> DEFINE c == Chunk(0, s, TRUE)
  <2>3. c.id = 0 /\ files[n] = <<c>>
    BY <1>3, <2>2
  <2> HIDE DEF c
  <2>4. k = 1 /\ files[n][1] = c
    BY <2>3
  <2> QED
    BY <2>2, <2>3, <2>4
<1>9. AtHandIsLast
  BY <1>2, <1>8 DEF AtHandIsLast
<1>10. OldestFirst
  BY <1>8 DEF OldestFirst, Names
<1> QED
  BY <1>7, <1>9, <1>10 DEF OrderInv

LEMMA NextKeepsOrder == OrderInv /\ [Next]_vars => OrderInv'
<1> SUFFICES ASSUME OrderInv, [Next]_vars PROVE OrderInv'
  OBVIOUS
<1>0. /\ 0 \in Names /\ MaxFiles \in Names
      /\ index \in Names /\ present \subseteq Names /\ msg \in Chunks
      /\ index \in Nat
  BY SinkAssumption DEF OrderInv, DiskOK, Names
<1>1. ASSUME NEW size \in Sizes, SinkIt(size) PROVE OrderInv'
  <2>1. msg' \in Chunks /\ msg'.id > msg.id
    BY SinkAssumption, <1>0, <1>1 DEF SinkIt, Chunk, Chunks
  <2> QED
    BY <1>0, <1>1, <2>1, UntouchedKeepsOrder DEF SinkIt, disk
<1>2. CASE CheckThrows
  <2>1. CASE fd
    BY <1>0, <1>2, <2>1, LosingKeepsOrder DEF CheckThrows
  <2>2. CASE ~fd
    BY <1>0, <1>2, <2>2, UntouchedKeepsOrder DEF CheckThrows
  <2> QED
    BY <2>1, <2>2
<1>3. CASE CheckSize
  BY <1>0, <1>3, UntouchedKeepsOrder DEF CheckSize, disk
<1>4. CASE WriteMessage
  <2>1. CASE fd
    BY <1>0, <1>4, <2>1, AppendingKeepsOrder DEF WriteMessage
  <2>2. CASE ~fd
    BY <1>0, <1>4, <2>2, UntouchedKeepsOrder DEF WriteMessage
  <2> QED
    BY <2>1, <2>2
<1>5. CASE WriteFails
  <2>1. CASE LoseBuffer
    BY <1>0, <1>5, <2>1, LosingKeepsOrder DEF WriteFails
  <2>2. ASSUME NEW k \in 1 .. msg.size - 1,
               files' = [files EXCEPT ![0] = Append(@, Chunk(msg.id, k, FALSE))]
        PROVE  OrderInv'
    <3>1. Chunk(msg.id, k, FALSE) \in Chunks /\ Chunk(msg.id, k, FALSE).id = msg.id
      BY <1>0 DEF Chunk, Chunks
    <3> HIDE DEF Chunk
    <3> QED
      BY <1>5, <2>2, <3>1, AppendingKeepsOrder DEF WriteFails
  <2> QED
    BY <1>5, <2>1, <2>2 DEF WriteFails
<1>6. CASE SkipMissing
  <2>1. index' \in Names
    BY <1>0, <1>6, SinkAssumption DEF SkipMissing, Names
  <2> QED
    BY <1>0, <1>6, <2>1, UntouchedKeepsOrder DEF SkipMissing, disk
<1>7. CASE RenameNext
  BY <1>7, RenamingKeepsOrder
<1>8. CASE RenameFails
  <2>1. CASE UNCHANGED disk
    BY <1>0, <1>8, <2>1, UntouchedKeepsOrder DEF RenameFails, disk
  <2>2. CASE files' = [files EXCEPT ![index] = <<>>] /\ present' = present \ {index}
    BY <1>0, <1>8, <2>2, EmptyingKeepsOrder DEF RenameFails
  <2> QED
    BY <1>8, <2>1, <2>2 DEF RenameFails
<1>9. CASE Salvage
  BY <1>0, <1>9, EmptyingKeepsOrder DEF Salvage, Reopened
<1>10. CASE Reopen
  BY <1>0, <1>10, EmptyingKeepsOrder DEF Reopen, Reopened
<1>11. CASE ReopenFails
  <2>1. CASE UNCHANGED disk
    BY <1>0, <1>11, <2>1, UntouchedKeepsOrder DEF ReopenFails, disk
  <2>2. CASE files' = [files EXCEPT ![0] = <<>>] /\ present' = present \cup {0}
    BY <1>0, <1>11, <2>2, EmptyingKeepsOrder DEF ReopenFails
  <2> QED
    BY <1>11, <2>1, <2>2 DEF ReopenFails, NotReopened
<1>12. CASE Flush
  BY <1>0, <1>12, UntouchedKeepsOrder DEF Flush, disk
<1>13. CASE FlushFails
  BY <1>0, <1>13, LosingKeepsOrder DEF FlushFails
<1>14. CASE UNCHANGED vars
  BY <1>0, <1>14, UntouchedKeepsOrder DEF vars, OrderInv, DiskOK, AtHandIsLast, OldestFirst
<1> QED
  BY <1>1, <1>2, <1>3, <1>4, <1>5, <1>6, <1>7, <1>8, <1>9, <1>10, <1>11, <1>12, <1>13, <1>14
  DEF Next, Rotate

\* The files hold the messages in the order they were logged, whatever the disk
\* refuses and wherever the process stops (rotating_file_sink::rotate_).
THEOREM FilesAreOrdered == Spec => []OldestFirst
<1>1. OrderInv => OldestFirst
  BY DEF OrderInv
<1> QED
  BY InitOrderInv, NextKeepsOrder, <1>1, PTL DEF Spec

-----------------------------------------------------------------------------
(* Sizes                                                                    *)

ChunkSizes(file)  == [k \in 1 .. Len(file) |-> file[k].size]
WholeSizes(file)  == [k \in 1 .. Len(file) |-> IF file[k].whole THEN file[k].size ELSE 0]

LEMMA SizesAreSeqs ==
    ASSUME NEW file \in Seq(Chunks)
    PROVE  /\ Len(file) \in Nat
           /\ ChunkSizes(file) \in Seq(Nat) /\ Len(ChunkSizes(file)) = Len(file)
           /\ \A k \in 1 .. Len(file) : ChunkSizes(file)[k] = file[k].size
           /\ WholeSizes(file) \in Seq(Nat) /\ Len(WholeSizes(file)) = Len(file)
           /\ \A k \in 1 .. Len(file) :
                WholeSizes(file)[k] = IF file[k].whole THEN file[k].size ELSE 0
<1>1. \A k \in 1 .. Len(file) : file[k] \in Chunks
  OBVIOUS
<1>2. \A k \in 1 .. Len(file) : file[k].size \in Nat
  BY <1>1 DEF Chunks
<1>3. \A k \in 1 .. Len(file) : (IF file[k].whole THEN file[k].size ELSE 0) \in Nat
  BY <1>2
<1>4. Len(file) \in Nat
  OBVIOUS
<1>5. ChunkSizes(file) \in Seq(Nat) /\ Len(ChunkSizes(file)) = Len(file)
  BY <1>2, <1>4 DEF ChunkSizes
<1>6. WholeSizes(file) \in Seq(Nat) /\ Len(WholeSizes(file)) = Len(file)
  BY <1>3, <1>4 DEF WholeSizes
<1> QED
  BY <1>4, <1>5, <1>6 DEF ChunkSizes, WholeSizes

LEMMA SizesAreNat ==
    ASSUME NEW file \in Seq(Chunks)
    PROVE  FileSize(file) \in Nat /\ WholeSize(file) \in Nat
<1>1. FileSize(file) = Total(ChunkSizes(file)) /\ WholeSize(file) = Total(WholeSizes(file))
  BY DEF FileSize, WholeSize, ChunkSizes, WholeSizes
<1> QED
  BY <1>1, SizesAreSeqs, TotalSteps

\* An empty file.
LEMMA EmptySizes ==
    /\ FileSize(<<>>) = 0 /\ WholeSize(<<>>) = 0
    /\ WholeChunks(<<>>) = {} /\ Cardinality(WholeChunks(<<>>)) = 0
<1> DEFINE e == <<>>
<1>1. e \in Seq(Chunks) /\ Len(e) = 0 /\ DOMAIN e = {}
  OBVIOUS
<1> HIDE DEF e
<1>2. FileSize(e) = Total(ChunkSizes(e)) /\ WholeSize(e) = Total(WholeSizes(e))
  BY DEF FileSize, WholeSize, ChunkSizes, WholeSizes
<1>3. FileSize(e) = 0 /\ WholeSize(e) = 0
  BY <1>1, <1>2, SizesAreSeqs, TotalSteps
<1>4. WholeChunks(e) = {}
  BY <1>1 DEF WholeChunks
<1> QED
  BY <1>3, <1>4, FS_EmptySet DEF e

\* One more chunk.
LEMMA AppendSizes ==
    ASSUME NEW file \in Seq(Chunks), NEW c \in Chunks
    PROVE  /\ FileSize(Append(file, c)) = FileSize(file) + c.size
           /\ c.whole => WholeSize(Append(file, c)) = WholeSize(file) + c.size
           /\ ~ c.whole => /\ WholeSize(Append(file, c)) = WholeSize(file)
                           /\ WholeChunks(Append(file, c)) = WholeChunks(file)
           /\ file = <<>> => Cardinality(WholeChunks(Append(file, c))) <= 1
<1> DEFINE more == Append(file, c)
           n == Len(file)
<1>1. /\ more \in Seq(Chunks) /\ Len(more) = n + 1 /\ n \in Nat /\ more[n + 1] = c
      /\ \A k \in 1 .. n : more[k] = file[k]
      /\ DOMAIN more = 1 .. (n + 1) /\ DOMAIN file = 1 .. n
  OBVIOUS
<1> HIDE DEF more
<1>2. /\ FileSize(file) = Total(ChunkSizes(file)) /\ WholeSize(file) = Total(WholeSizes(file))
      /\ FileSize(more) = Total(ChunkSizes(more)) /\ WholeSize(more) = Total(WholeSizes(more))
  BY DEF FileSize, WholeSize, ChunkSizes, WholeSizes
<1>3. /\ ChunkSizes(file) \in Seq(Nat) /\ Len(ChunkSizes(file)) = n
      /\ \A k \in 1 .. n : ChunkSizes(file)[k] = file[k].size
      /\ WholeSizes(file) \in Seq(Nat) /\ Len(WholeSizes(file)) = n
      /\ \A k \in 1 .. n : WholeSizes(file)[k] = IF file[k].whole THEN file[k].size ELSE 0
  BY SizesAreSeqs
<1>4. /\ ChunkSizes(more) \in Seq(Nat) /\ Len(ChunkSizes(more)) = n + 1
      /\ \A k \in 1 .. (n + 1) : ChunkSizes(more)[k] = more[k].size
      /\ WholeSizes(more) \in Seq(Nat) /\ Len(WholeSizes(more)) = n + 1
      /\ \A k \in 1 .. (n + 1) : WholeSizes(more)[k] = IF more[k].whole THEN more[k].size ELSE 0
  BY <1>1, SizesAreSeqs
<1>5. \A k \in 1 .. n : k \in 1 .. (n + 1)
  BY <1>1
<1>6. n + 1 \in 1 .. (n + 1)
  BY <1>1
<1> HIDE DEF n
<1>7. Total(ChunkSizes(more)) = Total(ChunkSizes(file)) + c.size
  <2>1. \A k \in 1 .. n : ChunkSizes(more)[k] = ChunkSizes(file)[k]
    BY <1>1, <1>3, <1>4, <1>5
  <2>2. ChunkSizes(more)[n + 1] = c.size
    BY <1>1, <1>4, <1>6
  <2>3. Total(ChunkSizes(more)) = Total(ChunkSizes(file)) + ChunkSizes(more)[n + 1]
    BY <1>3, <1>4, <2>1, TotalOneMore
  <2> QED
    BY <2>2, <2>3
<1>8. Total(WholeSizes(more)) = Total(WholeSizes(file)) + IF c.whole THEN c.size ELSE 0
  <2>1. \A k \in 1 .. n : WholeSizes(more)[k] = WholeSizes(file)[k]
    BY <1>1, <1>3, <1>4, <1>5
  <2>2. WholeSizes(more)[n + 1] = IF c.whole THEN c.size ELSE 0
    BY <1>1, <1>4, <1>6
  <2>3. Total(WholeSizes(more)) = Total(WholeSizes(file)) + WholeSizes(more)[n + 1]
    BY <1>3, <1>4, <2>1, TotalOneMore
  <2> QED
    BY <2>2, <2>3
<1>9. Total(WholeSizes(file)) \in Nat
  BY <1>3, TotalSteps
<1>10. ~ c.whole => WholeChunks(more) = WholeChunks(file)
  <2> SUFFICES ASSUME ~ c.whole PROVE WholeChunks(more) = WholeChunks(file)
    OBVIOUS
  <2>1. \A k : k \in WholeChunks(more) <=> k \in WholeChunks(file)
    BY <1>1 DEF WholeChunks
  <2> QED
    BY <2>1
<1>11. file = <<>> => Cardinality(WholeChunks(more)) <= 1
  <2> SUFFICES ASSUME file = <<>> PROVE Cardinality(WholeChunks(more)) <= 1
    OBVIOUS
  <2>1. n = 0
    BY DEF n
  <2>2. WholeChunks(more) = {} \/ WholeChunks(more) = {1}
    BY <1>1, <2>1 DEF WholeChunks
  <2>3. Cardinality({}) = 0 /\ Cardinality({1}) = 1
    BY FS_EmptySet, FS_Singleton
  <2>4. Cardinality(WholeChunks(more)) = 0 \/ Cardinality(WholeChunks(more)) = 1
    BY <2>2, <2>3, Zenon
  <2> QED
    BY <2>4
<1> QED
  BY <1>2, <1>7, <1>8, <1>9, <1>10, <1>11 DEF more

\* A file that is not empty has a size.
LEMMA NonEmptySize ==
    ASSUME NEW file \in Seq(Chunks), file # <<>>, \A k \in DOMAIN file : file[k].size > 0
    PROVE  FileSize(file) > 0
<1>1. Len(file) \in Nat /\ Len(file) > 0 /\ Len(file) \in 1 .. Len(file) /\ Len(file) \in DOMAIN file
  OBVIOUS
<1>2. FileSize(file) = Total(ChunkSizes(file))
  BY DEF FileSize, ChunkSizes
<1>3. ChunkSizes(file)[Len(file)] = file[Len(file)].size /\ file[Len(file)].size \in Nat
  <2>1. file[Len(file)] \in Chunks
    BY <1>1
  <2> QED
    BY <1>1, <2>1, SizesAreSeqs DEF Chunks
<1>4. Total(ChunkSizes(file)) >= ChunkSizes(file)[Len(file)] /\ Total(ChunkSizes(file)) \in Nat
  BY <1>1, SizesAreSeqs, TotalSteps
<1> QED
  BY <1>1, <1>2, <1>3, <1>4

\* Files that are moved or emptied keep within their size.
LEMMA MovingKeepsSized ==
    ASSUME \A n \in Names : Sized(files[n]),
           \A n \in Names : files'[n] = <<>> \/ \E m \in Names : files'[n] = files[m]
    PROVE  \A n \in Names : Sized(files'[n])
<1>1. Sized(<<>>)
  <2>1. Cardinality(WholeChunks(<<>>)) <= 1
    BY EmptySizes
  <2> QED
    BY <2>1 DEF Sized
<1> QED
  BY <1>1

\* What a step does to the files: it leaves them, empties one, moves one, or
\* appends to the base file.
LEMMA AppendingKeepsSized ==
    ASSUME DiskOK, \A n \in Names : Sized(files[n]), NEW c \in Chunks, c.size > 0,
           files' = [files EXCEPT ![0] = Append(@, c)],
           c.whole => files[0] = <<>> \/ WholeSize(files[0]) + c.size <= MaxSize
    PROVE  /\ \A n \in Names : Sized(files'[n])
           /\ WholeSize(files'[0]) = WholeSize(files[0]) + IF c.whole THEN c.size ELSE 0
<1>1. 0 \in Names /\ files[0] \in Seq(Chunks) /\ files'[0] = Append(files[0], c)
  BY SinkAssumption DEF Names, DiskOK
<1>2. \A n \in Names \ {0} : files'[n] = files[n]
  BY <1>1 DEF DiskOK
<1> DEFINE f == files[0]
<1>3. /\ c.whole => WholeSize(Append(f, c)) = WholeSize(f) + c.size
      /\ ~ c.whole => /\ WholeSize(Append(f, c)) = WholeSize(f)
                      /\ WholeChunks(Append(f, c)) = WholeChunks(f)
      /\ f = <<>> => Cardinality(WholeChunks(Append(f, c))) <= 1
  BY <1>1, AppendSizes
<1>4. WholeSize(f) \in Nat /\ c.size \in Nat /\ c.whole \in BOOLEAN
  BY <1>1, SizesAreNat DEF Chunks
<1>5. Sized(f)
  BY <1>1
<1>6. \A k \in DOMAIN Append(f, c) : Append(f, c)[k].size > 0
  <2> SUFFICES ASSUME NEW k \in DOMAIN Append(f, c) PROVE Append(f, c)[k].size > 0
    OBVIOUS
  <2>1. \/ k \in DOMAIN f /\ Append(f, c)[k] = f[k]
        \/ Append(f, c)[k] = c
    BY <1>1
  <2>2. \A j \in DOMAIN f : f[j].size > 0
    BY <1>5 DEF Sized
  <2> QED
    BY <2>1, <2>2
<1>7. \/ Cardinality(WholeChunks(Append(f, c))) <= 1
      \/ WholeSize(Append(f, c)) <= MaxSize
  <2>1. CASE c.whole /\ f = <<>>
    BY <1>3, <2>1
  <2>2. CASE c.whole /\ WholeSize(f) + c.size <= MaxSize
    BY <1>3, <2>2
  <2>3. CASE ~ c.whole
    <3>1. Cardinality(WholeChunks(f)) <= 1 \/ WholeSize(f) <= MaxSize
      BY <1>5 DEF Sized
    <3> QED
      BY <1>3, <2>3, <3>1
  <2> QED
    BY <2>1, <2>2, <2>3
<1>8. Sized(Append(f, c))
  BY <1>6, <1>7 DEF Sized
<1>9. \A n \in Names : Sized(files'[n])
  BY <1>1, <1>2, <1>8
<1>10. WholeSize(files'[0]) = WholeSize(files[0]) + IF c.whole THEN c.size ELSE 0
  BY <1>1, <1>3, <1>4
<1> QED
  BY <1>9, <1>10

\* Nor does a file of which the end is lost grow.
LEMMA TornSizes ==
    ASSUME NEW file \in Seq(Chunks), NEW n \in 0 .. Len(file), NEW rest \in Torn(file, n),
           Sized(file)
    PROVE  Sized(rest) /\ WholeSize(rest) <= WholeSize(file)
<1> DEFINE cut == SubSeq(file, 1, n)
<1>1. /\ rest \in Seq(Chunks)
      /\ \A k \in DOMAIN rest :
           /\ k \in DOMAIN file /\ rest[k].id = file[k].id
           /\ rest[k].whole => rest[k] = file[k]
           /\ rest[k] = file[k] \/ rest[k].size > 0
      /\ \/ rest = SubSeq(file, 1, n)
         \/ \E c \in Chunks : ~ c.whole /\ rest = Append(SubSeq(file, 1, n), c)
  <2> HIDE DEF cut
  <2> QED
    BY TornFile, Zenon
<1>2. /\ cut \in Seq(Chunks) /\ Len(cut) = n /\ n \in Nat /\ Len(file) \in Nat /\ n <= Len(file)
      /\ \A k \in 1 .. n : cut[k] = file[k] /\ k \in 1 .. Len(file)
  OBVIOUS
<1> HIDE DEF cut
<1>3. WholeSize(cut) <= WholeSize(file)
  <2>1. WholeSize(cut) = Total(WholeSizes(cut)) /\ WholeSize(file) = Total(WholeSizes(file))
    BY DEF WholeSize, WholeSizes
  <2>2. /\ WholeSizes(cut) \in Seq(Nat) /\ Len(WholeSizes(cut)) = n
        /\ \A k \in 1 .. n : WholeSizes(cut)[k] = IF cut[k].whole THEN cut[k].size ELSE 0
    BY <1>2, SizesAreSeqs
  <2>3. /\ WholeSizes(file) \in Seq(Nat) /\ Len(WholeSizes(file)) = Len(file)
        /\ \A k \in 1 .. Len(file) :
             WholeSizes(file)[k] = IF file[k].whole THEN file[k].size ELSE 0
    BY SizesAreSeqs
  <2>4. \A k \in 1 .. n : WholeSizes(cut)[k] = WholeSizes(file)[k]
    BY <1>2, <2>2, <2>3
  <2> QED
    BY <1>2, <2>1, <2>2, <2>3, <2>4, TotalPrefix
<1>4. WholeSize(rest) = WholeSize(cut)
  <2>1. rest = cut \/ \E c \in Chunks : ~ c.whole /\ rest = Append(cut, c)
    BY <1>1 DEF cut
  <2> QED
    BY <1>2, <2>1, AppendSizes
<1>5. WholeSize(rest) <= WholeSize(file)
  BY <1>3, <1>4
<1>6. \A k \in DOMAIN rest : rest[k].size > 0
  BY <1>1 DEF Sized
<1>7. WholeChunks(rest) \subseteq WholeChunks(file)
  BY <1>1 DEF WholeChunks
<1>8. IsFiniteSet(WholeChunks(file))
  <2>1. IsFiniteSet(1 .. Len(file))
    BY <1>2, FS_Interval
  <2>2. DOMAIN file = 1 .. Len(file)
    OBVIOUS
  <2>3. WholeChunks(file) \subseteq 1 .. Len(file)
    BY <2>2 DEF WholeChunks
  <2> QED
    BY <2>1, <2>3, FS_Subset
<1>9. /\ Cardinality(WholeChunks(rest)) <= Cardinality(WholeChunks(file))
      /\ Cardinality(WholeChunks(rest)) \in Nat /\ Cardinality(WholeChunks(file)) \in Nat
  <2>1. IsFiniteSet(WholeChunks(rest))
    BY <1>7, <1>8, FS_Subset
  <2> QED
    BY <1>7, <1>8, <2>1, FS_Subset, FS_CardinalityType
<1>10. WholeSize(rest) \in Nat /\ WholeSize(file) \in Nat /\ MaxSize \in Nat
  BY <1>1, SizesAreNat, SinkAssumption
<1>11. Cardinality(WholeChunks(file)) <= 1 \/ WholeSize(file) <= MaxSize
  BY DEF Sized
<1>12. Cardinality(WholeChunks(rest)) <= 1 \/ WholeSize(rest) <= MaxSize
  BY <1>5, <1>9, <1>10, <1>11
<1> QED
  BY <1>5, <1>6, <1>12 DEF Sized

LEMMA LosingKeepsSizes ==
    ASSUME DiskOK, SizeInv, LoseBuffer, msg' = msg, step' = "ready",
           current_size' = current_size, new_size' = new_size
    PROVE  SizeInv'
<1>1. /\ 0 \in Names /\ files[0] \in Seq(Chunks) /\ WholeSize(files[0]) \in Nat
      /\ current_size \in Nat /\ WholeSize(files[0]) <= current_size
  BY SinkAssumption, SizesAreNat DEF DiskOK, Names, SizeInv, Estimate
<1>2. PICK n \in 0 .. Len(files[0]) :
        \E rest \in Torn(files[0], n) : files' = [files EXCEPT ![0] = rest]
  BY DEF LoseBuffer
<1>3. PICK rest \in Torn(files[0], n) : files' = [files EXCEPT ![0] = rest]
  BY <1>2
<1>4. files'[0] = rest /\ \A m \in Names \ {0} : files'[m] = files[m]
  BY <1>1, <1>3 DEF DiskOK
<1>5. Sized(rest) /\ WholeSize(rest) <= WholeSize(files[0])
  BY <1>1, TornSizes DEF SizeInv
<1>6. rest \in Seq(Chunks)
  BY <1>1, TornFile
<1>7. WholeSize(rest) \in Nat
  BY <1>6, SizesAreNat
<1>8. \A m \in Names : Sized(files'[m])
  BY <1>4, <1>5 DEF SizeInv
<1>9. WholeSize(files'[0]) <= current_size
  BY <1>1, <1>4, <1>5, <1>7
<1> QED
  BY <1>8, <1>9 DEF SizeInv, Estimate

LEMMA NextKeepsSizes == OrderInv /\ SizeInv /\ [Next]_vars => SizeInv'
<1> SUFFICES ASSUME OrderInv, SizeInv, [Next]_vars PROVE SizeInv'
  OBVIOUS
<1>0. /\ DiskOK /\ Estimate /\ \A n \in Names : Sized(files[n])
      /\ 0 \in Names /\ index \in Names /\ files[0] \in Seq(Chunks)
      /\ WholeSize(files[0]) \in Nat /\ FileSize(files[0]) \in Nat
      /\ msg \in Chunks /\ msg.size \in Nat /\ MaxSize \in Nat /\ WholeSize(<<>>) = 0
  <2>1. DiskOK /\ 0 \in Names
    BY SinkAssumption DEF OrderInv, Names
  <2>2. files[0] \in Seq(Chunks) /\ msg \in Chunks /\ index \in Names
    BY <2>1 DEF DiskOK
  <2>3. msg.size \in Nat
    BY <2>2 DEF Chunks
  <2> QED
    BY SinkAssumption, <2>1, <2>2, <2>3, SizesAreNat, EmptySizes DEF SizeInv
<1> USE <1>0
<1>1. ASSUME NEW size \in Sizes, SinkIt(size) PROVE SizeInv'
  <2>1. size \in Nat /\ size > 0
    BY SinkAssumption
  <2>2. msg'.size = size /\ msg'.whole
    BY <1>1 DEF SinkIt, Chunk
  <2>3. /\ files' = files /\ current_size' = current_size /\ new_size' = current_size + size
        /\ step' = "check" \/ (step' = "write" /\ new_size' <= MaxSize)
    <3>1. new_size' = current_size + size /\ current_size \in Nat
      BY <1>1 DEF SinkIt, Estimate
    <3> QED
      BY <1>1, <2>1, <3>1 DEF SinkIt, disk
  <2>4. current_size \in Nat /\ WholeSize(files[0]) <= current_size
    BY DEF Estimate
  <2>5. Estimate'
    <3>0. msg'.size = size
      BY <2>2
    <3>1. current_size' + msg'.size <= new_size' /\ new_size' \in Nat
      BY <2>1, <2>3, <2>4, <3>0
    <3>2. WholeSize(files'[0]) + msg'.size <= new_size' /\ WholeSize(files'[0]) <= current_size'
      BY <2>1, <2>3, <2>4, <3>0
    <3>3. step' = "write" => new_size' <= MaxSize
      BY <2>3
    <3> QED
      BY <2>1, <2>2, <2>3, <2>4, <3>1, <3>2, <3>3, Zenon DEF Estimate
  <2> QED
    BY <2>3, <2>5 DEF SizeInv
<1>2. CASE CheckThrows
  <2>1. CASE fd
    BY <1>2, <2>1, LosingKeepsSizes DEF CheckThrows
  <2>2. CASE ~fd
    BY <1>2, <2>2 DEF CheckThrows, SizeInv, Estimate
  <2> QED
    BY <2>1, <2>2
<1>3. CASE CheckSize
  <2>1. FileSize(files[0]) > 0 \/ files[0] = <<>>
    BY NonEmptySize DEF Sized
  <2>2. Estimate'
    BY <1>3, <2>1 DEF CheckSize, Estimate, disk
  <2> QED
    BY <1>3, <2>2 DEF CheckSize, SizeInv, disk
<1>4. CASE WriteMessage
  <2>1. CASE fd
    <3>1. /\ files' = [files EXCEPT ![0] = Append(@, msg)] /\ step = "write" /\ step' = "ready"
          /\ current_size' = new_size /\ new_size' = new_size /\ msg' = msg
      BY <1>4, <2>1 DEF WriteMessage
    <3>2. /\ msg.size > 0 /\ msg.whole /\ new_size \in Nat
          /\ WholeSize(files[0]) + msg.size <= new_size
          /\ files[0] = <<>> \/ WholeSize(files[0]) + msg.size <= MaxSize
      BY <3>1 DEF Estimate
    <3>3. /\ \A n \in Names : Sized(files'[n])
          /\ WholeSize(files'[0]) = WholeSize(files[0]) + msg.size
      BY <3>1, <3>2, AppendingKeepsSized
    <3>4. Estimate'
      BY <3>1, <3>2, <3>3 DEF Estimate
    <3> QED
      BY <3>3, <3>4 DEF SizeInv
  <2>2. CASE ~fd
    <3>1. Estimate'
      BY <1>4, <2>2 DEF WriteMessage, Estimate
    <3> QED
      BY <1>4, <2>2, <3>1 DEF WriteMessage, SizeInv
  <2> QED
    BY <2>1, <2>2
<1>5. CASE WriteFails
  <2>1. /\ step' = "ready" /\ msg' = msg /\ current_size' = current_size /\ new_size' = new_size
    BY <1>5 DEF WriteFails
  <2>2. CASE LoseBuffer
    BY <2>1, <2>2, LosingKeepsSizes
  <2>3. ASSUME NEW k \in 1 .. msg.size - 1,
               files' = [files EXCEPT ![0] = Append(@, Chunk(msg.id, k, FALSE))]
        PROVE  SizeInv'
    <3> DEFINE c == Chunk(msg.id, k, FALSE)
    <3>1. c \in Chunks /\ c.size > 0 /\ ~ c.whole
      BY DEF Chunk, Chunks
    <3> HIDE DEF c
    <3>2. files' = [files EXCEPT ![0] = Append(@, c)]
      BY <2>3 DEF c
    <3>3. /\ \A n \in Names : Sized(files'[n])
          /\ WholeSize(files'[0]) = WholeSize(files[0]) + IF c.whole THEN c.size ELSE 0
      BY <3>1, <3>2, AppendingKeepsSized
    <3>4. WholeSize(files'[0]) = WholeSize(files[0])
      BY <3>1, <3>3
    <3> QED
      BY <2>1, <3>3, <3>4 DEF SizeInv, Estimate
  <2> QED
    BY <1>5, <2>2, <2>3 DEF WriteFails
<1>6. CASE SkipMissing
  BY <1>6 DEF SkipMissing, SizeInv, Estimate, disk
\* The other steps of rotate_: a file is moved or emptied, the base file is as it
\* was or empty, and no message is to be written but one on its own.
<1>7. ASSUME \A n \in Names : files'[n] = <<>> \/ \E m \in Names : files'[n] = files[m],
             files'[0] = files[0] \/ files'[0] = <<>>,
             msg' = msg, step # "ready", step' # "check", new_size' \in Nat,
             \/ current_size' = current_size
             \/ current_size' = 0 /\ files'[0] = <<>>,
             step' = "write" => files'[0] = <<>> /\ new_size' = msg.size
      PROVE  SizeInv'
  <2>1. \A n \in Names : Sized(files'[n])
    BY <1>7, MovingKeepsSized
  <2>2. WholeSize(files'[0]) <= current_size' /\ current_size' \in Nat
    BY <1>7 DEF Estimate
  <2>3. step' = "write" => WholeSize(files'[0]) + msg.size <= new_size'
    BY <1>7
  <2>4. msg.whole /\ msg.size > 0
    BY <1>7 DEF Estimate
  <2> QED
    BY <1>7, <2>1, <2>2, <2>3, <2>4 DEF SizeInv, Estimate
<1>8. /\ files \in [Names -> Seq(Chunks)]
      /\ \A x \in Names : files' = [files EXCEPT ![x] = <<>>]
            => /\ \A n \in Names : files'[n] = <<>> \/ \E m \in Names : files'[n] = files[m]
               /\ files'[0] = files[0] \/ files'[0] = <<>>
               /\ x = 0 => files'[0] = <<>>
  BY DEF DiskOK
<1>9. files' = files => /\ \A n \in Names : files'[n] = <<>> \/ \E m \in Names : files'[n] = files[m]
                        /\ files'[0] = files[0]
  OBVIOUS
<1>10. new_size \in Nat
  BY DEF Estimate
<1>11. CASE RenameNext
  <2>1. /\ files' = [files EXCEPT ![index] = files[index - 1], ![index - 1] = <<>>]
        /\ msg' = msg /\ step' = "rotate" /\ step = "rotate"
        /\ current_size' = current_size /\ new_size' = new_size
    BY <1>11 DEF RenameNext
  <2>2. index \in Names /\ index - 1 \in Names /\ index # 0
    BY <1>11, SinkAssumption DEF RenameNext, Names
  <2>3. \A n \in Names : files'[n] = <<>> \/ files'[n] = files[index - 1] \/ files'[n] = files[n]
    BY <1>8, <2>1, <2>2
  <2>4. files'[0] = files[0] \/ files'[0] = <<>>
    BY <1>8, <2>1, <2>2
  <2> QED
    BY <1>7, <1>10, <2>1, <2>2, <2>3, <2>4
<1>12. CASE RenameFails
  <2>1. /\ step = "rotate" /\ step' = "salvage" /\ msg' = msg
        /\ current_size' = current_size /\ new_size' = new_size
        /\ files' = files \/ files' = [files EXCEPT ![index] = <<>>]
    BY <1>12 DEF RenameFails, disk
  <2> QED
    BY <1>7, <1>8, <1>9, <1>10, <2>1
<1>13. CASE Salvage
  <2>1. /\ step = "salvage" /\ step' = "ready" /\ msg' = msg
        /\ current_size' = 0 /\ new_size' = new_size
        /\ files' = [files EXCEPT ![0] = <<>>]
    BY <1>13 DEF Salvage, Reopened
  <2> QED
    BY <1>7, <1>8, <1>10, <2>1
<1>14. CASE Reopen
  <2>1. /\ step = "rotate" /\ step' = "write" /\ msg' = msg
        /\ current_size' = current_size /\ new_size' = msg.size
        /\ files' = [files EXCEPT ![0] = <<>>]
    BY <1>14 DEF Reopen, Reopened
  <2> QED
    BY <1>7, <1>8, <2>1
<1>15. CASE ReopenFails
  <2>1. /\ step # "ready" /\ step' = "ready" /\ msg' = msg
        /\ current_size' = current_size /\ new_size' = new_size
        /\ files' = files \/ files' = [files EXCEPT ![0] = <<>>]
    BY <1>15 DEF ReopenFails, NotReopened, disk
  <2> QED
    BY <1>7, <1>8, <1>9, <1>10, <2>1
<1>16. CASE Flush
  BY <1>16 DEF Flush, SizeInv, Estimate, disk
<1>17. CASE FlushFails
  BY <1>17, LosingKeepsSizes DEF FlushFails
<1>18. CASE UNCHANGED vars
  BY <1>18 DEF vars, SizeInv, Estimate
<1> QED
  BY <1>1, <1>2, <1>3, <1>4, <1>5, <1>6, <1>11, <1>12, <1>13, <1>14, <1>15, <1>16, <1>17, <1>18
  DEF Next, Rotate

LEMMA InitSizes == Init => SizeInv
<1> SUFFICES ASSUME Init PROVE SizeInv
  OBVIOUS
<1>1. DiskOK /\ 0 \in Names
  BY InitOrderInv, SinkAssumption DEF OrderInv, Names
<1>2. msg.whole /\ step = "ready" /\ new_size = 0 /\ current_size = FileSize(files[0])
  BY DEF Init, Chunk
<1>3. Sized(<<>>) /\ FileSize(<<>>) = 0 /\ WholeSize(<<>>) = 0
  <2>1. Cardinality(WholeChunks(<<>>)) <= 1
    BY EmptySizes
  <2> QED
    BY <2>1, EmptySizes DEF Sized
<1>4. CASE files = [n \in Names |-> <<>>]
  <2>1. \A n \in Names : files[n] = <<>>
    BY <1>4
  <2>2. files[0] = <<>>
    BY <1>1, <2>1
  <2> QED
    BY <1>2, <1>3, <2>1, <2>2 DEF SizeInv, Estimate
<1>5. ASSUME NEW s \in Sizes,
             files = [n \in Names |-> IF n = 0 THEN <<Chunk(0, s, TRUE)>> ELSE <<>>]
      PROVE  SizeInv
  <2> DEFINE c == Chunk(0, s, TRUE)
             e == <<>>
  <2>1. c \in Chunks /\ c.size = s /\ c.whole /\ s \in Nat /\ s > 0
    BY SinkAssumption DEF Chunk, Chunks
  <2> HIDE DEF c
  <2>2. files[0] = <<c>> /\ \A n \in Names \ {0} : files[n] = <<>>
    BY <1>1, <1>5 DEF c
  <2>3. <<c>> = Append(e, c) /\ e \in Seq(Chunks)
    OBVIOUS
  <2>4. /\ FileSize(<<c>>) = s /\ WholeSize(<<c>>) = s
        /\ Cardinality(WholeChunks(<<c>>)) <= 1
    <3>1. e = <<>> /\ FileSize(e) = 0 /\ WholeSize(e) = 0
      BY <1>3
    <3> HIDE DEF e
    <3>2. /\ FileSize(Append(e, c)) = FileSize(e) + c.size
          /\ WholeSize(Append(e, c)) = WholeSize(e) + c.size
          /\ Cardinality(WholeChunks(Append(e, c))) <= 1
      BY <2>1, <2>3, <3>1, AppendSizes
    <3> QED
      BY <2>1, <2>3, <3>1, <3>2
  <2>5. \A k \in DOMAIN <<c>> : <<c>>[k].size > 0
    BY <2>1
  <2>6. Sized(<<c>>)
    BY <2>4, <2>5 DEF Sized
  <2>7. \A n \in Names : Sized(files[n])
    BY <1>3, <2>2, <2>6
  <2> QED
    BY <1>2, <2>1, <2>2, <2>4, <2>7 DEF SizeInv, Estimate
<1> QED
  BY <1>4, <1>5 DEF Init

\* No file grows beyond its limit by whole messages, unless one message alone
\* does, whatever has failed before (rotating_file_sink::sink_it_, current_size_).
THEOREM FilesAreBounded == Spec => []SizeBounded
<1>1. Init => OrderInv /\ SizeInv
  BY InitOrderInv, InitSizes
<1>2. OrderInv /\ SizeInv /\ [Next]_vars => (OrderInv /\ SizeInv)'
  BY NextKeepsOrder, NextKeepsSizes
<1>3. SizeInv => SizeBounded
  BY DEF SizeInv, Sized, SizeBounded
<1> QED
  BY <1>1, <1>2, <1>3, PTL DEF Spec

-----------------------------------------------------------------------------
(* What a failure costs                                                     *)

HoldsIn(fs, id) == \E n \in Names : \E k \in DOMAIN fs[n] : fs[n][k].whole /\ fs[n][k].id = id

LEMMA KeptHolds == \A id : id \in Kept <=> HoldsIn(files, id)
  BY DEF Kept, HoldsIn, WholeChunks

LEMMA KeptHoldsNext == \A id : id \in Kept' <=> HoldsIn(files', id)
  BY DEF Kept, HoldsIn, WholeChunks

LEMMA KeptIds ==
    ASSUME OrderInv, NEW id, HoldsIn(files, id)
    PROVE  id \in Nat /\ id <= msg.id
<1>1. PICK n \in Names : \E k \in DOMAIN files[n] : files[n][k].id = id
  BY DEF HoldsIn
<1>2. PICK k \in DOMAIN files[n] : files[n][k].id = id
  BY <1>1
<1>3. files[n] \in Seq(Chunks)
  BY DEF OrderInv, DiskOK
<1>4. files[n][k] \in Chunks
  BY <1>3
<1> QED
  BY <1>2, <1>4 DEF Chunks, OrderInv, AtHandIsLast

\* A failure at hand: nothing is promised of what is there.
LEMMA VoidGap == ASSUME OrderInv', intact' = msg'.id + 1 PROVE Gapless'
<1>1. msg'.id \in Nat /\ Written' <= msg'.id
  BY DEF OrderInv, DiskOK, Chunks, Written
<1>2. \A id \in Kept' : id \in Nat /\ id <= msg'.id
  <2> SUFFICES ASSUME NEW n \in Names, NEW k \in DOMAIN files'[n]
               PROVE  files'[n][k].id \in Nat /\ files'[n][k].id <= msg'.id
    BY KeptHoldsNext DEF HoldsIn
  <2>1. files'[n] \in Seq(Chunks)
    BY DEF OrderInv, DiskOK
  <2>2. files'[n][k] \in Chunks
    BY <2>1
  <2> QED
    BY <2>2 DEF Chunks, OrderInv, AtHandIsLast
<1> QED
  BY <1>1, <1>2 DEF Gapless, Written

\* A step that changes neither the files nor what has been written.
LEMMA UnmovedKeepsGap ==
    ASSUME Gapless, files' = files, present' = present, intact' = intact, Written' = Written,
           step' = "ready" => step = "ready" /\ msg' = msg
    PROVE  Gapless'
<1>1. Kept' = Kept
  BY DEF Kept
<1> QED
  BY <1>1 DEF Gapless

\* The message is appended, the next in what is kept.
LEMMA WriteKeepsGap ==
    ASSUME OrderInv, msg.whole, fd, Gapless, WriteMessage
    PROVE  Gapless'
<1>1. /\ step = "write" /\ step' = "ready" /\ present' = present /\ intact' = intact
      /\ files' = [files EXCEPT ![0] = Append(@, msg)] /\ msg' = msg
  BY DEF WriteMessage, history
<1>2. /\ 0 \in Names /\ files[0] \in Seq(Chunks) /\ msg \in Chunks /\ msg.id \in Nat
      /\ files \in [Names -> Seq(Chunks)]
  BY SinkAssumption DEF OrderInv, DiskOK, Names, Chunks
<1>3. files'[0] = Append(files[0], msg) /\ \A n \in Names \ {0} : files'[n] = files[n]
  BY <1>1, <1>2
<1>4. \A id : HoldsIn(files', id) <=> HoldsIn(files, id) \/ id = msg.id
  <2>1. \A k \in DOMAIN files[0] : k \in DOMAIN files'[0] /\ files'[0][k] = files[0][k]
    BY <1>2, <1>3
  <2>2. Len(files[0]) + 1 \in DOMAIN files'[0] /\ files'[0][Len(files[0]) + 1] = msg
    BY <1>2, <1>3
  <2>3. \A k \in DOMAIN files'[0] :
            \/ k \in DOMAIN files[0] /\ files'[0][k] = files[0][k]
            \/ files'[0][k] = msg
    BY <1>2, <1>3
  <2> TAKE id
  <2>4. HoldsIn(files, id) => HoldsIn(files', id)
    <3> SUFFICES ASSUME NEW n \in Names, NEW k \in DOMAIN files[n],
                        files[n][k].whole /\ files[n][k].id = id
                 PROVE  k \in DOMAIN files'[n] /\ files'[n][k] = files[n][k]
      BY DEF HoldsIn
    <3> QED
      BY <1>3, <2>1
  <2>5. HoldsIn(files', msg.id)
    BY <1>2, <2>2, Zenon DEF HoldsIn
  <2>6. HoldsIn(files', id) => HoldsIn(files, id) \/ id = msg.id
    <3> SUFFICES ASSUME NEW n \in Names, NEW k \in DOMAIN files'[n],
                        files'[n][k].whole /\ files'[n][k].id = id
                 PROVE  (k \in DOMAIN files[n] /\ files'[n][k] = files[n][k]) \/ files'[n][k] = msg
      BY DEF HoldsIn
    <3> QED
      BY <1>3, <2>3
  <2> QED
    BY <2>4, <2>5, <2>6
<1>5. \A id : id \in Kept' <=> id \in Kept \/ id = msg.id
  BY <1>4, KeptHolds, KeptHoldsNext, Zenon
<1>6. Written = msg.id - 1 /\ Written' = msg.id
  BY <1>1 DEF Written
<1>7. \A id \in Kept' : id >= intact' => id .. Written' \subseteq Kept'
  <2> SUFFICES ASSUME NEW id \in Kept', id >= intact, NEW x \in id .. msg.id PROVE x \in Kept'
    BY <1>1, <1>6
  <2>1. CASE x = msg.id
    BY <1>5, <2>1
  <2>2. CASE x # msg.id /\ id \in Kept
    <3>1. id \in Nat
      BY <2>2, KeptHolds, KeptIds
    <3>2. x \in id .. (msg.id - 1)
      BY <1>2, <2>2, <3>1
    <3>3. x \in Kept
      BY <1>6, <2>2, <3>2 DEF Gapless
    <3> QED
      BY <1>5, <3>3
  <2>3. CASE x # msg.id /\ id = msg.id
    BY <1>2, <2>3
  <2> QED
    BY <1>5, <2>1, <2>2, <2>3
<1>8. MaxFiles \notin present' => \A id \in 1 .. Written' : id >= intact' => id \in Kept'
  <2> SUFFICES ASSUME MaxFiles \notin present, NEW x \in 1 .. msg.id, x >= intact PROVE x \in Kept'
    BY <1>1, <1>6
  <2>1. x = msg.id \/ x \in 1 .. (msg.id - 1)
    BY <1>2
  <2>2. x \in 1 .. (msg.id - 1) => x \in Kept
    BY <1>6 DEF Gapless
  <2> QED
    BY <1>5, <2>1, <2>2
<1> QED
  BY <1>1, <1>5, <1>7, <1>8 DEF Gapless

\* A file moves up: it finds its place free, or takes that of the oldest, which is
\* forgotten.  Only what the oldest held may go, and that is earlier than the rest.
LEMMA RenameKeepsGap ==
    ASSUME OrderInv, Gapless, RenameNext,
           index < MaxFiles => index \notin present,
           \A n \in Names : files[n] # <<>> => n \in present
    PROVE  Gapless'
<1> DEFINE i == index
           j == index - 1
<1>1. /\ step = "rotate" /\ i > 0 /\ j \in present
      /\ files' = [files EXCEPT ![i] = files[j], ![j] = <<>>]
      /\ present' = (present \ {j}) \cup {i}
      /\ step' = step /\ msg' = msg /\ intact' = intact
  BY DEF RenameNext, history
<1>2. /\ MaxFiles \in Nat /\ Names = 0 .. MaxFiles /\ i \in Names /\ j \in Names
      /\ i \in Nat /\ j \in Nat /\ i = j + 1 /\ files \in [Names -> Seq(Chunks)]
  BY <1>1, SinkAssumption DEF OrderInv, DiskOK, Names
<1>3. /\ files'[i] = files[j] /\ files'[j] = <<>>
      /\ \A n \in Names : n # i /\ n # j => files'[n] = files[n]
  BY <1>1, <1>2
<1>4. i \in present => i = MaxFiles
  BY <1>2
<1>5. OldestFirst
  BY DEF OrderInv
<1> HIDE DEF i, j
<1>6. \A id : HoldsIn(files', id) => HoldsIn(files, id)
  <2>1. \A n \in Names : files'[n] = <<>> \/ files'[n] = files[j] \/ files'[n] = files[n]
    BY <1>3
  <2>2. \A n \in Names : \A k \in DOMAIN files'[n] :
          \/ k \in DOMAIN files[j] /\ files'[n][k] = files[j][k]
          \/ k \in DOMAIN files[n] /\ files'[n][k] = files[n][k]
    BY <2>1
  <2> SUFFICES ASSUME NEW id, NEW n \in Names, NEW k \in DOMAIN files'[n],
                      files'[n][k].whole /\ files'[n][k].id = id
               PROVE  HoldsIn(files, id)
    BY DEF HoldsIn
  <2>3. CASE k \in DOMAIN files[j] /\ files'[n][k] = files[j][k]
    <3>1. j \in Names /\ files[j][k].whole /\ files[j][k].id = id
      BY <1>2, <2>3
    <3> QED
      BY <2>3, <3>1 DEF HoldsIn
  <2>4. CASE k \in DOMAIN files[n] /\ files'[n][k] = files[n][k]
    BY <2>4 DEF HoldsIn
  <2> QED
    BY <2>2, <2>3, <2>4
<1>7. ASSUME NEW x, HoldsIn(files, x), ~ HoldsIn(files', x)
      PROVE  /\ i \in present
             /\ \A id : HoldsIn(files', id) => x < id
  <2>1. PICK n \in Names : \E k \in DOMAIN files[n] : files[n][k].whole /\ files[n][k].id = x
    BY <1>7 DEF HoldsIn
  <2>2. PICK k \in DOMAIN files[n] : files[n][k].whole /\ files[n][k].id = x
    BY <2>1
  <2>3. n = i
    <3>1. CASE n = j
      BY <1>2, <1>3, <1>7, <2>2, <3>1 DEF HoldsIn
    <3>2. CASE n # i /\ n # j
      BY <1>3, <1>7, <2>2, <3>2 DEF HoldsIn
    <3> QED
      BY <3>1, <3>2
  <2>4. i \in present
    <3>1. DOMAIN <<>> = {}
      OBVIOUS
    <3> QED
      BY <1>2, <2>2, <2>3, <3>1
  <2>5. i = MaxFiles
    BY <1>4, <2>4
  <2>6. \A id : HoldsIn(files', id) => x < id
    <3> SUFFICES ASSUME NEW id, NEW m \in Names, NEW l \in DOMAIN files'[m], files'[m][l].id = id
                 PROVE  x < id
      BY DEF HoldsIn
    <3>1. CASE m = i
      <4>1. l \in DOMAIN files[j] /\ files[j][l].id = id /\ j < n
        BY <1>2, <1>3, <2>3, <3>1
      <4> QED
        BY <1>2, <1>5, <2>2, <4>1 DEF OldestFirst
    <3>2. CASE m = j
      BY <1>3, <3>2
    <3>3. CASE m # i /\ m # j
      <4>1. l \in DOMAIN files[m] /\ files[m][l].id = id /\ m < n
        BY <1>2, <1>3, <2>3, <2>5, <3>3
      <4> QED
        BY <1>5, <2>2, <4>1 DEF OldestFirst
    <3> QED
      BY <3>1, <3>2, <3>3
  <2> QED
    BY <2>4, <2>6
<1>8. Written' = Written /\ step' # "ready" /\ Written \in Int
  BY <1>1 DEF Written, OrderInv, DiskOK, Chunks
<1>9. \A id \in Kept' : id >= intact' => id .. Written' \subseteq Kept'
  <2> SUFFICES ASSUME NEW id \in Kept', id >= intact, NEW x \in id .. Written PROVE x \in Kept'
    BY <1>1, <1>8
  <2>1. HoldsIn(files', id) /\ HoldsIn(files, id) /\ id \in Kept
    BY <1>6, KeptHolds, KeptHoldsNext
  <2>2. HoldsIn(files, x)
    BY <2>1, KeptHolds DEF Gapless
  <2>3. ASSUME ~ HoldsIn(files', x) PROVE FALSE
    <3>1. x < id
      BY <1>7, <2>1, <2>2, <2>3
    <3>2. id \in Nat
      BY <2>1, KeptIds
    <3>3. x \in Int /\ id <= x
      BY <1>8, <3>2
    <3> QED
      BY <3>1, <3>2, <3>3
  <2> QED
    BY <2>3, KeptHoldsNext
<1>10. MaxFiles \notin present' => \A id \in 1 .. Written' : id >= intact' => id \in Kept'
  <2> SUFFICES ASSUME MaxFiles \notin present', NEW x \in 1 .. Written, x >= intact PROVE x \in Kept'
    BY <1>1, <1>8
  <2>1. MaxFiles \notin present /\ i \notin present
    BY <1>1, <1>2, <1>4
  <2>2. x \in Kept
    BY <2>1 DEF Gapless
  <2>3. HoldsIn(files, x) => HoldsIn(files', x)
    BY <1>7, <2>1
  <2> QED
    BY <2>2, <2>3, KeptHolds, KeptHoldsNext
<1> QED
  BY <1>8, <1>9, <1>10 DEF Gapless

\* The base file begins again: it has moved, or there is only one file.
LEMMA ReopenKeepsGap ==
    ASSUME OrderInv, Gapless, Reopen,
           index < MaxFiles => index \notin present,
           \A n \in Names : files[n] # <<>> => n \in present
    PROVE  Gapless'
<1>1. /\ step = "rotate" /\ index = 0 /\ step' = "write" /\ intact' = intact
      /\ files' = [files EXCEPT ![0] = <<>>] /\ present' = present \cup {0} /\ msg' = msg
  BY DEF Reopen, Reopened, history
<1>2. /\ MaxFiles \in Nat /\ Names = 0 .. MaxFiles /\ 0 \in Names
      /\ files \in [Names -> Seq(Chunks)]
  BY SinkAssumption DEF OrderInv, DiskOK, Names
<1>3. Written' = Written
  BY <1>1 DEF Written
<1>4. CASE MaxFiles = 0
  <2>1. \A n \in Names : files'[n] = <<>>
    BY <1>1, <1>2, <1>4
  <2>2. \A n \in Names : DOMAIN files'[n] = {}
    BY <2>1
  <2>3. \A id : id \notin Kept'
    BY <2>2, KeptHoldsNext DEF HoldsIn
  <2>4. MaxFiles \in present'
    BY <1>1, <1>4
  <2> QED
    BY <1>1, <2>3, <2>4 DEF Gapless
<1>5. CASE MaxFiles # 0
  <2>1. 0 \notin present
    BY <1>1, <1>2, <1>5
  <2>2. files[0] = <<>>
    BY <1>2, <2>1
  <2>3. files' = files
    BY <1>1, <1>2, <2>2
  <2>4. Kept' = Kept /\ (MaxFiles \notin present' => MaxFiles \notin present)
    BY <1>1, <2>3 DEF Kept
  <2> QED
    BY <1>1, <1>3, <2>4 DEF Gapless
<1> QED
  BY <1>4, <1>5

\* A file that has lost its end is where it was.
LEMMA LosingKeepsPlaces ==
    ASSUME DiskOK, LoseBuffer, NEW n \in Names, files'[n] # <<>>
    PROVE  files[n] # <<>>
<1>1. 0 \in Names /\ files[0] \in Seq(Chunks)
  BY SinkAssumption DEF DiskOK, Names
<1>2. PICK m \in 0 .. Len(files[0]) :
        \E rest \in Torn(files[0], m) : files' = [files EXCEPT ![0] = rest]
  BY DEF LoseBuffer
<1>3. PICK rest \in Torn(files[0], m) : files' = [files EXCEPT ![0] = rest]
  BY <1>2
<1>4. CASE n = 0
  <2>1. rest \in Seq(Chunks) /\ \A k \in DOMAIN rest : k \in DOMAIN files[0]
    BY <1>1, TornFile
  <2>2. files'[0] = rest
    BY <1>1, <1>3 DEF DiskOK
  <2>3. 1 \in DOMAIN rest
    BY <1>4, <2>1, <2>2
  <2>4. 1 \in DOMAIN files[0]
    BY <2>1, <2>3
  <2> QED
    BY <1>1, <1>4, <2>4
<1>5. CASE n # 0
  BY <1>1, <1>3, <1>5 DEF DiskOK
<1> QED
  BY <1>4, <1>5

LEMMA NextKeepsCall == OrderInv /\ CallInv /\ [Next]_vars => CallInv'
<1> SUFFICES ASSUME OrderInv, CallInv, [Next]_vars PROVE CallInv'
  OBVIOUS
<1>0. DiskOK /\ index \in Nat /\ MaxFiles \in Nat /\ msg.id \in Nat /\ 0 \in Names
  BY SinkAssumption DEF OrderInv, DiskOK, Names, Chunks
<1>1. CASE \E size \in Sizes : SinkIt(size)
  <2>1. /\ step' \in {"check", "write"} /\ step = "ready"
        /\ UNCHANGED <<files, present, fd, index, faults, intact, openFailed>>
    BY <1>1 DEF SinkIt, disk, history
  <2> QED
    BY <2>1 DEF CallInv
<1>2. CASE LoseBuffer /\ Fault /\ step' = "ready" /\ fd /\ UNCHANGED <<present, fd, msg, openFailed>>
      /\ step \in {"ready", "check", "write"}
  <2>1. faults' \in Nat /\ faults' # 0 /\ intact' \in Nat
    BY <1>0, <1>2 DEF CallInv, Fault
  <2>2. ~openFailed => \A n \in Names : files'[n] # <<>> => n \in present'
    BY <1>0, <1>2, LosingKeepsPlaces DEF CallInv
  <2> QED
    BY <1>2, <2>1, <2>2 DEF CallInv
<1>3. CASE CheckThrows
  <2>1. CASE fd
    BY <1>2, <1>3, <2>1 DEF CheckThrows
  <2>2. CASE ~fd
    BY <1>3, <2>2 DEF CheckThrows, CallInv
  <2> QED
    BY <2>1, <2>2
<1>4. CASE CheckSize
  <2>1. /\ step' \in {"rotate", "write"} /\ step = "check" /\ fd' = (step' = "write")
        /\ index' = MaxFiles
        /\ UNCHANGED <<files, present, msg, faults, intact, openFailed>>
    BY <1>4 DEF CheckSize, disk, history
  <2> QED
    BY <1>0, <2>1 DEF CallInv
<1>5. CASE WriteMessage
  <2>1. /\ step = "write" /\ step' = "ready"
        /\ UNCHANGED <<present, fd, msg, faults, intact, openFailed>>
    BY <1>5 DEF WriteMessage, history
  <2>2. \A n \in Names \ {0} : files'[n] = files[n]
    BY <1>0, <1>5 DEF WriteMessage, DiskOK
  <2> QED
    BY <2>1, <2>2 DEF CallInv
<1>6. CASE WriteFails
  <2>1. /\ step = "write" /\ step' = "ready" /\ Fault
        /\ UNCHANGED <<present, fd, msg, openFailed>>
    BY <1>6 DEF WriteFails
  <2>2. CASE LoseBuffer
    BY <1>2, <1>6, <2>1, <2>2 DEF WriteFails
  <2>3. CASE ~ LoseBuffer
    <3>1. \A n \in Names \ {0} : files'[n] = files[n]
      BY <1>0, <1>6, <2>3 DEF WriteFails, DiskOK
    <3>2. faults' \in Nat /\ faults' # 0 /\ intact' \in Nat
      BY <1>0, <2>1 DEF CallInv, Fault
    <3> QED
      BY <2>1, <3>1, <3>2 DEF CallInv
  <2> QED
    BY <2>2, <2>3
<1>7. CASE Flush
  BY <1>7 DEF Flush, CallInv, disk, history
<1>8. CASE FlushFails
  BY <1>2, <1>8 DEF FlushFails
<1>9. CASE SkipMissing
  BY <1>9 DEF SkipMissing, CallInv, disk, history
<1>10. CASE RenameNext
  <2>1. /\ step = "rotate" /\ step' = step /\ index > 0 /\ index' = index - 1
        /\ files' = [files EXCEPT ![index] = files[index - 1], ![index - 1] = <<>>]
        /\ present' = (present \ {index - 1}) \cup {index}
        /\ UNCHANGED <<fd, msg, faults, intact, openFailed>>
    BY <1>10 DEF RenameNext, history
  <2>2. index \in Names /\ index - 1 \in Names /\ index # index - 1
    BY <1>0, <2>1 DEF DiskOK, Names
  <2>3. \A n \in Names : files'[n] # <<>> =>
          n = index \/ (n # index - 1 /\ files[n] # <<>>)
    BY <1>0, <2>1, <2>2 DEF DiskOK
  <2>4. ~openFailed => \A n \in Names : files'[n] # <<>> => n \in present'
    BY <2>1, <2>3 DEF CallInv
  <2> QED
    BY <2>1, <2>2, <2>4 DEF CallInv
<1>11. CASE RenameFails
  <2>1. /\ step' = "salvage" /\ Fault /\ UNCHANGED <<fd, msg, openFailed>>
        /\ \/ UNCHANGED disk
           \/ files' = [files EXCEPT ![index] = <<>>] /\ present' = present \ {index}
    BY <1>11 DEF RenameFails
  <2>2. faults' \in Nat /\ faults' # 0 /\ intact' \in Nat /\ intact' = msg'.id + 1
    BY <1>0, <2>1 DEF CallInv, Fault
  <2>3. ~openFailed => \A n \in Names : files'[n] # <<>> => n \in present'
    BY <1>0, <2>1 DEF CallInv, DiskOK, disk
  <2> QED
    BY <2>1, <2>2, <2>3 DEF CallInv
<1>12. CASE Salvage \/ Reopen
  <2>1. /\ step' \in {"ready", "write"} /\ fd' = TRUE
        /\ files' = [files EXCEPT ![0] = <<>>] /\ present' = present \cup {0}
        /\ UNCHANGED <<faults, intact, openFailed>>
    BY <1>12 DEF Salvage, Reopen, Reopened, history
  <2>2. \A n \in Names \ {0} : files'[n] = files[n]
    BY <1>0, <2>1 DEF DiskOK
  <2> QED
    BY <2>1, <2>2 DEF CallInv
<1>13. CASE ReopenFails
  <2>1. step' = "ready" /\ openFailed' = TRUE /\ Fault /\ fd' = fd
    BY <1>13 DEF ReopenFails, NotReopened
  <2>2. faults' \in Nat /\ faults' # 0 /\ intact' \in Nat
    BY <1>0, <2>1 DEF CallInv, Fault
  <2> QED
    BY <2>1, <2>2 DEF CallInv
<1>14. CASE UNCHANGED vars
  BY <1>14 DEF vars, CallInv
<1> QED
  BY <1>1, <1>3, <1>4, <1>5, <1>6, <1>7, <1>8, <1>9, <1>10, <1>11, <1>12, <1>13, <1>14
  DEF Next, Rotate

LEMMA NextKeepsGap == OrderInv /\ SizeInv /\ CallInv /\ GapInv /\ [Next]_vars => GapInv'
<1> SUFFICES ASSUME OrderInv, SizeInv, CallInv, GapInv, [Next]_vars, ~ openFailed'
             PROVE  Gapless'
  BY DEF GapInv
<1>1. ~ ReopenFails /\ ~ openFailed
  <2>1. ~ ReopenFails
    BY DEF ReopenFails, NotReopened
  <2>2. openFailed' = openFailed
    BY <2>1 DEF Next, Rotate, SinkIt, CheckThrows, CheckSize, WriteMessage, WriteFails, Flush,
                FlushFails, SkipMissing, RenameNext, RenameFails, Salvage, Reopen, history, vars
  <2> QED
    BY <2>1, <2>2
<1>2. /\ Gapless /\ OrderInv' /\ msg.whole /\ msg.id \in Nat
      /\ step = "ready" \/ step = "check" \/ step = "write" => fd
      /\ step = "rotate" /\ index < MaxFiles => index \notin present
      /\ \A n \in Names : files[n] # <<>> => n \in present
  BY <1>1, NextKeepsOrder DEF GapInv, CallInv, SizeInv, Estimate, OrderInv, DiskOK, Chunks
<1>3. CASE \E size \in Sizes : SinkIt(size)
  <2>1. /\ step = "ready" /\ step' # "ready" /\ msg'.id = msg.id + 1
        /\ files' = files /\ present' = present /\ intact' = intact
    BY <1>3 DEF SinkIt, Chunk, disk, history
  <2>2. Written' = Written
    BY <1>2, <2>1 DEF Written
  <2> QED
    BY <1>2, <2>1, <2>2, UnmovedKeepsGap
<1>4. CASE CheckSize
  <2>1. /\ step = "check" /\ step' # "ready" /\ msg' = msg
        /\ files' = files /\ present' = present /\ intact' = intact
    BY <1>4 DEF CheckSize, disk, history
  <2>2. Written' = Written
    BY <2>1 DEF Written
  <2> QED
    BY <1>2, <2>1, <2>2, UnmovedKeepsGap
<1>5. CASE WriteMessage
  BY <1>2, <1>5, WriteKeepsGap DEF WriteMessage
<1>6. CASE Flush \/ SkipMissing \/ UNCHANGED vars
  <2>1. /\ step' = step /\ msg' = msg
        /\ files' = files /\ present' = present /\ intact' = intact
    BY <1>6 DEF Flush, SkipMissing, vars, disk, history
  <2>2. Written' = Written
    BY <2>1 DEF Written
  <2> QED
    BY <1>2, <2>1, <2>2, UnmovedKeepsGap
<1>7. CASE CheckThrows \/ WriteFails \/ FlushFails \/ RenameFails \/ Salvage
  <2>1. intact' = msg'.id + 1
    BY <1>1, <1>2, <1>7
    DEF CheckThrows, WriteFails, FlushFails, RenameFails, Salvage, Fault, CallInv, history
  <2> QED
    BY <1>2, <2>1, VoidGap
<1>8. CASE RenameNext
  BY <1>2, <1>8, RenameKeepsGap DEF RenameNext
<1>9. CASE Reopen
  BY <1>2, <1>9, ReopenKeepsGap DEF Reopen
<1> QED
  BY <1>1, <1>3, <1>4, <1>5, <1>6, <1>7, <1>8, <1>9 DEF Next, Rotate

LEMMA InitCallGap == Init => CallInv /\ GapInv
<1> SUFFICES ASSUME Init PROVE CallInv /\ GapInv
  OBVIOUS
<1>1. /\ 0 \in Names /\ present = {0} /\ fd = TRUE /\ step = "ready" /\ msg.id = 0
      /\ faults = 0 /\ intact = 0 /\ openFailed = FALSE
  BY SinkAssumption DEF Init, Names, Chunk
<1>2. \A n \in Names : n # 0 => files[n] = <<>>
  BY DEF Init
<1>3. CallInv
  BY <1>1, <1>2 DEF CallInv
<1>4. Written = 0
  BY <1>1 DEF Written
<1>5. \A id \in Kept : id = 0
  BY <1>1, InitOrderInv, KeptHolds, KeptIds
<1>6. \A id \in Kept : id .. 0 \subseteq Kept
  BY <1>5
<1> QED
  BY <1>1, <1>3, <1>4, <1>6 DEF GapInv, Gapless

\* A disk operation that fails costs nothing that is logged after it, as long as the
\* base file can be opened again: for any number of files, any sizes and any number
\* of failures, in rotations, writes and flushes (rotating_file_sink::sink_it_,
\* rotate_, flush_, file_helper::flush).
THEOREM LossesEnd == Spec => []LossesEndWithFault
<1> DEFINE Inv == OrderInv /\ SizeInv /\ CallInv /\ GapInv
<1>1. Init => Inv
  BY InitOrderInv, InitSizes, InitCallGap
<1>2. Inv /\ [Next]_vars => Inv'
  BY NextKeepsOrder, NextKeepsSizes, NextKeepsCall, NextKeepsGap
<1>3. Inv => LossesEndWithFault
  <2> SUFFICES ASSUME Inv, ~openFailed, step = "ready"
               PROVE  LET since == (intact .. msg.id) \ {0}
                      IN  /\ fd
                          /\ since # {} => msg.id \in Kept
                          /\ \A id \in Kept \cap since : id .. msg.id \subseteq Kept
                          /\ MaxFiles \notin present => since \subseteq Kept
    BY DEF LossesEndWithFault
  <2>1. fd /\ intact \in Nat /\ msg.id \in Nat
    BY DEF CallInv, OrderInv, DiskOK, Chunks
  <2>2. Gapless /\ Written = msg.id
    BY DEF GapInv, Written
  <2>3. \A x \in (intact .. msg.id) \ {0} :
          x \in 1 .. msg.id /\ x >= intact /\ msg.id > 0 /\ msg.id >= intact
    BY <2>1
  <2> HIDE DEF Inv
  <2> QED
    BY <2>1, <2>2, <2>3 DEF Gapless
<1> HIDE DEF Inv
<1>4. Spec => []Inv
  BY <1>1, <1>2, PTL DEF Spec
<1> QED
  BY <1>3, <1>4, PTL

-----------------------------------------------------------------------------
(* What is kept while nothing fails                                         *)

\* Only the place of the next file to move can be missing below a file.
LEMMA Places ==
    ASSUME DiskOK, Numbered
    PROVE  /\ step # "rotate" => 0 \in present
           /\ \A n \in present \ {0} :
                /\ n \in Nat /\ n - 1 \in Names
                /\ n - 1 \in present \/ (step = "rotate" /\ n - 1 = index)
           /\ step = "rotate" /\ index \in present => index = MaxFiles
<1>1. PICK p \in Names :
        \/ present = 0 .. p /\ (step # "rotate" \/ p < index \/ index = MaxFiles)
        \/ present = (0 .. p) \ {index} /\ step = "rotate" /\ index < p
  BY DEF Numbered
<1>2. MaxFiles \in Nat /\ p \in Nat /\ p <= MaxFiles /\ index \in Nat /\ Names = 0 .. MaxFiles
  BY SinkAssumption DEF DiskOK, Names
<1>3. CASE present = 0 .. p /\ (step # "rotate" \/ p < index \/ index = MaxFiles)
  BY <1>2, <1>3
<1>4. CASE present = (0 .. p) \ {index} /\ step = "rotate" /\ index < p
  BY <1>2, <1>4
<1> QED
  BY <1>1, <1>3, <1>4

\* A file that is there is not empty, but for the base file.
LEMMA Fuller ==
    ASSUME DiskOK, Numbered, Full, step # "rotate"
    PROVE  \A n \in present \ {0} :
             /\ n \in Nat /\ n - 1 \in Names /\ n - 1 \in present
             /\ n > 1 => files[n - 1] # <<>> /\ FollowerIn(files, msg, n) = files[n - 1][1].size
<1> SUFFICES ASSUME NEW n \in present \ {0}
             PROVE  /\ n \in Nat /\ n - 1 \in Names /\ n - 1 \in present
                    /\ n > 1 => files[n - 1] # <<>> /\ FollowerIn(files, msg, n) = files[n - 1][1].size
  OBVIOUS
<1>1. n \in Nat /\ n - 1 \in Names /\ n - 1 \in present
  BY Places
<1>2. n > 1 => files[n - 1] # <<>>
  BY <1>1 DEF Full
<1> QED
  BY <1>1, <1>2 DEF FollowerIn

LEMMA InitLatest == Init => LatestInv
<1> SUFFICES ASSUME Init PROVE LatestInv
  OBVIOUS
<1>1. 0 \in Names /\ present = {0} /\ fd /\ step = "ready" /\ msg.id = 0 /\ {0} = 0 .. 0
      /\ current_size = FileSize(files[0])
  BY SinkAssumption DEF Init, Names, Chunk
<1>2. \A n \in Names : n # 0 => files[n] = <<>>
  BY DEF Init
<1>5. Numbered
  BY <1>1 DEF Numbered
<1>6. Exact
  BY <1>1 DEF Exact
<1>7. Full
  BY <1>1, <1>2 DEF Full
<1> QED
  BY <1>5, <1>6, <1>7 DEF LatestInv, Latest

\* A new message: what follows a file is the first message of the next, which
\* is not empty.
LEMMA SinkItKeepsLatest ==
    ASSUME DiskOK, SizeInv, Latest, NEW size \in Sizes, SinkIt(size)
    PROVE  Latest'
<1>1. /\ step = "ready" /\ files' = files /\ present' = present /\ fd' = fd
      /\ current_size' = current_size /\ index' = index
      /\ new_size' = current_size + size
      /\ step' = IF new_size' > MaxSize THEN "check" ELSE "write"
  BY DEF SinkIt, disk
<1>2. msg'.size = size /\ msg'.id = msg.id + 1
  BY DEF SinkIt, Chunk
<1>3. msg.id \in Nat
  BY DEF DiskOK, Chunks
<1>4. step' \in {"check", "write"}
  BY <1>1
<1>5. Numbered'
  BY <1>1, <1>4 DEF Latest, Numbered
<1>6. Exact'
  BY <1>1, <1>2, <1>4 DEF Latest, Exact
<1>7. \A n \in present \ {0} : FollowerIn(files', msg', n) = FollowerIn(files, msg, n)
  <2> SUFFICES ASSUME NEW n \in present \ {0} PROVE FollowerIn(files', msg', n) = FollowerIn(files, msg, n)
    OBVIOUS
  <2>1. n \in Nat /\ (n > 1 => files[n - 1] # <<>>)
    BY <1>1, Fuller DEF Latest
  <2>2. n = 1 => files[n - 1] # <<>>
    BY <1>1 DEF Latest, Full
  <2>3. files[n - 1] # <<>>
    BY <2>1, <2>2
  <2> QED
    BY <1>1, <2>3 DEF FollowerIn
<1>8. Full'
  BY <1>1, <1>4, <1>7 DEF Latest, Full
<1> QED
  BY <1>5, <1>6, <1>8 DEF Latest

LEMMA CheckKeepsLatest == ASSUME DiskOK, SizeInv, Latest, CheckSize PROVE Latest'
<1>1. /\ step = "check" /\ fd /\ files' = files /\ present' = present
      /\ current_size' = current_size /\ index' = MaxFiles /\ new_size' = new_size /\ msg' = msg
      /\ step' = IF FileSize(files[0]) > 0 THEN "rotate" ELSE "write"
      /\ fd' = (step' = "write")
  BY DEF CheckSize, disk
<1>2. step' = "write" \/ (step' = "rotate" /\ FileSize(files[0]) > 0)
  BY <1>1
<1>3. Numbered'
  BY <1>1 DEF Latest, Numbered
<1>4. Exact'
  <2>1. /\ current_size = FileSize(files[0]) /\ new_size = current_size + msg.size
        /\ new_size > MaxSize
    BY <1>1 DEF Latest, Exact
  <2> QED
    BY <1>1, <1>2, <2>1 DEF Exact
<1>5. step' = "rotate" => files[0] # <<>>
  BY <1>2, EmptySizes
<1>6. Full'
  <2>1. \A n \in present : FollowerIn(files', msg', n) = FollowerIn(files, msg, n)
    BY <1>1 DEF FollowerIn
  <2> QED
    BY <1>1, <1>2, <1>5, <2>1 DEF Latest, Full
<1> QED
  BY <1>3, <1>4, <1>6 DEF Latest

\* The message is appended: it begins the base file or does not change how it
\* begins.
LEMMA WriteKeepsLatest == ASSUME DiskOK, SizeInv, Latest, WriteMessage PROVE Latest'
<1>1. /\ step = "write" /\ step' = "ready" /\ fd /\ fd' = fd /\ present' = present
      /\ files' = [files EXCEPT ![0] = Append(@, msg)]
      /\ current_size' = new_size /\ msg' = msg
  BY DEF WriteMessage, Latest, Exact
<1>2. /\ 0 \in Names /\ files[0] \in Seq(Chunks) /\ msg \in Chunks /\ msg.id \in Nat
      /\ msg.size \in Nat /\ files \in [Names -> Seq(Chunks)]
  BY SinkAssumption DEF DiskOK, Names, Chunks
<1>3. files'[0] = Append(files[0], msg) /\ \A n \in Names \ {0} : files'[n] = files[n]
  BY <1>1, <1>2
<1>4. /\ files'[0] # <<>>
      /\ files[0] # <<>> => files'[0][1] = files[0][1]
      /\ files[0] = <<>> => files'[0][1] = msg
  BY <1>2, <1>3
<1>5. Numbered'
  BY <1>1 DEF Latest, Numbered
<1>6. Exact'
  <2>1. new_size = FileSize(files[0]) + msg.size
    BY <1>1 DEF Latest, Exact
  <2>2. FileSize(files'[0]) = FileSize(files[0]) + msg.size
    BY <1>2, <1>3, AppendSizes
  <2> QED
    BY <1>1, <2>1, <2>2 DEF Exact
<1>7. 0 \in present /\ present \subseteq Names
  BY <1>1, Places DEF Latest, DiskOK
<1>8. ASSUME NEW n \in present \ {0}
      PROVE  files'[n] = files[n] /\ FollowerIn(files', msg', n) = FollowerIn(files, msg, n)
  <2>1. /\ n \in Nat /\ n \in Names /\ n - 1 \in Names
        /\ n > 1 => files[n - 1] # <<>> /\ FollowerIn(files, msg, n) = files[n - 1][1].size
    BY <1>1, <1>7, Fuller DEF Latest
  <2>2. files'[n] = files[n]
    BY <1>3, <2>1
  <2>3. CASE n = 1
    <3>1. FollowerIn(files', msg', 1) = files'[0][1].size
      BY <1>4 DEF FollowerIn
    <3>2. FollowerIn(files, msg, 1) = IF files[0] # <<>> THEN files[0][1].size ELSE msg.size
      BY DEF FollowerIn
    <3> QED
      BY <1>4, <2>2, <2>3, <3>1, <3>2
  <2>4. CASE n > 1
    <3>1. files'[n - 1] = files[n - 1]
      BY <1>3, <2>1, <2>4
    <3> QED
      BY <2>1, <2>2, <2>4, <3>1 DEF FollowerIn
  <2> QED
    BY <2>1, <2>3, <2>4
<1>9. Full'
  <2>1. \A n \in Names : files'[n] # <<>> => n \in present
    BY <1>3, <1>7 DEF Latest, Full
  <2>2. \A n \in present \ {0} : files'[n] # <<>> /\ FileSize(files'[n]) + FollowerIn(files', msg', n) > MaxSize
    BY <1>8 DEF Latest, Full
  <2> QED
    BY <1>1, <1>4, <2>1, <2>2 DEF Full
<1> QED
  BY <1>5, <1>6, <1>9 DEF Latest

LEMMA SkipKeepsLatest == ASSUME DiskOK, Latest, SkipMissing PROVE Latest'
<1>1. /\ step = "rotate" /\ index > 0 /\ index - 1 \notin present /\ index' = index - 1
      /\ UNCHANGED <<files, present, fd, current_size, step, msg, new_size>>
  BY DEF SkipMissing, disk
<1>2. MaxFiles \in Nat /\ index \in 0 .. MaxFiles /\ Names = 0 .. MaxFiles
  BY SinkAssumption DEF DiskOK, Names
<1>3. Numbered'
  <2>1. PICK p \in Names :
          \/ present = 0 .. p /\ (step # "rotate" \/ p < index \/ index = MaxFiles)
          \/ present = (0 .. p) \ {index} /\ step = "rotate" /\ index < p
    BY DEF Latest, Numbered
  <2>2. present = 0 .. p /\ p < index'
    BY <1>1, <1>2, <2>1
  <2> QED
    BY <1>1, <2>2 DEF Numbered
<1>4. Exact' /\ Full'
  BY <1>1 DEF Latest, Exact, Full, FollowerIn
<1> QED
  BY <1>3, <1>4 DEF Latest

\* A file moves up, and stays between the one that it follows and the one that
\* follows it.
LEMMA RenameKeepsLatest ==
    ASSUME DiskOK, SizeInv, Latest, RenameNext
    PROVE  Latest'
<1> DEFINE i == index
           j == index - 1
<1>1. /\ step = "rotate" /\ i > 0 /\ j \in present /\ index' = j
      /\ files' = [files EXCEPT ![i] = files[j], ![j] = <<>>]
      /\ present' = (present \ {j}) \cup {i}
      /\ UNCHANGED <<fd, current_size, step, msg, new_size>>
  BY DEF RenameNext
<1>2. /\ MaxFiles \in Nat /\ Names = 0 .. MaxFiles /\ i \in Names /\ j \in Names
      /\ i \in Nat /\ j \in Nat /\ i = j + 1 /\ present \subseteq Names
  BY <1>1, SinkAssumption DEF DiskOK, Names
<1>3. /\ files'[i] = files[j] /\ files'[j] = <<>>
      /\ \A n \in Names : n # i /\ n # j => files'[n] = files[n]
  BY <1>1, <1>2 DEF DiskOK
<1>4. i \in present => i = MaxFiles
  BY <1>1, Places DEF Latest
<1>5. \A n \in present \ {0} : /\ n \in Nat /\ n - 1 \in Names
                               /\ n - 1 \in present \/ n - 1 = i
  BY Places DEF Latest
<1>6. \A n \in present : files[n] # <<>>
  BY <1>1 DEF Latest, Full
<1>7. \A n \in Names : n \notin present => files[n] = <<>>
  BY DEF Latest, Full
<1>8. Numbered'
  <2>1. PICK p \in Names :
          \/ present = 0 .. p /\ (step # "rotate" \/ p < index \/ index = MaxFiles)
          \/ present = (0 .. p) \ {index} /\ step = "rotate" /\ index < p
    BY DEF Latest, Numbered
  <2>2. p \in Nat /\ p <= MaxFiles
    BY <1>2
  <2>3. CASE present = 0 .. p /\ p < i
    <3>1. p = j /\ present' = (0 .. i) \ {j}
      BY <1>1, <1>2, <2>2, <2>3
    <3> QED
      BY <1>1, <1>2, <3>1 DEF Numbered
  <2>4. CASE present = 0 .. p /\ ~ (p < i)
    <3>1. present' = (0 .. p) \ {j} /\ j < p
      BY <1>1, <1>2, <2>2, <2>4
    <3> QED
      BY <1>1, <1>2, <3>1 DEF Numbered
  <2>5. CASE present = (0 .. p) \ {index} /\ index < p
    <3>1. present' = (0 .. p) \ {j} /\ j < p
      BY <1>1, <1>2, <2>2, <2>5
    <3> QED
      BY <1>1, <1>2, <3>1 DEF Numbered
  <2> QED
    BY <2>1, <2>3, <2>4, <2>5
<1>9. 0 \in present' => 0 \in present /\ files'[0] = files[0]
  <2>1. 0 \in Names /\ i # 0
    BY <1>2
  <2> QED
    BY <1>1, <1>3, <2>1
<1>10. Exact'
  BY <1>1, <1>9 DEF Latest, Exact
<1> HIDE DEF i, j
<1>11. ASSUME NEW n \in present', n # 0
       PROVE  files'[n] # <<>> /\ FileSize(files'[n]) + FollowerIn(files', msg', n) > MaxSize
  <2>1. n \in Names /\ n \in Nat /\ n # j
    BY <1>1, <1>2
  \* The file that moved is followed by what followed it.
  <2>2. CASE n = i
    <3>1. files'[n] = files[j] /\ files[j] # <<>>
      BY <1>1, <1>3, <1>6, <2>2
    <3>2. n - 1 = j /\ files'[n - 1] = <<>>
      BY <1>2, <1>3, <2>2
    <3>3. CASE n = 1
      <4>1. j = 0 /\ FileSize(files[0]) + msg.size > MaxSize
        BY <1>1, <1>2, <2>2, <3>3 DEF Latest, Exact
      <4>2. FollowerIn(files', msg', n) = msg.size
        BY <1>1, <3>2, <3>3 DEF FollowerIn
      <4> QED
        BY <3>1, <4>1, <4>2
    <3>4. CASE n # 1
      <4>1. j # 0 /\ j - 1 = n - 2 /\ j - 1 \in Names /\ j - 1 \in present
        BY <1>1, <1>2, <1>5, <2>2, <3>4
      <4>2. files[j - 1] # <<>> /\ files'[j - 1] = files[j - 1]
        BY <1>2, <1>3, <1>6, <4>1
      <4>3. FollowerIn(files', msg', n) = files[j - 1][1].size
        BY <3>2, <3>4, <4>1, <4>2 DEF FollowerIn
      <4>4. FollowerIn(files, msg, j) = files[j - 1][1].size
        BY <4>2 DEF FollowerIn
      <4>5. FileSize(files[j]) + FollowerIn(files, msg, j) > MaxSize
        BY <1>1, <4>1 DEF Latest, Full
      <4> QED
        BY <3>1, <4>3, <4>4, <4>5
    <3> QED
      BY <3>3, <3>4
  \* The one before it was followed by it across the free place.
  <2>3. CASE n = i + 1
    <3>0. n # i /\ n # j /\ n - 1 = i /\ n - 2 = j /\ n # 1
      BY <1>2, <2>1, <2>3
    <3>1. n \in present /\ n # i /\ n - 1 = i /\ n - 2 = j /\ n # 1 /\ files'[n] = files[n]
      BY <1>1, <1>3, <2>1, <3>0
    <3>2. i \notin present
      BY <1>2, <1>4, <2>1, <2>3
    <3>3. files[i] = <<>> /\ files[j] # <<>>
      BY <1>1, <1>2, <1>6, <1>7, <3>2
    <3>4. FollowerIn(files, msg, n) = files[j][1].size
      BY <3>1, <3>3 DEF FollowerIn
    <3>5. FollowerIn(files', msg', n) = files[j][1].size
      BY <1>3, <3>1, <3>3 DEF FollowerIn
    <3>6. FileSize(files[n]) + FollowerIn(files, msg, n) > MaxSize /\ files[n] # <<>>
      BY <3>1, <1>11 DEF Latest, Full
    <3> QED
      BY <3>1, <3>4, <3>5, <3>6
  <2>4. CASE n # i /\ n # i + 1
    <3>1. n \in present /\ files'[n] = files[n]
      BY <1>1, <1>3, <2>1, <2>4
    <3>2. n - 1 \in Names /\ n - 1 \in present /\ n - 1 # i /\ n - 1 # j
      BY <1>2, <1>5, <1>11, <2>1, <2>4, <3>1
    <3>3. files'[n - 1] = files[n - 1] /\ files[n - 1] # <<>>
      BY <1>3, <1>6, <3>2
    <3>4. FollowerIn(files', msg', n) = FollowerIn(files, msg, n)
      BY <3>3 DEF FollowerIn
    <3>5. FileSize(files[n]) + FollowerIn(files, msg, n) > MaxSize /\ files[n] # <<>>
      BY <3>1, <1>11 DEF Latest, Full
    <3> QED
      BY <3>1, <3>4, <3>5
  <2> QED
    BY <2>2, <2>3, <2>4
<1>12. Full'
  <2>1. \A n \in Names : files'[n] # <<>> => n \in present'
    BY <1>1, <1>3, <1>7
  <2>2. 0 \in present' => files'[0] # <<>>
    BY <1>6, <1>9
  <2> QED
    BY <1>1, <1>11, <2>1, <2>2 DEF Full
<1> QED
  BY <1>8, <1>10, <1>12 DEF Latest

\* The base file begins again: it has moved, or there is only one file.
LEMMA ReopenKeepsLatest == ASSUME DiskOK, SizeInv, Latest, Reopen PROVE Latest'
<1>1. /\ step = "rotate" /\ index = 0 /\ step' = "write" /\ fd' /\ new_size' = msg.size
      /\ files' = [files EXCEPT ![0] = <<>>] /\ present' = present \cup {0}
      /\ UNCHANGED <<current_size, index, msg>>
  BY DEF Reopen, Reopened
<1>2. /\ MaxFiles \in Nat /\ Names = 0 .. MaxFiles /\ 0 \in Names /\ msg.size \in Nat
      /\ files \in [Names -> Seq(Chunks)]
  BY SinkAssumption DEF DiskOK, Names, Chunks
<1>3. files'[0] = <<>> /\ \A n \in Names \ {0} : files'[n] = files[n]
  BY <1>1, <1>2
<1>4. Exact'
  BY <1>1, <1>2, <1>3, EmptySizes DEF Exact
<1>6. PICK p \in Names :
        \/ present = 0 .. p /\ (p < index \/ index = MaxFiles)
        \/ present = (0 .. p) \ {index} /\ index < p
  BY <1>1 DEF Latest, Numbered
<1>7. CASE MaxFiles = 0
  <2>1. present' = 0 .. 0 /\ \A n \in Names : n = 0
    BY <1>1, <1>2, <1>6, <1>7
  <2>3. Numbered'
    BY <1>1, <1>2, <2>1 DEF Numbered
  <2>4. Full'
    BY <1>1, <1>3, <2>1 DEF Full
  <2> QED
    BY <1>4, <2>3, <2>4 DEF Latest
<1>8. CASE MaxFiles # 0
  <2>1. present = (0 .. p) \ {0} /\ p \in Nat /\ 0 \notin present
    BY <1>1, <1>2, <1>6, <1>8
  <2>2. present' = 0 .. p
    BY <1>1, <2>1
  <2>3. files[0] = <<>> /\ files' = files
    <3>1. files[0] = <<>>
      BY <1>2, <2>1 DEF Latest, Full
    <3> QED
      BY <1>1, <1>2, <3>1
  <2>4. Numbered'
    BY <1>1, <2>2 DEF Numbered
  <2>5. Full'
    <3>1. \A n \in present' \ {0} : n \in present \ {0}
      BY <1>1
    <3>2. \A n \in present : FollowerIn(files', msg', n) = FollowerIn(files, msg, n)
      BY <1>1, <2>3 DEF FollowerIn
    <3> QED
      BY <1>1, <2>3, <3>1, <3>2 DEF Latest, Full
  <2> QED
    BY <1>4, <2>4, <2>5 DEF Latest
<1> QED
  BY <1>7, <1>8

\* Every other step fails, and with that the promise ends.
LEMMA NextKeepsLatest ==
    OrderInv /\ CallInv /\ SizeInv /\ LatestInv /\ [Next]_vars => LatestInv'
<1> SUFFICES ASSUME OrderInv, CallInv, SizeInv, LatestInv, [Next]_vars, faults' = 0
             PROVE  Latest'
  BY DEF LatestInv
<1>1. faults \in Nat /\ DiskOK
  BY DEF CallInv, OrderInv
<1>2. ~ Fault
  BY <1>1 DEF Fault
<1>3. faults = 0
  BY <1>2 DEF Next, Rotate, SinkIt, CheckThrows, CheckSize, WriteMessage, WriteFails, Flush,
              FlushFails, SkipMissing, RenameNext, RenameFails, Salvage, Reopen, ReopenFails,
              NotReopened, history, vars
<1>4. Latest
  BY <1>3 DEF LatestInv
<1>5. ~ CheckThrows /\ ~ Salvage
  BY <1>2, <1>4 DEF CheckThrows, Salvage, Latest, Exact
<1>6. ~ WriteFails /\ ~ FlushFails /\ ~ RenameFails /\ ~ ReopenFails
  BY <1>2 DEF WriteFails, FlushFails, RenameFails, ReopenFails, NotReopened
<1>7. CASE Flush \/ UNCHANGED vars
  <2>1. UNCHANGED <<files, present, fd, current_size, step, index, msg, new_size>>
    BY <1>7 DEF Flush, disk, vars
  <2>2. Numbered' /\ Exact'
    BY <1>4, <2>1 DEF Latest, Numbered, Exact
  <2>3. Full'
    BY <1>4, <2>1 DEF Latest, Full
  <2> QED
    BY <2>2, <2>3 DEF Latest
<1> QED
  BY <1>1, <1>4, <1>5, <1>6, <1>7, SinkItKeepsLatest, CheckKeepsLatest, WriteKeepsLatest,
     SkipKeepsLatest, RenameKeepsLatest, ReopenKeepsLatest
  DEF Next, Rotate

\* While the disk does not fail the sink loses only the oldest messages, when all
\* of its files are full: for any number of files, limit and sizes of messages
\* (rotating_file_sink::sink_it_, rotate_).
THEOREM LatestAreKept == Spec => []KeepsLatest
<1> DEFINE Inv == OrderInv /\ SizeInv /\ CallInv /\ GapInv /\ LatestInv
<1>1. Init => Inv
  BY InitOrderInv, InitSizes, InitCallGap, InitLatest
<1>2. Inv /\ [Next]_vars => Inv'
  BY NextKeepsOrder, NextKeepsSizes, NextKeepsCall, NextKeepsGap, NextKeepsLatest
<1>3. Inv => KeepsLatest
  <2> SUFFICES ASSUME Inv, faults = 0, step = "ready", msg.id > 0
               PROVE  /\ msg.id \in Kept
                      /\ \A id \in Kept : id .. msg.id \subseteq Kept
                      /\ MaxFiles \notin present => 1 .. msg.id \subseteq Kept
                      /\ \A n \in present \ {0} :
                           /\ n - 1 \in present
                           /\ FileSize(files[n]) + files[n - 1][1].size > MaxSize
    BY DEF KeepsLatest
  <2>1. Latest /\ DiskOK /\ OrderInv /\ msg.id \in Nat
    BY DEF LatestInv, OrderInv, DiskOK, Chunks
  <2>2. Gapless /\ Written = msg.id /\ intact = 0
    BY DEF GapInv, CallInv, Written
  <2>3. ASSUME NEW n \in present \ {0}
        PROVE  n - 1 \in present /\ FileSize(files[n]) + files[n - 1][1].size > MaxSize
    <3>1. /\ n \in Nat /\ n - 1 \in present
          /\ n > 1 => files[n - 1] # <<>>
      BY <2>1, Fuller DEF Latest
    <3>2. files[0] # <<>>
      BY <2>1 DEF Latest, Full
    <3>3. files[n - 1] # <<>>
      <4>1. n = 1 \/ n > 1
        BY <3>1
      <4> QED
        BY <3>1, <3>2, <4>1
    <3>4. FollowerIn(files, msg, n) = files[n - 1][1].size
      BY <3>3 DEF FollowerIn
    <3> QED
      BY <2>1, <3>1, <3>4 DEF Latest, Full
  <2>4. \A id \in Kept : id \in Nat
    BY <2>1, KeptHolds, KeptIds
  <2> HIDE DEF Inv
  <2> QED
    BY <2>1, <2>2, <2>3, <2>4 DEF Gapless
<1> HIDE DEF Inv
<1>4. Spec => []Inv
  BY <1>1, <1>2, PTL DEF Spec
<1> QED
  BY <1>3, <1>4, PTL
=============================================================================
