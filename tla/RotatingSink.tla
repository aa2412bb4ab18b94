---------------------------- MODULE RotatingSink ----------------------------
(***************************************************************************)
(* The sink of the file logger: spdlog's rotating_file_sink over its        *)
(* file_helper, on a disk that may refuse to rename, to open, to flush or   *)
(* to write.  Only the thread of the pool calls it (AsyncLogging), and what *)
(* it throws is caught there (async_logger::backend_sink_it_): the message  *)
(* is dropped and the next one comes.                                       *)
(*                                                                         *)
(* A file is the sequence of what was written to it.  The end of the base   *)
(* file may still be in the buffer of the stream: a crash loses it, and so  *)
(* does a flush that fails.  One call of sink_it_ takes several steps, one  *)
(* per change on disk, and the process may die between any two of them:     *)
(* what the disk must satisfy it satisfies in every state.                  *)
(***************************************************************************)
EXTENDS Naturals, Sequences, FiniteSets, Sums

CONSTANTS
    MaxSize,     \* max_size_
    MaxFiles,    \* max_files_: the rotated files kept besides the base file
    Sizes,       \* sizes of formatted messages
    MaxMessages, \* bound: messages logged
    MaxFaults    \* bound: operations of the disk that fail

ASSUME SinkAssumption ==
    /\ MaxSize \in Nat \ {0} /\ MaxFiles \in Nat
    /\ Sizes \subseteq Nat \ {0}
    /\ MaxMessages \in Nat /\ MaxFaults \in Nat

VARIABLES
    files,          \* what each file holds, by its index; the base file is 0
    present,        \* the files that exist
    fd,             \* fd_ is open, on the base file
    buffered,       \* how many of its last chunks are not, or not all, on disk
    current_size,   \* current_size_
    step,           \* where sink_it_ is
    index,          \* the loop of rotate_: the file to rename to
    msg,            \* the message, once it is numbered
    new_size,
    faults,         \* history: operations that failed
    intact,         \* history: the first message logged after the last of them
    openFailed      \* history: an open failed

disk    == <<files, present>>
history == <<faults, intact, openFailed>>
vars    == <<files, present, fd, buffered, current_size, step, index, msg, new_size,
             faults, intact, openFailed>>

Names == 0 .. MaxFiles

\* What one write left in a file: all of a message, or its first bytes.
Chunk(id, size, whole) == [id |-> id, size |-> size, whole |-> whole]
Chunks == [id : Nat, size : Nat, whole : BOOLEAN]

FileSize(file) == Total([k \in 1 .. Len(file) |-> file[k].size])

\* The constructor appends to a file that is already there (a process started
\* again within the second that is in the name).
Init ==
    /\ files \in {[n \in Names |-> <<>>]} \cup
                 {[n \in Names |-> IF n = 0 THEN <<Chunk(0, s, TRUE)>> ELSE <<>>] : s \in Sizes}
    /\ present = {0} /\ fd = TRUE /\ buffered = 0
    /\ current_size = FileSize(files[0])
    /\ step = "ready" /\ index = 0 /\ msg = Chunk(0, 0, TRUE) /\ new_size = 0
    /\ faults = 0 /\ intact = 0 /\ openFailed = FALSE

-----------------------------------------------------------------------------
(* Outcomes                                                                 *)

Fault ==
    /\ faults < MaxFaults
    /\ faults' = faults + 1
    /\ intact' = msg.id + 1

\* What may be left of a file of which the first n chunks are safe: these, and
\* the first bytes of the next.
Torn(file, n) ==
    {SubSeq(file, 1, n)} \cup
      IF n = Len(file) THEN {}
      ELSE {Append(SubSeq(file, 1, n), Chunk(file[n + 1].id, k, FALSE)) : k \in 1 .. file[n + 1].size - 1}

\* A flush that fails: the disk has taken the beginning of the buffer, if anything,
\* and the stream lets go of the rest.
LoseBuffer ==
    /\ \E n \in 0 .. Len(files[0]) :
         /\ n + buffered >= Len(files[0])
         /\ \E rest \in Torn(files[0], n) : files' = [files EXCEPT ![0] = rest]
    /\ buffered' = 0

\* reopen(true): the file is emptied and opened.
Reopened ==
    /\ files' = [files EXCEPT ![0] = <<>>]
    /\ present' = present \cup {0}
    /\ fd' = TRUE

\* It was emptied or not, but could not be opened: fd_ stays null.
NotReopened ==
    /\ Fault /\ openFailed' = TRUE
    /\ \/ UNCHANGED disk
       \/ files' = [files EXCEPT ![0] = <<>>] /\ present' = present \cup {0}
    /\ UNCHANGED fd

-----------------------------------------------------------------------------
(* sink_it_                                                                 *)

SinkItAtLimit(size) ==      \* mutant: rotates when the message would just fit
    /\ step = "ready" /\ msg.id < MaxMessages
    /\ msg' = Chunk(msg.id + 1, size, TRUE)
    /\ new_size' = current_size + size
    /\ step' = IF new_size' >= MaxSize THEN "check" ELSE "write"
    /\ UNCHANGED <<disk, fd, buffered, current_size, index, history>>

SinkIt(size) ==
    /\ step = "ready" /\ msg.id < MaxMessages
    /\ msg' = Chunk(msg.id + 1, size, TRUE)
    /\ new_size' = current_size + size
    /\ step' = IF new_size' > MaxSize THEN "check" ELSE "write"
    /\ UNCHANGED <<disk, fd, buffered, current_size, index, history>>

\* flush fails, or size() is asked of a file that is not open.
CheckThrows ==
    /\ step = "check" /\ step' = "ready"
    /\ IF fd THEN Fault /\ LoseBuffer ELSE UNCHANGED <<files, buffered, faults, intact>>
    /\ UNCHANGED <<present, fd, current_size, index, msg, new_size, openFailed>>

\* The buffer is flushed, and the file closed if it is to be rotated.
CheckSize ==
    /\ step = "check" /\ fd
    /\ step' = IF FileSize(files[0]) > 0 THEN "rotate" ELSE "write"
    /\ fd' = (step' = "write")
    /\ buffered' = 0
    /\ index' = MaxFiles
    /\ UNCHANGED <<disk, current_size, msg, new_size, history>>

WriteUncounted ==           \* mutant: current_size_ is not updated
    /\ step = "write" /\ fd
    /\ files' = [files EXCEPT ![0] = Append(@, msg)]
    /\ step' = "ready"
    /\ UNCHANGED <<present, fd, buffered, current_size, index, msg, new_size, history>>

\* The message goes to the buffer; when this is full it is written out, and at most
\* the end of the message stays in it.
WriteMessage ==
    /\ step = "write"
    /\ IF fd THEN /\ files' = [files EXCEPT ![0] = Append(@, msg)]
                  /\ buffered' \in {0, 1, buffered + 1}
             ELSE UNCHANGED <<files, buffered>>
    /\ current_size' = new_size
    /\ step' = "ready"
    /\ UNCHANGED <<present, fd, index, msg, new_size, history>>

\* The full buffer could not be written out, or the message after it only in
\* part; current_size_ is what it was.
WriteFails ==
    /\ step = "write" /\ fd /\ step' = "ready"
    /\ Fault
    /\ \/ LoseBuffer
       \/ /\ \E k \in 1 .. msg.size - 1 :
               files' = [files EXCEPT ![0] = Append(@, Chunk(msg.id, k, FALSE))]
          /\ buffered' = 0
    /\ UNCHANGED <<present, fd, current_size, index, msg, new_size, openFailed>>

-----------------------------------------------------------------------------
(* flush_, called between two messages                                      *)

Flush ==
    /\ step = "ready" /\ fd /\ buffered > 0
    /\ buffered' = 0
    /\ UNCHANGED <<disk, fd, current_size, step, index, msg, new_size, history>>

FlushFails ==
    /\ step = "ready" /\ fd /\ buffered > 0
    /\ Fault /\ LoseBuffer
    /\ UNCHANGED <<present, fd, current_size, step, index, msg, new_size, openFailed>>

-----------------------------------------------------------------------------
(* rotate_, from the oldest file to the base file                           *)

SkipMissing ==
    /\ step = "rotate" /\ index > 0
    /\ index - 1 \notin present
    /\ index' = index - 1
    /\ UNCHANGED <<disk, fd, buffered, current_size, step, msg, new_size, history>>

RenameCopies ==             \* mutant: the source stays
    /\ step = "rotate" /\ index > 0
    /\ index - 1 \in present
    /\ files' = [files EXCEPT ![index] = files[index - 1]]
    /\ present' = present \cup {index}
    /\ index' = index - 1
    /\ UNCHANGED <<fd, buffered, current_size, step, msg, new_size, history>>

RenameNext ==
    /\ step = "rotate" /\ index > 0
    /\ index - 1 \in present
    /\ files' = [files EXCEPT ![index] = files[index - 1], ![index - 1] = <<>>]
    /\ present' = (present \ {index - 1}) \cup {index}
    /\ index' = index - 1
    /\ UNCHANGED <<fd, buffered, current_size, step, msg, new_size, history>>

\* Failed twice: the target may be removed all the same.
RenameFails ==
    /\ step = "rotate" /\ index > 0
    /\ index - 1 \in present
    /\ Fault
    /\ step' = "salvage"
    /\ \/ UNCHANGED disk
       \/ files' = [files EXCEPT ![index] = <<>>] /\ present' = present \ {index}
    /\ UNCHANGED <<fd, buffered, current_size, index, msg, new_size, openFailed>>

GiveUpRotation ==           \* mutant: throws without opening the file again
    /\ step = "salvage" /\ step' = "ready"
    /\ current_size' = 0
    /\ UNCHANGED <<disk, fd, buffered, index, msg, new_size, history>>

\* The base file is emptied anyway, to keep within its limit: what it held is lost.
Salvage ==
    /\ step = "salvage" /\ step' = "ready"
    /\ Reopened
    /\ current_size' = 0
    /\ UNCHANGED <<buffered, index, msg, new_size, history>>

Reopen ==
    /\ step = "rotate" /\ index = 0
    /\ Reopened
    /\ new_size' = msg.size
    /\ step' = "write"
    /\ UNCHANGED <<buffered, current_size, index, msg, history>>

ReopenFails ==
    /\ step = "salvage" \/ (step = "rotate" /\ index = 0)
    /\ step' = "ready"
    /\ NotReopened
    /\ UNCHANGED <<buffered, current_size, index, msg, new_size>>

Rotate == SkipMissing \/ RenameNext \/ RenameFails \/ Salvage \/ Reopen \/ ReopenFails

Next ==
    \/ \E size \in Sizes : SinkIt(size)
    \/ CheckThrows \/ CheckSize \/ WriteMessage \/ WriteFails
    \/ Flush \/ FlushFails
    \/ Rotate

Spec == Init /\ [][Next]_vars

-----------------------------------------------------------------------------
(* Properties                                                               *)

\* The files, read from the highest index to the base file, hold the messages
\* in the order they were logged, none twice: in every state a crash could
\* leave behind, the middle of a rotation included, and whatever has failed (a
\* crash takes the end of the base file with it, which changes no order).
OldestFirst ==
    /\ \A n \in Names : \A j, k \in DOMAIN files[n] :
         j < k => files[n][j].id < files[n][k].id
    /\ \A m, n \in Names : m < n =>
         \A j \in DOMAIN files[m], k \in DOMAIN files[n] : files[n][k].id < files[m][j].id

WholeChunks(file) == {k \in DOMAIN file : file[k].whole}
WholeSize(file)   == Total([k \in 1 .. Len(file) |-> IF file[k].whole THEN file[k].size ELSE 0])

\* No file holds more than MaxSize of messages, but for a single message that is
\* longer.  current_size_ is an estimate that errors leave behind at an older
\* value, and what a failed write left in the file is not in it.
SizeBounded ==
    \A n \in Names :
      \/ Cardinality(WholeChunks(files[n])) <= 1
      \/ WholeSize(files[n]) <= MaxSize

\* The messages that are there, whole.
Kept == UNION {{files[n][k].id : k \in WholeChunks(files[n])} : n \in Names}

\* While nothing fails the sink forgets only the oldest messages, and only when
\* MaxFiles + 1 files are full: the last message is there (or on its way, in the
\* buffer), no gap follows a message that is, and no file is left before the next
\* message is too long for it.
KeepsLatest ==
    (faults = 0 /\ step = "ready" /\ msg.id > 0) =>
      /\ msg.id \in Kept
      /\ \A id \in Kept : id .. msg.id \subseteq Kept
      /\ MaxFiles \notin present => 1 .. msg.id \subseteq Kept
      /\ \A n \in present \ {0} :
           /\ n - 1 \in present
           /\ FileSize(files[n]) + files[n - 1][1].size > MaxSize

\* A failure may cost the message at hand, all that was buffered, and when it is a
\* rename also the base file, which is emptied, and the target, which is removed.
\* It costs nothing that is logged after it, for as long as the file can be opened
\* again: the sink is open for the next message, and of those since the last
\* failure the latest are kept without a gap, all of them until the last file is
\* taken.
LossesEndWithFault ==
    (~openFailed /\ step = "ready") =>
      LET since == (intact .. msg.id) \ {0}
      IN  /\ fd
          /\ since # {} => msg.id \in Kept
          /\ \A id \in Kept \cap since : id .. msg.id \subseteq Kept
          /\ MaxFiles \notin present => since \subseteq Kept
=============================================================================
