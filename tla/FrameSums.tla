------------------------------- MODULE FrameSums -------------------------------
(***************************************************************************)
(* Byte and buffer counts of a queue of frames, as Drain accumulates them   *)
(* while it walks m_write_queue (TCPSession.cpp): the k-th partial sum is   *)
(* the count after k frames.  A frame is the size of its body; a frame with *)
(* an empty body has a header and nothing else.                            *)
(***************************************************************************)
EXTENDS Sums

CONSTANT HeaderBytes     \* sizeof(TCPHeaderConv)

ASSUME HeaderAssumption == HeaderBytes \in Nat \ {0}

FrameBytes(body) == HeaderBytes + body

FrameIovs(body) == IF body = 0 THEN 1 ELSE 2

BytesOf(queue) == PartialSums([i \in 1..Len(queue) |-> FrameBytes(queue[i])])
IovsOf(queue)  == PartialSums([i \in 1..Len(queue) |-> FrameIovs(queue[i])])

\* Bytes of a whole queue.
QueueBytes(queue) == BytesOf(queue)[Len(queue)]
=============================================================================
