----------------------------- MODULE LogChannel -----------------------------
(***************************************************************************)
(* What the process expects of its log: records are accepted one after the  *)
(* other, the disk holds a prefix of them that only grows, and the log is   *)
(* closed only when it holds them all.  A process that dies earlier leaves  *)
(* a prefix behind, never a record out of order, twice or after a gap.      *)
(***************************************************************************)
EXTENDS Naturals, Sequences

CONSTANT Records

VARIABLES
    log,     \* the records accepted, in order
    disk,    \* those on disk
    closed

vars == <<log, disk, closed>>

Init == log = <<>> /\ disk = <<>> /\ closed = FALSE

Accept(r) ==
    /\ ~closed
    /\ log' = Append(log, r)
    /\ UNCHANGED <<disk, closed>>

Keep(n) ==
    /\ disk' = SubSeq(log, 1, n)
    /\ UNCHANGED <<log, closed>>

\* The last step may keep what is missing and close at once.
Close ==
    /\ disk' = log
    /\ closed' = TRUE
    /\ UNCHANGED log

Next ==
    \/ \E r \in Records : Accept(r)
    \/ \E n \in Len(disk) .. Len(log) : Keep(n)
    \/ Close

Spec == Init /\ [][Next]_vars
=============================================================================
