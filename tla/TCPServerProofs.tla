--------------------------- MODULE TCPServerProofs ---------------------------
(***************************************************************************)
(* Proofs about TCPServer, for any set of sessions.  The inductive          *)
(* invariant says what the handlers on the strand mean for the rest of the  *)
(* state: a stage of the accept loop is queued only when no other is taken  *)
(* (LoopInv); a queued Stop, and one that has run, was preceded by the flag *)
(* that keeps OnAccept from making sessions (StopInv); a session has its    *)
(* entry until Stop clears them all (EntriesInv), and none before it is     *)
(* accepted or after it is deleted (NoEntryInv); a deletion is queued for   *)
(* exactly the released sessions (DeletionsInv); and when Run has returned  *)
(* nothing is left that could take a step (ReturnInv).                      *)
(***************************************************************************)
EXTENDS TCPServer, TLAPS

Loop  == {"start", "accepted", "failed", "retry"}
Tasks == [run : Loop \cup {"signal", "stop", "erase"}, session : Sessions \cup {"none"}]
Phases == Held \cup {"none", "released", "deleted"}

TypeOK ==
    /\ strand \in Seq(Tasks)
    /\ accepting \in BOOLEAN /\ retrying \in BOOLEAN /\ signals \in BOOLEAN
    /\ m_is_stopped \in BOOLEAN /\ m_work_guard \in BOOLEAN /\ returned \in BOOLEAN
    /\ acceptor \in {"open", "closed"}
    /\ m_sessions \subseteq Sessions
    /\ phase \in [Sessions -> Phases]

Handlers == 1 .. Len(strand)

LoopInv ==
    /\ accepting => ~ retrying
    /\ accepting \/ retrying => \A i \in Handlers : strand[i].run \notin Loop
    /\ \A i, j \in Handlers : strand[i].run \in Loop /\ strand[j].run \in Loop => i = j

StopInv ==
    /\ \A i \in Handlers : strand[i].run = "stop" => m_is_stopped
    /\ ~ m_work_guard => m_is_stopped /\ acceptor = "closed"

EntriesInv == StopReachesAll

\* Which handler deletes a session.
Erases(i, s) == strand[i].run = "erase" /\ strand[i].session = s

DeletionsInv ==
    /\ \A s \in Sessions : \A i, j \in Handlers : Erases(i, s) /\ Erases(j, s) => i = j
    /\ \A s \in Sessions : \A i \in Handlers : Erases(i, s) => phase[s] = "released"
    /\ \A s \in Sessions : phase[s] = "released" => \E i \in Handlers : Erases(i, s)

NoEntryInv == \A s \in Sessions : phase[s] \in {"none", "deleted"} => s \notin m_sessions

ReturnInv == returned => ~ Work

ServerInv ==
    /\ TypeOK
    /\ LoopInv
    /\ StopInv
    /\ EntriesInv
    /\ DeletionsInv
    /\ NoEntryInv
    /\ ReturnInv

-----------------------------------------------------------------------------
(* The strand                                                               *)

\* A handler that posts nothing has run.
LEMMA HeadGone ==
    ASSUME strand \in Seq(Tasks), NEW what, Runs(what, <<>>)
    PROVE  /\ strand' \in Seq(Tasks) /\ Len(strand) \in Nat /\ Len(strand) >= 1
           /\ strand[1].run = what
           /\ Len(strand') = Len(strand) - 1
           /\ \A i \in 1 .. Len(strand') : strand'[i] = strand[i + 1]
<1>1. Tail(strand) \o <<>> = Tail(strand)
  BY DEF Runs
<1> QED
  BY <1>1 DEF Runs

\* A handler that posts one has run.
LEMMA HeadReplaced ==
    ASSUME strand \in Seq(Tasks), NEW what, NEW task \in Tasks, Runs(what, <<task>>)
    PROVE  /\ strand' \in Seq(Tasks) /\ Len(strand) \in Nat /\ Len(strand) >= 1
           /\ strand[1].run = what
           /\ Len(strand') = Len(strand)
           /\ \A i \in 1 .. (Len(strand) - 1) : strand'[i] = strand[i + 1]
           /\ strand'[Len(strand)] = task
<1> DEFINE rest == Tail(strand)
<1>1. /\ rest \in Seq(Tasks) /\ Len(strand) \in Nat /\ Len(strand) >= 1
      /\ Len(rest) = Len(strand) - 1
      /\ \A i \in 1 .. (Len(strand) - 1) : rest[i] = strand[i + 1]
      /\ strand[1].run = what
  BY DEF Runs
<1>2. strand' = rest \o <<task>>
  BY DEF Runs
<1> HIDE DEF rest
<1>3. <<task>> \in Seq(Tasks) /\ Len(<<task>>) = 1 /\ <<task>>[1] = task
  OBVIOUS
<1>4. strand' \in Seq(Tasks) /\ Len(strand') = Len(strand)
  BY <1>1, <1>2, <1>3
<1>5. \A i \in 1 .. (Len(strand) - 1) : strand'[i] = rest[i]
  BY <1>1, <1>2, <1>3
<1>6. strand'[Len(strand)] = task
  BY <1>1, <1>2, <1>3
<1> QED
  BY <1>1, <1>4, <1>5, <1>6

LEMMA TailGrows ==
    ASSUME strand \in Seq(Tasks), NEW task \in Tasks, Posts(task)
    PROVE  /\ strand' \in Seq(Tasks) /\ Len(strand) \in Nat
           /\ Len(strand') = Len(strand) + 1
           /\ \A i \in 1 .. Len(strand) : strand'[i] = strand[i]
           /\ strand'[Len(strand) + 1] = task
BY DEF Posts

\* What is posted is a handler.
LEMMA TheTasks ==
    /\ \A what \in Loop \cup {"signal", "stop"} :
         Task(what) \in Tasks /\ Task(what).run = what
    /\ \A s \in Sessions : EraseTask(s) \in Tasks /\ EraseTask(s).run = "erase"
                             /\ EraseTask(s).session = s
BY DEF Task, EraseTask, Tasks

-----------------------------------------------------------------------------
(* Types                                                                    *)

LEMMA NextKeepsTypes == TypeOK /\ [Next]_vars => TypeOK'
<1> SUFFICES ASSUME TypeOK, [Next]_vars PROVE TypeOK'
  OBVIOUS
<1>0. strand \in Seq(Tasks)
  BY DEF TypeOK
<1>1. CASE RunStarts
  <2>1. strand' \in Seq(Tasks)
    BY <1>0, <1>1, HeadGone DEF RunStarts
  <2> QED
    BY <1>1, <2>1 DEF RunStarts, StartAcceptor, TypeOK, stopVars
<1>2. CASE OnAcceptStopped
  <2>1. strand' \in Seq(Tasks)
    BY <1>0, <1>2, HeadGone DEF OnAcceptStopped
  <2> QED
    BY <1>2, <2>1 DEF OnAcceptStopped, TypeOK, stopVars
<1>3. CASE OnAcceptThrows \/ OnAcceptFailed
  <2>1. strand' \in Seq(Tasks)
    BY <1>0, <1>3, HeadGone DEF OnAcceptThrows, OnAcceptFailed
  <2> QED
    BY <1>3, <2>1 DEF OnAcceptThrows, OnAcceptFailed, TypeOK, stopVars
<1>4. ASSUME NEW s \in Sessions, OnAcceptSession(s) PROVE TypeOK'
  <2>1. strand' \in Seq(Tasks)
    BY <1>0, <1>4, HeadGone DEF OnAcceptSession
  <2> QED
    BY <1>4, <2>1 DEF OnAcceptSession, StartAcceptor, TypeOK, stopVars, Phases, Held
<1>5. CASE SignalHandled
  <2>1. CASE m_is_stopped
    BY <1>0, <1>5, <2>1, HeadGone DEF SignalHandled, TypeOK
  <2>2. CASE ~ m_is_stopped
    <3>1. strand' \in Seq(Tasks)
      BY <1>0, <1>5, <2>2, HeadReplaced, TheTasks DEF SignalHandled
    <3> QED
      BY <1>5, <3>1 DEF SignalHandled, TypeOK
  <2> QED
    BY <2>1, <2>2
<1>6. CASE Stop
  <2>1. strand' \in Seq(Tasks)
    BY <1>0, <1>6, HeadGone DEF Stop
  <2>2. phase' \in [Sessions -> Phases]
    BY <1>6 DEF Stop, ShutdownAll, TypeOK, Phases, Held
  <2> QED
    BY <1>6, <2>1, <2>2 DEF Stop, TypeOK
<1>7. ASSUME NEW s \in Sessions, SessionErased(s) PROVE TypeOK'
  <2>1. strand' \in Seq(Tasks)
    BY <1>0, <1>7, HeadGone DEF SessionErased
  <2> QED
    BY <1>7, <2>1 DEF SessionErased, TypeOK, stopVars, Phases, Held
<1>8. ASSUME NEW s \in Sessions, SessionSteps(s) PROVE TypeOK'
  <2>1. strand' \in Seq(Tasks)
    BY <1>0, <1>8, TailGrows, TheTasks
    DEF SessionSteps, SessionShutdown, SessionCloses, SessionReleased
  <2> QED
    BY <1>8, <2>1 DEF SessionSteps, SessionShutdown, SessionCloses, SessionReleased, SessionMoves,
                      TypeOK, stopVars, Phases, Held
<1>9. CASE AcceptEnds
  <2>1. strand' \in Seq(Tasks)
    BY <1>0, <1>9, TailGrows, TheTasks DEF AcceptEnds, Loop
  <2> QED
    BY <1>9, <2>1 DEF AcceptEnds, TypeOK, stopVars
<1>10. CASE TimerExpires \/ Signal
  <2>1. strand' \in Seq(Tasks)
    BY <1>0, <1>10, TailGrows, TheTasks DEF TimerExpires, Signal, Loop
  <2> QED
    BY <1>10, <2>1 DEF TimerExpires, Signal, TypeOK, stopVars
<1>11. CASE RunReturns
  BY <1>11 DEF RunReturns, TypeOK
<1>12. CASE UNCHANGED vars
  BY <1>12 DEF vars, TypeOK
<1> QED
  BY <1>1, <1>2, <1>3, <1>4, <1>5, <1>6, <1>7, <1>8, <1>9, <1>10, <1>11, <1>12
  DEF Next, StrandRuns, OnAccept

-----------------------------------------------------------------------------
(* The accept loop                                                          *)

\* A stage of the loop has run: it was the only one, so none is left, and one
\* at most is taken now.
LEMMA StageRuns ==
    ASSUME TypeOK, LoopInv, NEW what \in Loop, Runs(what, <<>>), ~ (accepting' /\ retrying')
    PROVE  LoopInv'
<1>1. /\ Len(strand) \in Nat /\ Len(strand) >= 1 /\ strand[1].run = what
      /\ Len(strand') = Len(strand) - 1
      /\ \A i \in 1 .. Len(strand') : strand'[i] = strand[i + 1]
  BY HeadGone DEF TypeOK
<1>2. \A i \in 1 .. Len(strand') : strand'[i].run \notin Loop
  <2> TAKE i \in 1 .. Len(strand')
  <2>1. 1 \in Handlers /\ i + 1 \in Handlers /\ i + 1 # 1
    BY <1>1 DEF Handlers
  <2> QED
    BY <1>1, <2>1 DEF LoopInv
<1> QED
  BY <1>2 DEF LoopInv, Handlers

\* Another handler has run, or one that is no stage has been posted.
LEMMA OthersKeepLoop ==
    ASSUME TypeOK, LoopInv, UNCHANGED <<accepting, retrying>>,
           \/ \E what \in {"stop", "erase", "signal"} : Runs(what, <<>>)
           \/ Runs("signal", <<Task("stop")>>)
           \/ Posts(Task("signal"))
           \/ \E s \in Sessions : Posts(EraseTask(s))
           \/ UNCHANGED strand
    PROVE  LoopInv'
<1>1. ASSUME NEW what, Runs(what, <<>>) PROVE LoopInv'
  <2>1. ASSUME NEW i \in 1 .. Len(strand')
        PROVE  i + 1 \in Handlers /\ strand'[i] = strand[i + 1]
    BY <1>1, HeadGone DEF TypeOK, Handlers
  <2>2. \A i, j \in 1 .. Len(strand') : i + 1 = j + 1 => i = j
    BY <1>1, HeadGone DEF TypeOK
  <2>3. \A i, j \in 1 .. Len(strand') :
          strand'[i].run \in Loop /\ strand'[j].run \in Loop => i = j
    BY <2>1, <2>2 DEF LoopInv
  <2> QED
    BY <2>1, <2>3 DEF LoopInv, Handlers
<1>2. CASE Runs("signal", <<Task("stop")>>)
  <2>1. /\ Len(strand) \in Nat /\ Len(strand) >= 1
        /\ Len(strand') = Len(strand)
        /\ \A i \in 1 .. (Len(strand) - 1) : strand'[i] = strand[i + 1]
        /\ strand'[Len(strand)].run \notin Loop
    BY <1>2, HeadReplaced, TheTasks DEF TypeOK, Loop
  <2>2. ASSUME NEW i \in 1 .. Len(strand'), strand'[i].run \in Loop
        PROVE  i + 1 \in Handlers /\ strand'[i] = strand[i + 1]
    BY <2>1, <2>2 DEF Handlers
  <2>3. \A i, j \in 1 .. Len(strand') : i + 1 = j + 1 => i = j
    BY <2>1
  <2>4. \A i, j \in 1 .. Len(strand') :
          strand'[i].run \in Loop /\ strand'[j].run \in Loop => i = j
    BY <2>2, <2>3 DEF LoopInv
  <2>5. accepting \/ retrying => \A i \in 1 .. Len(strand') : strand'[i].run \notin Loop
    BY <2>2 DEF LoopInv
  <2> QED
    BY <2>4, <2>5 DEF LoopInv, Handlers
<1>3. ASSUME NEW task \in Tasks, task.run \notin Loop, Posts(task) PROVE LoopInv'
  <2>1. /\ Len(strand) \in Nat
        /\ Len(strand') = Len(strand) + 1
        /\ \A i \in 1 .. Len(strand) : strand'[i] = strand[i]
        /\ strand'[Len(strand) + 1].run \notin Loop
    BY <1>3, TailGrows DEF TypeOK
  <2>2. ASSUME NEW i \in 1 .. Len(strand'), strand'[i].run \in Loop
        PROVE  i \in Handlers /\ strand'[i] = strand[i]
    BY <2>1, <2>2 DEF Handlers
  <2> QED
    BY <2>2 DEF LoopInv, Handlers
<1>4. CASE UNCHANGED strand
  BY <1>4 DEF LoopInv, Handlers
<1> QED
  BY <1>1, <1>2, <1>3, <1>4, TheTasks DEF Loop

\* An accept or the timer ends: what was taken is queued instead.
LEMMA StagePosted ==
    ASSUME TypeOK, LoopInv, NEW what \in Loop, Posts(Task(what)),
           accepting \/ retrying, ~ accepting' /\ ~ retrying'
    PROVE  LoopInv'
<1>1. /\ Len(strand) \in Nat
      /\ Len(strand') = Len(strand) + 1
      /\ \A i \in 1 .. Len(strand) : strand'[i] = strand[i]
  BY TailGrows, TheTasks DEF TypeOK
<1>2. ASSUME NEW i \in 1 .. Len(strand'), strand'[i].run \in Loop PROVE i = Len(strand) + 1
  BY <1>1, <1>2 DEF LoopInv, Handlers
<1> QED
  BY <1>2 DEF LoopInv, Handlers

LEMMA NextKeepsLoop ==
    ASSUME TypeOK, LoopInv, [Next]_vars
    PROVE  LoopInv'
<1>0. ASSUME NEW what \in Loop, Runs(what, <<>>) PROVE ~ accepting /\ ~ retrying
  <2>1. 1 \in Handlers /\ strand[1].run \in Loop
    BY <1>0, HeadGone DEF TypeOK, Handlers
  <2> QED
    BY <2>1 DEF LoopInv
<1>1. CASE RunStarts
  <2>1. PICK what \in Loop : Runs(what, <<>>)
    BY <1>1 DEF RunStarts, Loop
  <2> QED
    BY <1>0, <1>1, <2>1, StageRuns DEF RunStarts
<1>2. CASE OnAcceptStopped
  <2>1. PICK what \in Loop : Runs(what, <<>>)
    BY <1>2 DEF OnAcceptStopped, Loop
  <2> QED
    BY <1>0, <1>2, <2>1, StageRuns DEF OnAcceptStopped
<1>3. CASE OnAcceptThrows \/ OnAcceptFailed
  <2>1. PICK what \in Loop : Runs(what, <<>>)
    BY <1>3 DEF OnAcceptThrows, OnAcceptFailed, Loop
  <2> QED
    BY <1>0, <1>3, <2>1, StageRuns DEF OnAcceptThrows, OnAcceptFailed
<1>4. ASSUME NEW s \in Sessions, OnAcceptSession(s) PROVE LoopInv'
  <2>1. "accepted" \in Loop /\ Runs("accepted", <<>>)
    BY <1>4 DEF OnAcceptSession, Loop
  <2> QED
    BY <1>0, <1>4, <2>1, StageRuns DEF OnAcceptSession
<1>5. CASE SignalHandled
  BY <1>5, OthersKeepLoop DEF SignalHandled
<1>6. CASE Stop
  BY <1>6, OthersKeepLoop DEF Stop
<1>7. ASSUME NEW s \in Sessions, SessionErased(s) PROVE LoopInv'
  BY <1>7, OthersKeepLoop DEF SessionErased
<1>8. ASSUME NEW s \in Sessions, SessionSteps(s) PROVE LoopInv'
  BY <1>8, OthersKeepLoop
  DEF SessionSteps, SessionShutdown, SessionCloses, SessionReleased, SessionMoves
<1>9. CASE AcceptEnds
  <2>1. PICK what \in Loop : Posts(Task(what))
    BY <1>9 DEF AcceptEnds, Loop
  <2>2. accepting /\ ~ accepting' /\ ~ retrying'
    BY <1>9 DEF AcceptEnds, LoopInv
  <2> QED
    BY <2>1, <2>2, StagePosted
<1>10. CASE TimerExpires
  <2>1. /\ "retry" \in Loop /\ Posts(Task("retry"))
        /\ retrying /\ ~ accepting' /\ ~ retrying'
    BY <1>10 DEF TimerExpires, LoopInv, Loop
  <2> QED
    BY <2>1, StagePosted
<1>11. CASE Signal \/ RunReturns \/ UNCHANGED vars
  BY <1>11, OthersKeepLoop DEF Signal, RunReturns, vars
<1> QED
  BY <1>1, <1>2, <1>3, <1>4, <1>5, <1>6, <1>7, <1>8, <1>9, <1>10, <1>11
  DEF Next, StrandRuns, OnAccept

-----------------------------------------------------------------------------
(* Stop                                                                     *)

LEMMA NextKeepsStop ==
    ASSUME TypeOK, StopInv, [Next]_vars
    PROVE  StopInv'
<1>1. ASSUME NEW what, Runs(what, <<>>), UNCHANGED <<m_is_stopped, m_work_guard>>,
             acceptor' \in {acceptor, "closed"}
      PROVE  StopInv'
  <2>1. ASSUME NEW i \in 1 .. Len(strand')
        PROVE  i + 1 \in Handlers /\ strand'[i] = strand[i + 1]
    BY <1>1, HeadGone DEF TypeOK, Handlers
  <2> QED
    BY <1>1, <2>1 DEF StopInv, Handlers
<1>2. ASSUME NEW task \in Tasks, task.run # "stop", Posts(task),
             UNCHANGED <<m_is_stopped, m_work_guard, acceptor>>
      PROVE  StopInv'
  <2>1. ASSUME NEW i \in 1 .. Len(strand'), strand'[i].run = "stop"
        PROVE  i \in Handlers /\ strand'[i] = strand[i]
    BY <1>2, <2>1, TailGrows DEF TypeOK, Handlers
  <2> QED
    BY <1>2, <2>1 DEF StopInv, Handlers
<1>3. CASE UNCHANGED <<strand, m_is_stopped, m_work_guard, acceptor>>
  BY <1>3 DEF StopInv, Handlers
<1>4. CASE RunStarts \/ OnAccept
  BY <1>1, <1>4 DEF RunStarts, OnAccept, OnAcceptStopped, OnAcceptThrows, OnAcceptFailed,
                    OnAcceptSession, stopVars
<1>5. CASE SignalHandled
  BY <1>5 DEF SignalHandled, StopInv
<1>6. CASE Stop
  <2>1. 1 \in Handlers /\ strand[1].run = "stop"
    BY <1>6, HeadGone DEF Stop, TypeOK, Handlers
  <2>2. m_is_stopped' /\ acceptor' = "closed"
    BY <1>6, <2>1 DEF Stop, StopInv
  <2> QED
    BY <2>2 DEF StopInv
<1>7. ASSUME NEW s \in Sessions, SessionErased(s) PROVE StopInv'
  BY <1>1, <1>7 DEF SessionErased, stopVars
<1>8. ASSUME NEW s \in Sessions, SessionSteps(s) PROVE StopInv'
  BY <1>2, <1>3, <1>8, TheTasks
  DEF SessionSteps, SessionShutdown, SessionCloses, SessionReleased, SessionMoves, stopVars
<1>9. CASE AcceptEnds \/ TimerExpires \/ Signal
  BY <1>2, <1>9, TheTasks DEF AcceptEnds, TimerExpires, Signal, stopVars, Loop
<1>10. CASE RunReturns \/ UNCHANGED vars
  BY <1>3, <1>10 DEF RunReturns, vars
<1> QED
  BY <1>4, <1>5, <1>6, <1>7, <1>8, <1>9, <1>10 DEF Next, StrandRuns

LEMMA NextKeepsEntries ==
    ASSUME TypeOK, StopInv, EntriesInv, [Next]_vars
    PROVE  EntriesInv'
<1> USE DEF EntriesInv, StopReachesAll, Stopped
<1>1. CASE RunStarts
  BY <1>1 DEF RunStarts, stopVars
<1>2. CASE OnAcceptStopped \/ OnAcceptThrows \/ OnAcceptFailed
  BY <1>2 DEF OnAcceptStopped, OnAcceptThrows, OnAcceptFailed, stopVars
<1>3. ASSUME NEW s \in Sessions, OnAcceptSession(s) PROVE EntriesInv'
  <2>1. m_work_guard /\ UNCHANGED m_work_guard
    BY <1>3 DEF OnAcceptSession, StopInv, stopVars, TypeOK
  <2> QED
    BY <1>3, <2>1 DEF OnAcceptSession, TypeOK, Held
<1>4. CASE SignalHandled \/ AcceptEnds \/ TimerExpires \/ Signal \/ RunReturns \/ UNCHANGED vars
  BY <1>4 DEF SignalHandled, AcceptEnds, TimerExpires, Signal, RunReturns, stopVars, vars
<1>5. CASE Stop
  BY <1>5 DEF Stop, ShutdownAll, TypeOK, Held
<1>6. ASSUME NEW s \in Sessions, SessionErased(s) PROVE EntriesInv'
  BY <1>6 DEF SessionErased, TypeOK, stopVars, Held
<1>7. ASSUME NEW s \in Sessions, SessionSteps(s) PROVE EntriesInv'
  BY <1>7 DEF SessionSteps, SessionShutdown, SessionCloses, SessionReleased, SessionMoves, TypeOK,
              stopVars, Held
<1> QED
  BY <1>1, <1>2, <1>3, <1>4, <1>5, <1>6, <1>7 DEF Next, StrandRuns, OnAccept

-----------------------------------------------------------------------------
(* Deletions                                                                *)

\* The handlers that delete have moved up by one.
LEMMA ShiftKeepsDeletions ==
    ASSUME TypeOK', DeletionsInv,
           \A s \in Sessions : phase'[s] = "released" <=> phase[s] = "released",
           \A s \in Sessions : \A i \in Handlers' : Erases(i, s)' => i + 1 \in Handlers /\ Erases(i + 1, s),
           \A s \in Sessions : \A i \in Handlers : Erases(i, s) => i - 1 \in Handlers' /\ Erases(i - 1, s)'
    PROVE  DeletionsInv'
<1>1. \A i, j \in Handlers' : i + 1 = j + 1 => i = j
  BY DEF Handlers, TypeOK
<1>2. \A s \in Sessions : \A i, j \in Handlers' : Erases(i, s)' /\ Erases(j, s)' => i = j
  BY <1>1 DEF DeletionsInv
<1>3. \A s \in Sessions : \A i \in Handlers' : Erases(i, s)' => phase'[s] = "released"
  BY DEF DeletionsInv
<1>4. \A s \in Sessions : phase'[s] = "released" => \E i \in Handlers' : Erases(i, s)'
  BY DEF DeletionsInv
<1> QED
  BY <1>2, <1>3, <1>4 DEF DeletionsInv

\* The released sessions stay as they are, and so do the handlers that delete:
\* another handler runs, or is posted.
LEMMA OthersKeepDeletions ==
    ASSUME TypeOK, TypeOK', DeletionsInv,
           \A s \in Sessions : phase'[s] = "released" <=> phase[s] = "released",
           \/ \E what \in Loop \cup {"signal", "stop"} :
                Runs(what, <<>>) \/ Runs(what, <<Task("stop")>>) \/ Posts(Task(what))
           \/ UNCHANGED strand
    PROVE  DeletionsInv'
<1>1. ASSUME NEW what \in Loop \cup {"signal", "stop"}, Runs(what, <<>>)
      PROVE  DeletionsInv'
  <2>1. /\ Len(strand) \in Nat /\ Len(strand) >= 1 /\ strand[1].run # "erase"
        /\ Len(strand') = Len(strand) - 1
        /\ \A i \in 1 .. Len(strand') : strand'[i] = strand[i + 1]
    BY <1>1, HeadGone DEF TypeOK, Loop
  <2>2. ASSUME NEW s \in Sessions, NEW i \in Handlers', Erases(i, s)'
        PROVE  i + 1 \in Handlers /\ Erases(i + 1, s)
    BY <2>1, <2>2 DEF Handlers, Erases
  <2>3. ASSUME NEW s \in Sessions, NEW k \in Handlers, Erases(k, s)
        PROVE  k - 1 \in Handlers' /\ Erases(k - 1, s)'
    <3>1. k - 1 \in 1 .. Len(strand') /\ strand'[k - 1] = strand[k]
      BY <2>1, <2>3 DEF Erases, Handlers
    <3> QED
      BY <2>3, <3>1 DEF Erases, Handlers
  <2> QED
    BY <2>2, <2>3, ShiftKeepsDeletions
<1>2. ASSUME NEW what \in Loop \cup {"signal", "stop"}, Runs(what, <<Task("stop")>>)
      PROVE  DeletionsInv'
  <2>1. /\ Len(strand) \in Nat /\ Len(strand) >= 1 /\ strand[1].run # "erase"
        /\ Len(strand') = Len(strand)
        /\ \A i \in 1 .. (Len(strand) - 1) : strand'[i] = strand[i + 1]
        /\ strand'[Len(strand)].run # "erase"
    BY <1>2, HeadReplaced, TheTasks DEF TypeOK, Loop
  <2>2. ASSUME NEW s \in Sessions, NEW i \in Handlers', Erases(i, s)'
        PROVE  i + 1 \in Handlers /\ Erases(i + 1, s)
    <3>1. i \in 1 .. (Len(strand) - 1)
      BY <2>1, <2>2 DEF Handlers, Erases
    <3> QED
      BY <2>1, <2>2, <3>1 DEF Handlers, Erases
  <2>3. ASSUME NEW s \in Sessions, NEW k \in Handlers, Erases(k, s)
        PROVE  k - 1 \in Handlers' /\ Erases(k - 1, s)'
    <3>1. k - 1 \in 1 .. (Len(strand) - 1) /\ strand'[k - 1] = strand[k]
      BY <2>1, <2>3 DEF Erases, Handlers
    <3> QED
      BY <2>1, <2>3, <3>1 DEF Erases, Handlers
  <2> QED
    BY <2>2, <2>3, ShiftKeepsDeletions
<1>3. ASSUME NEW what \in Loop \cup {"signal", "stop"}, Posts(Task(what))
      PROVE  DeletionsInv'
  <2>1. /\ Len(strand) \in Nat
        /\ Len(strand') = Len(strand) + 1
        /\ \A i \in 1 .. Len(strand) : strand'[i] = strand[i]
        /\ strand'[Len(strand) + 1].run # "erase"
    BY <1>3, TailGrows, TheTasks DEF TypeOK, Loop
  <2>2. /\ \A i \in 1 .. Len(strand') : strand'[i].run = "erase" =>
                                          i \in Handlers /\ strand'[i] = strand[i]
        /\ \A i \in Handlers : i \in 1 .. Len(strand') /\ strand'[i] = strand[i]
    BY <2>1 DEF Handlers
  <2> QED
    BY <2>2 DEF DeletionsInv, Erases, Handlers
<1>4. CASE UNCHANGED strand
  BY <1>4 DEF DeletionsInv, Erases, Handlers
<1> QED
  BY <1>1, <1>2, <1>3, <1>4

\* The deleter of a released session posts its deletion.
LEMMA ReleaseKeepsDeletions ==
    ASSUME TypeOK, DeletionsInv, NEW s \in Sessions, SessionReleased(s)
    PROVE  DeletionsInv'
<1>1. /\ Len(strand) \in Nat
      /\ Len(strand') = Len(strand) + 1
      /\ \A i \in 1 .. Len(strand) : strand'[i] = strand[i]
      /\ strand'[Len(strand) + 1].run = "erase" /\ strand'[Len(strand) + 1].session = s
  BY TailGrows, TheTasks DEF SessionReleased, TypeOK
<1>2. phase[s] # "released" /\ phase' = [phase EXCEPT ![s] = "released"]
  BY DEF SessionReleased, SessionMoves
<1>3. \A i \in Handlers : ~ Erases(i, s)
  BY <1>2 DEF DeletionsInv
<1>4. /\ \A i \in Handlers : i \in 1 .. Len(strand') /\ strand'[i] = strand[i]
      /\ \A i \in 1 .. Len(strand') : i = Len(strand) + 1 \/ (i \in Handlers /\ strand'[i] = strand[i])
      /\ Len(strand) + 1 \in 1 .. Len(strand')
  BY <1>1 DEF Handlers
<1>5. ASSUME NEW u \in Sessions
      PROVE  /\ \A i, j \in Handlers' : Erases(i, u)' /\ Erases(j, u)' => i = j
             /\ \A i \in Handlers' : Erases(i, u)' => phase'[u] = "released"
             /\ phase'[u] = "released" => \E i \in Handlers' : Erases(i, u)'
  <2>1. CASE u = s
    BY <1>1, <1>2, <1>3, <1>4, <2>1 DEF Erases, Handlers, TypeOK
  <2>2. CASE u # s
    <3>1. phase'[u] = phase[u]
      BY <1>2, <2>2 DEF TypeOK
    <3>2. \A i \in Handlers' : Erases(i, u)' => i \in Handlers /\ Erases(i, u)
      BY <1>1, <1>4, <2>2 DEF Erases, Handlers
    <3>3. \A i \in Handlers : Erases(i, u) => i \in Handlers' /\ Erases(i, u)'
      BY <1>4 DEF Erases, Handlers
    <3> QED
      BY <3>1, <3>2, <3>3 DEF DeletionsInv
  <2> QED
    BY <2>1, <2>2
<1> QED
  BY <1>5 DEF DeletionsInv

\* The deletion runs: it was the only one of this session.
LEMMA EraseKeepsDeletions ==
    ASSUME TypeOK, DeletionsInv, NEW s \in Sessions, SessionErased(s)
    PROVE  DeletionsInv' /\ phase[s] = "released"
<1>1. /\ Len(strand) \in Nat /\ Len(strand) >= 1
      /\ Len(strand') = Len(strand) - 1
      /\ \A i \in 1 .. Len(strand') : strand'[i] = strand[i + 1]
      /\ strand[1].run = "erase" /\ strand[1].session = s
  <2>1. strand # <<>> /\ Head(strand).session = s
    BY DEF SessionErased, Runs
  <2>2. strand[1].session = s
    BY <2>1 DEF TypeOK
  <2> QED
    BY <2>2, HeadGone DEF SessionErased, TypeOK
<1>2. phase' = [phase EXCEPT ![s] = "deleted"]
  BY DEF SessionErased
<1>3. 1 \in Handlers /\ Erases(1, s)
  BY <1>1 DEF Handlers, Erases
<1>4. ASSUME NEW i \in 1 .. Len(strand')
      PROVE  i + 1 \in Handlers /\ strand'[i] = strand[i + 1] /\ i + 1 # 1
  BY <1>1 DEF Handlers
<1>5. \A i, j \in 1 .. Len(strand') : i + 1 = j + 1 => i = j
  BY <1>1
<1>6. ASSUME NEW u \in Sessions
      PROVE  /\ \A i, j \in Handlers' : Erases(i, u)' /\ Erases(j, u)' => i = j
             /\ \A i \in Handlers' : Erases(i, u)' => phase'[u] = "released"
             /\ phase'[u] = "released" => \E i \in Handlers' : Erases(i, u)'
  <2>1. \A i \in Handlers' : Erases(i, u)' => i + 1 \in Handlers /\ Erases(i + 1, u) /\ i + 1 # 1
    BY <1>4 DEF Erases, Handlers
  <2>2. CASE u = s
    <3>1. \A i \in Handlers' : ~ Erases(i, u)'
      BY <1>3, <2>1, <2>2 DEF DeletionsInv
    <3>2. phase'[u] = "deleted"
      BY <1>2, <2>2 DEF TypeOK
    <3> QED
      BY <3>1, <3>2
  <2>3. CASE u # s
    <3>1. phase'[u] = phase[u]
      BY <1>2, <2>3 DEF TypeOK
    <3>2. ASSUME NEW k \in Handlers, Erases(k, u) PROVE \E i \in Handlers' : Erases(i, u)'
      <4>1. k # 1
        BY <1>1, <2>3, <3>2 DEF Erases
      <4>2. k - 1 \in 1 .. Len(strand') /\ strand'[k - 1] = strand[k]
        BY <1>1, <4>1 DEF Handlers
      <4> QED
        BY <3>2, <4>2 DEF Erases, Handlers
    <3>3. \A i, j \in Handlers' : Erases(i, u)' /\ Erases(j, u)' => i = j
      BY <1>5, <2>1 DEF DeletionsInv, Handlers
    <3> QED
      BY <2>1, <3>1, <3>2, <3>3 DEF DeletionsInv
  <2> QED
    BY <2>2, <2>3
<1>7. phase[s] = "released"
  BY <1>3 DEF DeletionsInv
<1> QED
  BY <1>6, <1>7 DEF DeletionsInv

LEMMA NextKeepsDeletions ==
    ASSUME TypeOK, TypeOK', DeletionsInv, [Next]_vars
    PROVE  DeletionsInv'
<1>1. CASE RunStarts \/ OnAcceptStopped \/ OnAcceptThrows \/ OnAcceptFailed
  <2>1. /\ UNCHANGED phase
        /\ \E what \in Loop : Runs(what, <<>>)
    BY <1>1 DEF RunStarts, OnAcceptStopped, OnAcceptThrows, OnAcceptFailed, Loop
  <2> QED
    BY <2>1, OthersKeepDeletions
<1>2. ASSUME NEW s \in Sessions, OnAcceptSession(s) PROVE DeletionsInv'
  <2>1. "accepted" \in Loop /\ Runs("accepted", <<>>)
    BY <1>2 DEF OnAcceptSession, Loop
  <2>2. \A u \in Sessions : phase'[u] = "released" <=> phase[u] = "released"
    BY <1>2 DEF OnAcceptSession, TypeOK
  <2> QED
    BY <2>1, <2>2, OthersKeepDeletions
<1>3. CASE SignalHandled
  BY <1>3, OthersKeepDeletions DEF SignalHandled
<1>4. CASE Stop
  <2>1. \A u \in Sessions : phase'[u] = "released" <=> phase[u] = "released"
    BY <1>4 DEF Stop, ShutdownAll
  <2> QED
    BY <1>4, <2>1, OthersKeepDeletions DEF Stop
<1>5. ASSUME NEW s \in Sessions, SessionShutdown(s) \/ SessionCloses(s) PROVE DeletionsInv'
  <2>1. \A u \in Sessions : phase'[u] = "released" <=> phase[u] = "released"
    BY <1>5 DEF SessionShutdown, SessionCloses, SessionMoves, TypeOK
  <2> QED
    BY <1>5, <2>1, OthersKeepDeletions DEF SessionShutdown, SessionCloses
<1>6. CASE AcceptEnds \/ TimerExpires \/ Signal
  <2>1. /\ UNCHANGED phase
        /\ \E what \in Loop \cup {"signal", "stop"} : Posts(Task(what))
    BY <1>6 DEF AcceptEnds, TimerExpires, Signal, Loop
  <2> QED
    BY <2>1, OthersKeepDeletions
<1>7. CASE RunReturns \/ UNCHANGED vars
  BY <1>7, OthersKeepDeletions DEF RunReturns, vars
<1> QED
  BY <1>1, <1>2, <1>3, <1>4, <1>5, <1>6, <1>7, ReleaseKeepsDeletions, EraseKeepsDeletions
  DEF Next, StrandRuns, OnAccept, SessionSteps

\* A session has no entry before it is accepted and after it is deleted.
LEMMA NextKeepsNoEntry ==
    ASSUME TypeOK, NoEntryInv, [Next]_vars
    PROVE  NoEntryInv'
<1> USE DEF NoEntryInv, TypeOK
<1>1. CASE RunStarts \/ OnAcceptStopped \/ OnAcceptThrows \/ OnAcceptFailed \/ SignalHandled
  BY <1>1 DEF RunStarts, OnAcceptStopped, OnAcceptThrows, OnAcceptFailed, SignalHandled
<1>2. ASSUME NEW s \in Sessions, OnAcceptSession(s) PROVE NoEntryInv'
  BY <1>2 DEF OnAcceptSession
<1>3. CASE Stop
  BY <1>3 DEF Stop
<1>4. ASSUME NEW s \in Sessions, SessionErased(s) PROVE NoEntryInv'
  BY <1>4 DEF SessionErased
<1>5. ASSUME NEW s \in Sessions, SessionSteps(s) PROVE NoEntryInv'
  BY <1>5 DEF SessionSteps, SessionShutdown, SessionCloses, SessionReleased, SessionMoves
<1>6. CASE AcceptEnds \/ TimerExpires \/ Signal \/ RunReturns \/ UNCHANGED vars
  BY <1>6 DEF AcceptEnds, TimerExpires, Signal, RunReturns, vars
<1> QED
  BY <1>1, <1>2, <1>3, <1>4, <1>5, <1>6 DEF Next, StrandRuns, OnAccept

-----------------------------------------------------------------------------
(* The end of Run                                                           *)

\* With nothing left to do, no step is left: run() has returned for good.
LEMMA NextKeepsReturn ==
    ASSUME TypeOK, ReturnInv, [Next]_vars
    PROVE  ReturnInv'
<1>1. CASE ~ returned
  <2>1. CASE RunReturns
    BY <2>1 DEF RunReturns, ReturnInv, Work, HeldNow
  <2>2. CASE ~ RunReturns
    <3>1. returned' = returned
      BY <2>2 DEF Next, StrandRuns, RunStarts, OnAccept, OnAcceptStopped, OnAcceptThrows,
                  OnAcceptFailed, OnAcceptSession, SignalHandled, Stop, SessionErased, SessionSteps,
                  SessionShutdown, SessionCloses, SessionReleased, SessionMoves, AcceptEnds,
                  TimerExpires, Signal, stopVars, vars
    <3> QED
      BY <1>1, <3>1 DEF ReturnInv
  <2> QED
    BY <2>1, <2>2
<1>2. CASE returned
  <2>1. ~ Work
    BY <1>2 DEF ReturnInv
  <2>2. ~ StrandRuns
    BY <2>1 DEF Work, StrandRuns, RunStarts, OnAccept, OnAcceptStopped, OnAcceptThrows,
                OnAcceptFailed, OnAcceptSession, SignalHandled, Stop, SessionErased, Runs
  <2>3. \A s \in Sessions : ~ SessionSteps(s)
    BY <2>1 DEF Work, HeldNow, Held, SessionSteps, SessionShutdown, SessionCloses, SessionReleased,
                SessionMoves
  <2>4. ~ AcceptEnds /\ ~ TimerExpires /\ ~ Signal /\ ~ RunReturns
    BY <1>2, <2>1 DEF Work, AcceptEnds, TimerExpires, Signal, RunReturns
  <2>5. UNCHANGED vars
    BY <2>2, <2>3, <2>4 DEF Next
  <2> QED
    BY <2>5 DEF vars, ReturnInv, Work, HeldNow
<1> QED
  BY <1>1, <1>2 DEF TypeOK

-----------------------------------------------------------------------------
LEMMA InitServer == Init => ServerInv
<1> SUFFICES ASSUME Init PROVE ServerInv
  OBVIOUS
<1>1. /\ strand = <<Task("start")>> /\ Task("start") \in Tasks /\ Task("start").run = "start"
  BY TheTasks DEF Init, Loop
<1>2. strand \in Seq(Tasks) /\ Len(strand) = 1 /\ strand[1].run = "start"
  BY <1>1
<1>3. TypeOK
  BY <1>2 DEF Init, TypeOK, Phases
<1>4. LoopInv /\ StopInv
  BY <1>2 DEF Init, LoopInv, StopInv, Handlers
<1>5. EntriesInv /\ NoEntryInv /\ ReturnInv
  BY DEF Init, EntriesInv, StopReachesAll, Stopped, Held, NoEntryInv, ReturnInv
<1>6. DeletionsInv
  BY <1>2 DEF Init, DeletionsInv, Handlers, Erases
<1> QED
  BY <1>3, <1>4, <1>5, <1>6 DEF ServerInv

LEMMA NextServer == ServerInv /\ [Next]_vars => ServerInv'
<1> SUFFICES ASSUME ServerInv, [Next]_vars PROVE ServerInv'
  OBVIOUS
<1>1. TypeOK'
  BY NextKeepsTypes DEF ServerInv
<1> QED
  BY <1>1, NextKeepsLoop, NextKeepsStop, NextKeepsEntries, NextKeepsDeletions, NextKeepsNoEntry,
     NextKeepsReturn
  DEF ServerInv

\* The inductive invariant, types included.
THEOREM ServerKeepsInv == Spec => []ServerInv
BY InitServer, NextServer, PTL DEF Spec

\* One accept loop at most, whatever fails and however often (StartAcceptor,
\* OnAccept and its timer, Server.hpp).
THEOREM AcceptsOnce == Spec => []OneAcceptLoop
<1>1. ServerInv => OneAcceptLoop
  <2> SUFFICES ASSUME ServerInv PROVE OneAcceptLoop
    OBVIOUS
  <2>1. LoopInv /\ accepting \in BOOLEAN /\ retrying \in BOOLEAN
    BY DEF ServerInv, TypeOK
  <2>2. \A x \in AcceptStages :
          \/ accepting /\ x = <<"accepting", 0>>
          \/ retrying /\ x = <<"retrying", 0>>
          \/ \E i \in Handlers : strand[i].run \in Loop /\ x = <<"queued", i>>
    BY DEF AcceptStages, Queued, Loop, Handlers
  <2> QED
    BY <2>1, <2>2 DEF LoopInv, OneAcceptLoop, AtMostOneOf
<1> QED
  BY ServerKeepsInv, <1>1, PTL

\* Stop misses no session, one accepted at the last moment included (Stop and
\* OnAccept, Server.hpp).
THEOREM StopMissesNone == Spec => []StopReachesAll
<1>1. ServerInv => StopReachesAll
  BY DEF ServerInv, EntriesInv
<1> QED
  BY ServerKeepsInv, <1>1, PTL

\* A session is deleted once, when it has been released, and leaves no entry
\* behind (the deleter in OnAccept, Server.hpp).
THEOREM SessionsDeletedOnce == Spec => []DeletedOnce
<1>1. ServerInv => DeletedOnce
  <2> SUFFICES ASSUME ServerInv, NEW s \in Sessions
               PROVE  LET erases == {i \in Queued({"erase"}) : strand[i].session = s}
                      IN  /\ AtMostOneOf(erases)
                          /\ erases # {} <=> phase[s] = "released"
                          /\ phase[s] \in {"none", "deleted"} => s \notin m_sessions
    BY DEF DeletedOnce
  <2> DEFINE erases == {i \in Queued({"erase"}) : strand[i].session = s}
  <2>1. \A i : i \in erases <=> i \in Handlers /\ Erases(i, s)
    BY DEF Queued, Handlers, Erases
  <2> HIDE DEF erases
  <2>2. AtMostOneOf(erases) /\ (erases # {} <=> phase[s] = "released")
    BY <2>1 DEF ServerInv, DeletionsInv, AtMostOneOf
  <2>3. phase[s] \in {"none", "deleted"} => s \notin m_sessions
    BY DEF ServerInv, NoEntryInv
  <2> QED
    BY <2>2, <2>3 DEF erases
<1> QED
  BY ServerKeepsInv, <1>1, PTL

\* When Run returns there is no session left, and the acceptor is closed (Run,
\* Server.hpp).
THEOREM RunReturnsClean == Spec => []ReturnsClean
<1>1. ServerInv => ReturnsClean
  <2> SUFFICES ASSUME ServerInv, returned PROVE ReturnsClean
    BY DEF ReturnsClean
  <2>1. ~ Work
    BY DEF ServerInv, ReturnInv
  <2>2. m_is_stopped /\ acceptor = "closed"
    BY <2>1 DEF ServerInv, StopInv, Work
  <2>3. ASSUME NEW s \in Sessions PROVE phase[s] \in {"none", "deleted"}
    <3>1. phase[s] \in Phases /\ phase[s] \notin Held
      BY <2>1 DEF ServerInv, TypeOK, Work, HeldNow
    <3>2. Handlers = {}
      BY <2>1 DEF Work, Handlers
    <3>3. phase[s] # "released"
      BY <3>2 DEF ServerInv, DeletionsInv
    <3> QED
      BY <3>1, <3>3 DEF Phases
  <2> QED
    BY <2>2, <2>3 DEF ReturnsClean
<1> QED
  BY ServerKeepsInv, <1>1, PTL
=============================================================================
