--------------------------- MODULE ExecutionProofs ---------------------------
(***************************************************************************)
(* Theorems about Execution for every set of descendants, every pipe       *)
(* capacity and every amount of output, with or without a timeout, with    *)
(* descendants that escape and with kills that fail.                       *)
(***************************************************************************)
EXTENDS Execution, TLAPS

-----------------------------------------------------------------------------
(* The invariant *)

\* What execute() will return is known from where it is.
ResultInv ==
    /\ pc \notin {"abort", "abortWait", "done"} \cup Joining => result = "none"
    /\ pc \in {"abort", "abortWait"} => result \in {"OutputWorkerFailed", "ProcessControlFailed"}
    /\ pc \in {"done"} \cup Joining => result # "none"

\* Nobody runs before the spawn, and the child has been waited for after it.
ChildInv ==
    /\ pc = "start" => \A q \in Process : status[q] = "unborn"
    /\ pc \in {"reaped"} \cup Joining => status[Child] = "dead"
    /\ pc = "done" =>
          \/ status[Child] = "dead"
          \/ Failed /\ \A q \in Process : status[q] = "unborn"

\* Write ends are held by running processes only.
WritersInv == \A s \in Stream : \A q \in writers[s] : Alive(q)

\* What a thread has not read is still in the pipe, and a thread at the end of
\* its file is right about it for good.
StreamInv ==
    \A s \in Stream :
       /\ worker[s] \in {"none", "reading", "eof"} => captured[s] + pipe[s] = sent[s]
       /\ worker[s] = "eof" => pipe[s] = 0 /\ writers[s] = {}

\* No thread runs before it is started, both have been started when the caller
\* waits, and a result that is no error is returned once both are at the end of
\* their files.
WorkerInv ==
    /\ pc \in {"start", "startOut"} => \A s \in Stream : worker[s] = "none"
    /\ pc = "startErr" => worker["err"] = "none"
    /\ pc \in {"wait", "reaped", "expired", "expiredWait"} => \A s \in Stream : worker[s] \notin {"none", "refused"}
    /\ pc \in Joining /\ ~Failed => \A s \in Stream : worker[s] \notin {"none", "refused"}
    /\ pc = "startErr" => worker["out"] \notin {"none", "refused"}
    /\ pc = "joinErr" /\ ~Failed => worker["out"] = "eof"
    /\ pc = "done" /\ ~Failed => \A s \in Stream : worker[s] = "eof"

\* The group has been killed, and the kill did not fail.
Killed ==
    /\ ~killMayFail
    /\ \/ pc \in {"expiredWait", "abortWait"}
       \/ /\ pc \in Joining \cup {"done"}
          /\ \/ hasTimeout
             \/ result = "ProcessControlFailed"
             \/ \E s \in Stream : worker[s] = "refused"

GroupInv ==
    /\ Killed => \A q \in Process : status[q] # "group"
    /\ pc \in {"reaped", "expired", "expiredWait"} => hasTimeout

ExecInv ==
    /\ TypeOK /\ ResultInv /\ ChildInv /\ WritersInv /\ StreamInv /\ WorkerInv /\ GroupInv

-----------------------------------------------------------------------------
(* The invariant is inductive *)

\* Initially nothing runs.
LEMMA InitExec == Init => ExecInv
  <1> SUFFICES ASSUME Init PROVE ExecInv
    OBVIOUS
  <1>1. TypeOK
    <2>1. hasTimeout \in BOOLEAN /\ mayEscape \in BOOLEAN /\ killMayFail \in BOOLEAN /\ late \in BOOLEAN
      BY ExecAssumption DEF Init
    <2>2. pc \in PC /\ result \in Result
      BY DEF Init, PC, Result
    <2>3. 0 \in 0 .. Capacity /\ 0 \in 0 .. MaxSent
      BY ExecAssumption
    <2> QED BY <2>1, <2>2, <2>3 DEF Init, TypeOK
  <1>2. ResultInv /\ ChildInv /\ WritersInv /\ GroupInv
    BY DEF Init, ResultInv, ChildInv, WritersInv, GroupInv, Killed, Joining
  <1>3. StreamInv /\ WorkerInv
    BY DEF Init, StreamInv, WorkerInv, Joining
  <1> QED BY <1>1, <1>2, <1>3 DEF ExecInv

\* The caller's steps.
LEMMA CallerKeeps == ASSUME ExecInv, Start \/ Wait \/ WaitFails \/ WaitExpiredFails \/ DeadlineComes
                     PROVE  ExecInv'
  <1> USE ExecAssumption DEF ExecInv, TypeOK, ResultInv, ChildInv, WritersInv, StreamInv, WorkerInv, GroupInv,
       Killed, Failed, PC, Result, Joining, Stream, Process, Alive, given, procs, streams
  <1>1. CASE Spawn
    BY <1>1 DEF Spawn
  <1>2. CASE SpawnFails
    BY <1>2 DEF SpawnFails, Return
  <1>3. CASE StartWorker("startOut", "out", "startErr")
    BY <1>3 DEF StartWorker
  <1>4. CASE StartWorkerFails("startOut", "out")
    BY <1>4 DEF StartWorkerFails
  <1>5. CASE StartWorker("startErr", "err", "wait")
    BY <1>5 DEF StartWorker
  <1>6. CASE StartWorkerFails("startErr", "err")
    BY <1>6 DEF StartWorkerFails
  <1>7. CASE WaitChild
    BY <1>7 DEF WaitChild, Reap
  <1>8. CASE TryWait
    BY <1>8 DEF TryWait, Reap
  <1>9. CASE DeadlinePassed
    BY <1>9 DEF DeadlinePassed
  <1>10. CASE WaitFails
    BY <1>10 DEF WaitFails
  <1>11. CASE TerminateDescendants
    BY <1>11 DEF TerminateDescendants, KillGroup
  <1>12. CASE KillExpired
    BY <1>12 DEF KillExpired, KillGroup
  <1>13. CASE WaitExpired
    BY <1>13 DEF WaitExpired, Reap
  <1>14. CASE WaitExpiredFails
    BY <1>14 DEF WaitExpiredFails
  <1>15. CASE AbortKill
    BY <1>15 DEF AbortKill, KillGroup
  <1>16. CASE AbortWait
    BY <1>16 DEF AbortWait, Reap
  <1>17. CASE JoinOut
    BY <1>17 DEF JoinOut, Ended, Lost, JoinError, Return
  <1>18. CASE JoinErr
    BY <1>18 DEF JoinErr, Ended, Lost, JoinError, Return
  <1>19. CASE DeadlineComes
    BY <1>19 DEF DeadlineComes
  <1> QED BY <1>1, <1>2, <1>3, <1>4, <1>5, <1>6, <1>7, <1>8, <1>9, <1>10, <1>11, <1>12, <1>13, <1>14, <1>15, <1>16, <1>17, <1>18, <1>19 DEF Start, Wait

\* The threads' steps.
LEMMA CaptureKeeps == ASSUME ExecInv, NEW s \in Stream, Capture(s) \/ CaptureStops(s) PROVE ExecInv'
  <1> USE ExecAssumption DEF ExecInv, TypeOK, ResultInv, ChildInv, WritersInv, StreamInv, WorkerInv, GroupInv,
       Killed, Failed, PC, Result, Joining, Stream, Process, Alive, given, procs, streams
  <1>1. CASE ReadChunk(s)
    BY <1>1 DEF ReadChunk
  <1>2. CASE ReadEof(s)
    BY <1>2 DEF ReadEof
  <1>3. CASE StopReading(s, "failed")
    BY <1>3 DEF StopReading
  <1>4. CASE StopReading(s, "panicked")
    BY <1>4 DEF StopReading
  <1> QED BY <1>1, <1>2, <1>3, <1>4 DEF Capture, CaptureStops

\* What the child and its descendants do.
LEMMA OutsideKeeps == ASSUME ExecInv, Outside PROVE ExecInv'
  <1> USE ExecAssumption DEF ExecInv, TypeOK, ResultInv, ChildInv, WritersInv, StreamInv, WorkerInv, GroupInv,
       Killed, Failed, PC, Result, Joining, Stream, Process, Alive, given, procs, streams
  <1>1. ASSUME NEW q \in Process, NEW s \in Stream, Write(q, s) PROVE ExecInv'
    BY <1>1 DEF Write
  <1>2. ASSUME NEW q \in Process, NEW s \in Stream, CloseEnd(q, s) PROVE ExecInv'
    BY <1>2 DEF CloseEnd
  <1>3. ASSUME NEW q \in Process, NEW k \in Kin, Fork(q, k) PROVE ExecInv'
    BY <1>3 DEF Fork
  <1>4. ASSUME NEW q \in Process, Setsid(q) PROVE ExecInv'
    BY <1>4 DEF Setsid
  <1>5. ASSUME NEW q \in Process, Exit(q) PROVE ExecInv'
    BY <1>5 DEF Exit
  <1> QED BY <1>1, <1>2, <1>3, <1>4, <1>5 DEF Outside

\* The invariant holds in every reachable state.
THEOREM ExecInvariance == Spec => []ExecInv
  <1>1. ExecInv /\ [Next]_vars => ExecInv'
    <2> SUFFICES ASSUME ExecInv, [Next]_vars PROVE ExecInv'
      OBVIOUS
    <2>1. CASE UNCHANGED vars
      BY <2>1 DEF vars, given, procs, streams, ExecInv, TypeOK, ResultInv, ChildInv, WritersInv,
           StreamInv, WorkerInv, GroupInv, Killed, Failed, Alive
    <2>2. CASE Next
      BY <2>1, <2>2, CallerKeeps, CaptureKeeps, OutsideKeeps DEF Next, Done
    <2> QED BY <2>1, <2>2
  <1> QED BY <1>1, InitExec, PTL DEF Spec

-----------------------------------------------------------------------------
(* What it gives *)

\* When execute() returns a result, both threads have read every byte that was
\* written, and nobody can write another one.
THEOREM CaptureComplete == Spec => []CompleteCapture
  <1>1. ExecInv => CompleteCapture
    <2> SUFFICES ASSUME ExecInv, pc = "done", result \in {"exited", "timedOut"}, NEW s \in Stream
                 PROVE captured[s] = sent[s] /\ writers[s] = {}
      BY DEF CompleteCapture
    <2>1. worker[s] = "eof"
      BY DEF ExecInv, WorkerInv, Failed
    <2>2. captured[s] + pipe[s] = sent[s] /\ pipe[s] = 0 /\ writers[s] = {}
      BY <2>1 DEF ExecInv, StreamInv
    <2>3. captured[s] \in Nat
      BY ExecAssumption DEF ExecInv, TypeOK
    <2> QED BY <2>2, <2>3
  <1> QED BY <1>1, ExecInvariance, PTL

\* execute() never returns before it has waited for the child it started.
THEOREM Reaps == Spec => []ChildReaped
  <1>1. ExecInv => ChildReaped
    BY DEF ExecInv, ChildInv, ChildReaped, Process
  <1> QED BY <1>1, ExecInvariance, PTL

\* The group is gone when execute() returns, unless the kill failed: always with
\* a timeout; without one after a failed wait or a thread that was not started.
THEOREM GroupGone == Spec => []NoSurvivors
  <1>1. ExecInv => NoSurvivors
    BY DEF ExecInv, GroupInv, Killed, NoSurvivors
  <1> QED BY <1>1, ExecInvariance, PTL
=============================================================================
