------------------------------ MODULE Execution ------------------------------
(***************************************************************************)
(* blindfold-exec's execute(): the calling thread starts one child in a    *)
(* process group of its own, two threads drain the child's pipes, the      *)
(* caller waits for the child (polling against a deadline if there is a    *)
(* timeout), kills the group, and joins the threads.  The child may start  *)
(* descendants, which inherit both pipes and may outlive it.               *)
(***************************************************************************)
EXTENDS Naturals, FiniteSets

CONSTANTS
    Child, Kin,     \* the child; processes it may start, directly or not
    Timeouts,       \* the choices of hasTimeout ...
    Escapes,        \* ... of mayEscape ...
    KillFailures,   \* ... and of killMayFail
    Capacity,       \* bytes a pipe holds before a writer blocks
    MaxSent         \* bound: bytes written to a stream

ASSUME ExecAssumption ==
    /\ Child \notin Kin
    /\ Timeouts \subseteq BOOLEAN /\ Escapes \subseteq BOOLEAN /\ KillFailures \subseteq BOOLEAN
    /\ Capacity \in Nat \ {0} /\ MaxSent \in Nat

Stream == {"out", "err"}
Process == Kin \cup {Child}

VARIABLES
    hasTimeout,  \* limits.timeout is Some
    mayEscape,   \* in this behaviour a descendant may leave the process group
    killMayFail, \* in this behaviour killpg may fail
    pc,         \* where the caller is in execute()
    result,     \* what execute() returned, or will return
    late,       \* Instant::now() >= deadline
    status,     \* status[q]: "unborn", "group", "session", "zombie" or "dead"
    writers,    \* writers[s]: processes that hold the write end of s's pipe
    pipe,       \* pipe[s]: bytes in the pipe
    sent,       \* sent[s]: bytes written to s so far
    captured,   \* captured[s]: bytes the worker has pushed to its redactor
    worker      \* worker[s]: the capture thread of s; "refused" if the system would
                \* not start it, "failed" if its read failed, or "panicked"

given == <<hasTimeout, mayEscape, killMayFail>>
procs == <<status, writers>>
streams == <<pipe, sent, captured, worker>>
vars == <<given, pc, result, late, procs, streams>>

Joining == {"joinOut", "joinErr"}
PC == {"start", "startOut", "startErr", "wait", "reaped", "expired", "expiredWait",
       "abort", "abortWait", "done"} \cup Joining
Result == {"none", "exited", "timedOut", "InvalidRequest", "SpawnFailed", "ProcessControlFailed",
           "OutputReadFailed", "OutputWorkerFailed"}
Failed == result \notin {"none", "exited", "timedOut"}

TypeOK ==
    /\ pc \in PC /\ result \in Result /\ late \in BOOLEAN
    /\ {hasTimeout, mayEscape, killMayFail} \subseteq BOOLEAN
    /\ status \in [Process -> {"unborn", "group", "session", "zombie", "dead"}]
    /\ writers \in [Stream -> SUBSET Process]
    /\ pipe \in [Stream -> 0 .. Capacity]
    /\ sent \in [Stream -> 0 .. MaxSent]
    /\ captured \in [Stream -> 0 .. MaxSent]
    /\ worker \in [Stream -> {"none", "refused", "reading", "eof", "failed", "panicked"}]

Init ==
    /\ hasTimeout \in Timeouts /\ mayEscape \in Escapes /\ killMayFail \in KillFailures
    /\ pc = "start" /\ result = "none" /\ late = FALSE
    /\ status = [q \in Process |-> "unborn"]
    /\ writers = [s \in Stream |-> {}]
    /\ pipe = [s \in Stream |-> 0]
    /\ sent = [s \in Stream |-> 0]
    /\ captured = [s \in Stream |-> 0]
    /\ worker = [s \in Stream |-> "none"]

-----------------------------------------------------------------------------
(* The caller *)

Return(r) == pc' = "done" /\ result' = r

\* build_command and spawn: the child leads a new group and holds both pipes.
Spawn ==
    /\ pc = "start"
    /\ pc' = "startOut"
    /\ status' = [status EXCEPT ![Child] = "group"]
    /\ writers' = [s \in Stream |-> {Child}]
    /\ UNCHANGED <<given, result, late, streams>>

\* validate_request refuses the request (a name used twice, a secret in the
\* arguments or in a name), or the process cannot be started.
SpawnFails ==
    /\ pc = "start"
    /\ Return("InvalidRequest") \/ Return("SpawnFailed")
    /\ UNCHANGED <<given, late, procs, streams>>

\* thread::Builder::spawn, stdout first.
StartWorker(from, s, to) ==
    /\ pc = from
    /\ pc' = to
    /\ worker' = [worker EXCEPT ![s] = "reading"]
    /\ UNCHANGED <<given, result, late, procs, pipe, sent, captured>>

\* The closure that owns the read end is dropped with the failed thread.
StartWorkerFails(from, s) ==
    /\ pc = from
    /\ pc' = "abort" /\ result' = "OutputWorkerFailed"
    /\ worker' = [worker EXCEPT ![s] = "refused"]
    /\ UNCHANGED <<given, late, procs, pipe, sent, captured>>

Reap == status' = [status EXCEPT ![Child] = "dead"] /\ UNCHANGED writers

\* wait_for_child without a timeout: child.wait().
WaitChild ==
    /\ pc = "wait" /\ ~hasTimeout
    /\ status[Child] = "zombie"
    /\ Reap
    /\ pc' = "joinOut" /\ result' = "exited"
    /\ UNCHANGED <<given, late, streams>>

\* wait_for_child with a timeout: try_wait finds the child gone ...
TryWait ==
    /\ pc = "wait" /\ hasTimeout
    /\ status[Child] = "zombie"
    /\ Reap
    /\ pc' = "reaped"
    /\ UNCHANGED <<given, result, late, streams>>

\* ... or it does not, and the deadline has passed.
DeadlinePassed ==
    /\ pc = "wait" /\ hasTimeout /\ late
    /\ status[Child] # "zombie"
    /\ pc' = "expired"
    /\ UNCHANGED <<given, result, late, procs, streams>>

\* wait or try_wait returns an error, or the deadline is not representable.
WaitFails ==
    /\ pc = "wait"
    /\ pc' = "abort" /\ result' = "ProcessControlFailed"
    /\ UNCHANGED <<given, late, procs, streams>>

\* Mutant of KillGroup: only the child is signalled.
KillGroupChildOnly ==
    /\ status' = [status EXCEPT ![Child] = IF @ = "group" THEN "zombie" ELSE @]
    /\ writers' = [s \in Stream |-> writers[s] \ {Child}]

\* killpg(SIGKILL): every member of the group dies and drops its pipe ends; the
\* child stays a zombie until it is waited for.
KillGroup ==
    LET members == {q \in Process : status[q] = "group"} IN
    /\ status' = [q \in Process |-> IF q \notin members THEN status[q]
                                    ELSE IF q = Child THEN "zombie" ELSE "dead"]
    /\ writers' = [s \in Stream |-> writers[s] \ members]

\* Mutant of TerminateDescendants: nothing is killed after a normal exit.
TerminateDescendantsSkipped ==
    /\ pc = "reaped"
    /\ UNCHANGED procs
    /\ pc' = "joinOut" /\ result' = "exited"
    /\ UNCHANGED <<given, late, streams>>

\* terminate_descendants ignores a failing kill.
TerminateDescendants ==
    /\ pc = "reaped"
    /\ KillGroup \/ (killMayFail /\ UNCHANGED procs)
    /\ pc' = "joinOut" /\ result' = "exited"
    /\ UNCHANGED <<given, late, streams>>

KillExpired ==
    /\ pc = "expired"
    /\ \/ KillGroup /\ pc' = "expiredWait" /\ UNCHANGED result
       \/ /\ killMayFail /\ UNCHANGED procs
          /\ pc' = "abort" /\ result' = "ProcessControlFailed"
    /\ UNCHANGED <<given, late, streams>>

WaitExpired ==
    /\ pc = "expiredWait" /\ status[Child] = "zombie"
    /\ Reap
    /\ pc' = "joinOut" /\ result' = "timedOut"
    /\ UNCHANGED <<given, late, streams>>

WaitExpiredFails ==
    /\ pc = "expiredWait"
    /\ pc' = "abort" /\ result' = "ProcessControlFailed"
    /\ UNCHANGED <<given, late, procs, streams>>

\* Mutant of AbortKill: the child is killed but not waited for.
AbortKillNoWait ==
    /\ pc = "abort"
    /\ KillGroup \/ (killMayFail /\ UNCHANGED procs)
    /\ pc' = "joinOut"
    /\ UNCHANGED <<given, result, late, streams>>

\* terminate_child: the result of the kill is ignored.  The wait that follows
\* cannot fail for a child that has not been waited for.
AbortKill ==
    /\ pc = "abort"
    /\ KillGroup \/ (killMayFail /\ UNCHANGED procs)
    /\ pc' = "abortWait"
    /\ UNCHANGED <<given, result, late, streams>>

AbortWait ==
    /\ pc = "abortWait" /\ status[Child] = "zombie"
    /\ Reap
    /\ pc' = "joinOut"
    /\ UNCHANGED <<given, result, late, streams>>

Ended(s) == worker[s] # "reading"

\* Mutant of JoinOut: the capture is taken without waiting for the thread.
JoinOutEarly ==
    /\ pc = "joinOut"
    /\ pc' = "joinErr"
    /\ UNCHANGED <<given, result, late, procs, streams>>

\* join_capture: a panic of the thread is an OutputWorkerFailed, a failed read
\* an OutputReadFailed; on the error paths the outcome of the thread is ignored.
Lost(s) == ~Failed /\ worker[s] \in {"failed", "panicked"}
JoinError(s) == IF worker[s] = "panicked" THEN "OutputWorkerFailed" ELSE "OutputReadFailed"

JoinOut ==
    /\ pc = "joinOut" /\ Ended("out")
    /\ \/ Lost("out") /\ Return(JoinError("out"))
       \/ ~Lost("out") /\ pc' = "joinErr" /\ UNCHANGED result
    /\ UNCHANGED <<given, late, procs, streams>>

JoinErr ==
    /\ pc = "joinErr" /\ Ended("err")
    /\ Return(IF Lost("err") THEN JoinError("err") ELSE result)
    /\ UNCHANGED <<given, late, procs, streams>>

-----------------------------------------------------------------------------
(* capture_stream *)

ReadChunk(s) ==
    /\ worker[s] = "reading" /\ pipe[s] > 0
    /\ \E n \in 1 .. pipe[s] :
          /\ pipe' = [pipe EXCEPT ![s] = @ - n]
          /\ captured' = [captured EXCEPT ![s] = @ + n]
    /\ UNCHANGED <<given, pc, result, late, procs, sent, worker>>

\* read() returns 0: the pipe is empty and no write end is open.
ReadEof(s) ==
    /\ worker[s] = "reading" /\ pipe[s] = 0 /\ writers[s] = {}
    /\ worker' = [worker EXCEPT ![s] = "eof"]
    /\ UNCHANGED <<given, pc, result, late, procs, pipe, sent, captured>>

\* The read fails, or the thread panics; either way it reads no more.
StopReading(s, end) ==
    /\ worker[s] = "reading"
    /\ worker' = [worker EXCEPT ![s] = end]
    /\ UNCHANGED <<given, pc, result, late, procs, pipe, sent, captured>>

-----------------------------------------------------------------------------
(* The child, its descendants and the clock *)

Alive(q) == status[q] \in {"group", "session"}

\* Blocks while the pipe is full.
Write(q, s) ==
    /\ Alive(q) /\ q \in writers[s]
    /\ pipe[s] < Capacity /\ sent[s] < MaxSent
    /\ pipe' = [pipe EXCEPT ![s] = @ + 1]
    /\ sent' = [sent EXCEPT ![s] = @ + 1]
    /\ UNCHANGED <<given, pc, result, late, procs, captured, worker>>

CloseEnd(q, s) ==
    /\ Alive(q) /\ q \in writers[s]
    /\ writers' = [writers EXCEPT ![s] = @ \ {q}]
    /\ UNCHANGED <<given, pc, result, late, status, streams>>

Fork(q, k) ==
    /\ Alive(q) /\ status[k] = "unborn"
    /\ status' = [status EXCEPT ![k] = status[q]]
    /\ writers' = [s \in Stream |-> IF q \in writers[s] THEN writers[s] \cup {k}
                                                        ELSE writers[s]]
    /\ UNCHANGED <<given, pc, result, late, streams>>

Setsid(k) ==
    /\ mayEscape /\ k \in Kin /\ status[k] = "group"
    /\ status' = [status EXCEPT ![k] = "session"]
    /\ UNCHANGED <<given, pc, result, late, writers, streams>>

Exit(q) ==
    /\ Alive(q)
    /\ status' = [status EXCEPT ![q] = IF q = Child THEN "zombie" ELSE "dead"]
    /\ writers' = [s \in Stream |-> writers[s] \ {q}]
    /\ UNCHANGED <<given, pc, result, late, streams>>

DeadlineComes ==
    /\ hasTimeout /\ ~late /\ pc = "wait"
    /\ late' = TRUE
    /\ UNCHANGED <<given, pc, result, procs, streams>>

-----------------------------------------------------------------------------
Start ==
    \/ Spawn \/ SpawnFails
    \/ StartWorker("startOut", "out", "startErr") \/ StartWorkerFails("startOut", "out")
    \/ StartWorker("startErr", "err", "wait") \/ StartWorkerFails("startErr", "err")

Wait ==
    \/ WaitChild \/ TryWait \/ DeadlinePassed
    \/ TerminateDescendants \/ KillExpired \/ WaitExpired
    \/ AbortKill \/ AbortWait \/ JoinOut \/ JoinErr

Capture(s) == ReadChunk(s) \/ ReadEof(s)

CaptureStops(s) == StopReading(s, "failed") \/ StopReading(s, "panicked")

Outside ==
    \E q \in Process :
       \/ \E s \in Stream : Write(q, s) \/ CloseEnd(q, s)
       \/ \E k \in Kin : Fork(q, k)
       \/ Setsid(q) \/ Exit(q)

Done == pc = "done" /\ UNCHANGED vars

Next ==
    \/ Start \/ Wait \/ WaitFails \/ WaitExpiredFails
    \/ \E s \in Stream : Capture(s) \/ CaptureStops(s)
    \/ Outside \/ DeadlineComes
    \/ Done

Spec == Init /\ [][Next]_vars

\* The caller, the two threads and the clock go on; nothing is assumed of the
\* child and its descendants, which may run for ever.
FairSpec ==
    /\ Spec
    /\ WF_vars(Start \/ Wait) /\ WF_vars(DeadlineComes)
    /\ \A s \in Stream : WF_vars(Capture(s))

-----------------------------------------------------------------------------
(* Properties *)

\* When execute() returns a result, by exit or by timeout, every byte any
\* process wrote to either pipe has gone through the redactor, and nobody is
\* left who could write more: no output is lost in the race between the exit or
\* the kill and the threads that drain the pipes.
CompleteCapture ==
    pc = "done" /\ result \in {"exited", "timedOut"} =>
       \A s \in Stream : captured[s] = sent[s] /\ writers[s] = {}

\* On every path, error paths included, execute() returns only after it has
\* reaped the child, so it leaves neither a running child nor a zombie.
ChildReaped == pc = "done" => status[Child] \in {"unborn", "dead"}

\* With a timeout, whatever the outcome (a failed read or a panic of a capture
\* thread included), and without one when a capture thread could not be started
\* or the wait failed, nothing of the process group outlives execute() unless
\* the kill itself fails, whatever the child forked while it was being waited
\* for.  Nothing is promised without a timeout once the child has exited: its
\* descendants are left alone, also when a capture then turns out to be lost.
NoSurvivors ==
    (/\ ~killMayFail /\ pc \in Joining \cup {"done"}
     /\ \/ hasTimeout
        \/ result = "ProcessControlFailed"
        \/ \E s \in Stream : worker[s] = "refused") =>
       \A q \in Process : status[q] # "group"

\* With a timeout, execute() returns, however long the child and its descendants
\* run and even if they fill the pipes or keep them open, as long as they stay
\* in the process group and the group can be killed.
Returns == hasTimeout /\ ~mayEscape /\ ~killMayFail => <>(pc = "done")

\* "Sets an optional wall-clock timeout" (ExecutionLimits::set_timeout): with a
\* timeout, execute() returns, whatever the child does.
TimeoutReturns == hasTimeout => <>(pc = "done")
=============================================================================
