----------------------------- MODULE RotatingLog -----------------------------
(***************************************************************************)
(* The two JSON-lines logs: blindfold-vault's AuditLog and blindfold-      *)
(* trace's Store.  Both append under an advisory lock to an active file,   *)
(* rotate it through numbered generations when the next line would not     *)
(* fit, and read back under the same lock.  A process may die and a system *)
(* call may fail between any two steps: in the middle of a rotation, of a  *)
(* clear, and of the bytes of a line.                                      *)
(***************************************************************************)
EXTENDS Integers, Sequences

CONSTANTS
    Proc,         \* threads of control that share the log
    NoProc,
    Retained,     \* retained_files: generations 1 .. Retained
    MaxBytes,     \* max_bytes of the active file
    LineLen,      \* possible lengths of a serialized record with its newline
    Logs,         \* the choices of isTrace
    MaxSerial     \* bound: number of appends in a behaviour

ASSUME LogAssumption ==
    /\ Retained \in Nat \ {0} /\ MaxBytes \in Nat \ {0}
    /\ LineLen \subseteq Nat \ {0, 1}
    /\ Logs \subseteq BOOLEAN /\ MaxSerial \in Nat
    /\ NoProc \notin Proc

VARIABLES
    isTrace,  \* TRUE: the log is a trace Store.  FALSE: an AuditLog
    files,    \* files[g]: generation g, 0 is the active file
    lock,     \* holder of the lock file
    pc,       \* pc[p]: where p is in its call
    len,      \* len[p]: length of the line p appends
    step,     \* step[p]: loop variable `generation` of rotate, clear and read_all
    got,      \* got[p]: the records p's read has collected
    serial,   \* appends that obtained the lock so far; names the records
    acked     \* records whose append returned Ok, since the last clear began

procVars == <<pc, len, step, got>>
vars == <<isTrace, files, lock, procVars, serial, acked>>

Gen == 0 .. Retained

\* What one append left in a file: "line", its bytes and the newline; "bare",
\* its bytes without the newline; "torn", fewer than its bytes.
Piece == [rec : Nat, part : {"line", "bare", "torn"}]
File == [there : BOOLEAN, pieces : Seq(Piece), size : Nat]
NoFile == [there |-> FALSE, pieces |-> <<>>, size |-> 0]

Inside == {"measure", "rotate", "open", "write", "torn", "newline", "sync", "read", "answer", "clear"}
PC == {"idle", "lockAppend", "lockRead", "lockClear"} \cup Inside

TypeOK ==
    /\ isTrace \in Logs
    /\ files \in [Gen -> File]
    /\ lock \in Proc \cup {NoProc}
    /\ pc \in [Proc -> PC]
    /\ len \in [Proc -> LineLen \cup {0}]
    /\ step \in [Proc -> Gen]
    /\ got \in [Proc -> Seq(Nat)]
    /\ serial \in Nat
    /\ acked \subseteq 1 .. serial

Init ==
    /\ isTrace \in Logs
    /\ files = [g \in Gen |-> NoFile]
    /\ lock = NoProc
    /\ pc = [p \in Proc |-> "idle"]
    /\ len = [p \in Proc |-> 0]
    /\ step = [p \in Proc |-> 0]
    /\ got = [p \in Proc |-> <<>>]
    /\ serial = 0
    /\ acked = {}

-----------------------------------------------------------------------------
\* read_path / read_lines: every newline-terminated stretch must be one record;
\* a last stretch without a newline is parsed as well.
Parses(f) ==
    /\ f.size <= MaxBytes
    /\ \A n \in 1 .. Len(f.pieces) :
          \/ f.pieces[n].part = "line"
          \/ f.pieces[n].part = "bare" /\ n = Len(f.pieces)

AddPiece(f, part, bytes) ==
    [there |-> TRUE,
     pieces |-> Append(f.pieces, [rec |-> serial, part |-> part]),
     size |-> f.size + bytes]

Goto(p, label) == pc' = [pc EXCEPT ![p] = label]

\* The call ends, by return or by the death of the process.
Leave(p) ==
    /\ Goto(p, "idle")
    /\ lock' = IF lock = p THEN NoProc ELSE lock
    /\ len' = [len EXCEPT ![p] = 0]
    /\ step' = [step EXCEPT ![p] = 0]
    /\ got' = [got EXCEPT ![p] = <<>>]

\* Mutant of Fits: the length check of Store::append is gone.
FitsUnchecked(n) == n \in LineLen

\* Store::append refuses a line longer than the limit before it locks.
\* AuditLog::append has no such check.
Fits(n) == isTrace => n <= MaxBytes

CallAppend(p, n) ==
    /\ pc[p] = "idle"
    /\ Fits(n)
    /\ Goto(p, "lockAppend")
    /\ len' = [len EXCEPT ![p] = n]
    /\ UNCHANGED <<files, lock, step, serial, acked, got>>

CallRead(p) ==
    /\ pc[p] = "idle"
    /\ Goto(p, "lockRead")
    /\ UNCHANGED <<files, lock, len, step, serial, acked, got>>

\* Only the trace store can be cleared.
CallClear(p) ==
    /\ pc[p] = "idle" /\ isTrace
    /\ Goto(p, "lockClear")
    /\ UNCHANGED <<files, lock, len, step, serial, acked, got>>

\* open_lock
LockForAppend(p) ==
    /\ pc[p] = "lockAppend" /\ lock = NoProc
    /\ serial < MaxSerial
    /\ lock' = p
    /\ serial' = serial + 1
    /\ Goto(p, "measure")
    /\ UNCHANGED <<files, len, step, acked, got>>

\* Mutant of LockForRead: the read goes ahead without the lock.
LockForReadShared(p) ==
    /\ pc[p] = "lockRead"
    /\ Goto(p, "read")
    /\ step' = [step EXCEPT ![p] = IF isTrace THEN Retained ELSE 0]
    /\ UNCHANGED <<files, lock, len, serial, acked, got>>

LockForRead(p) ==
    /\ pc[p] = "lockRead" /\ lock = NoProc
    /\ lock' = p
    /\ Goto(p, "read")
    /\ step' = [step EXCEPT ![p] = IF isTrace THEN Retained ELSE 0]
    /\ UNCHANGED <<files, len, serial, acked, got>>

LockForClear(p) ==
    /\ pc[p] = "lockClear" /\ lock = NoProc
    /\ lock' = p
    /\ acked' = {}
    /\ Goto(p, "clear")
    /\ UNCHANGED <<files, len, step, serial, got>>

\* The length of the active file decides whether to rotate first.
Overflows(size, n) == size # 0 /\ size + n > MaxBytes

Measure(p) ==
    /\ pc[p] = "measure"
    /\ IF Overflows(files[0].size, len[p])
       THEN Goto(p, "rotate") /\ step' = [step EXCEPT ![p] = Retained]
       ELSE Goto(p, "open") /\ UNCHANGED step
    /\ UNCHANGED <<files, lock, len, serial, acked, got>>

\* rotate: remove the oldest generation, then rename from the oldest down;
\* a missing source is skipped.
RemoveOldest(p) ==
    /\ pc[p] = "rotate" /\ step[p] = Retained
    /\ files' = [files EXCEPT ![Retained] = NoFile]
    /\ step' = [step EXCEPT ![p] = Retained - 1]
    /\ UNCHANGED <<lock, pc, len, serial, acked, got>>

\* Mutant of Shifted: a copy instead of a rename.
ShiftedCopies(g) ==
    IF files[g].there THEN [files EXCEPT ![g + 1] = files[g]] ELSE files

Shifted(g) ==
    IF files[g].there
    THEN [files EXCEPT ![g] = NoFile, ![g + 1] = files[g]]
    ELSE files

ShiftGeneration(p) ==
    /\ pc[p] = "rotate" /\ step[p] \in 1 .. Retained - 1
    /\ files' = Shifted(step[p])
    /\ step' = [step EXCEPT ![p] = @ - 1]
    /\ UNCHANGED <<lock, pc, len, serial, acked, got>>

ShiftActive(p) ==
    /\ pc[p] = "rotate" /\ step[p] = 0
    /\ files' = Shifted(0)
    /\ Goto(p, "open")
    /\ UNCHANGED <<lock, len, step, serial, acked, got>>

\* Mutant of OpenActive: truncate in place of append.
OpenActiveTruncates(p) ==
    /\ pc[p] = "open"
    /\ files' = [files EXCEPT ![0] = [NoFile EXCEPT !.there = TRUE]]
    /\ Goto(p, "write")
    /\ UNCHANGED <<lock, len, step, serial, acked, got>>

\* OpenOptions create + append: the file exists from here on, perhaps empty.
OpenActive(p) ==
    /\ pc[p] = "open"
    /\ files' = [files EXCEPT ![0].there = TRUE]
    /\ Goto(p, "write")
    /\ UNCHANGED <<lock, len, step, serial, acked, got>>

\* write_all of the line, which may stop part of the way.
WriteLine(p) ==
    /\ pc[p] = "write"
    /\ files' = [files EXCEPT ![0] = AddPiece(@, "bare", len[p] - 1)]
    /\ Goto(p, "newline")
    /\ UNCHANGED <<lock, len, step, serial, acked, got>>

TearLine(p, bytes) ==
    /\ pc[p] = "write" /\ bytes < len[p] - 1
    /\ files' = [files EXCEPT ![0] = AddPiece(@, "torn", bytes)]
    /\ Goto(p, "torn")
    /\ UNCHANGED <<lock, len, step, serial, acked, got>>

WriteNewline(p) ==
    /\ pc[p] = "newline"
    /\ files' = [files EXCEPT ![0].pieces[Len(files[0].pieces)].part = "line",
                              ![0].size = @ + 1]
    /\ Goto(p, "sync")
    /\ UNCHANGED <<lock, len, step, serial, acked, got>>

\* sync_data succeeds and append returns Ok.
Sync(p) ==
    /\ pc[p] = "sync"
    /\ acked' = acked \cup {serial}
    /\ Leave(p)
    /\ UNCHANGED <<files, serial>>

Records(f) == [n \in 1 .. Len(f.pieces) |-> f.pieces[n].rec]

\* read_all collects the retained files from the oldest down to the active one;
\* read_lines only the active one.  A file that does not parse ends the read
\* with an error.
ReadFile(p) ==
    /\ pc[p] = "read"
    /\ Parses(files[step[p]])
    /\ got' = [got EXCEPT ![p] = @ \o Records(files[step[p]])]
    /\ IF step[p] = 0
       THEN Goto(p, "answer") /\ UNCHANGED step
       ELSE step' = [step EXCEPT ![p] = @ - 1] /\ UNCHANGED pc
    /\ UNCHANGED <<files, lock, len, serial, acked>>

ReadRejects(p) ==
    /\ pc[p] = "read"
    /\ ~Parses(files[step[p]])
    /\ Leave(p)
    /\ UNCHANGED <<files, serial, acked>>

ReadReturns(p) ==
    /\ pc[p] = "answer"
    /\ Leave(p)
    /\ UNCHANGED <<files, serial, acked>>

\* clear removes the active file first, then the generations from the newest.
ClearStep(p) ==
    /\ pc[p] = "clear"
    /\ files' = [files EXCEPT ![step[p]] = NoFile]
    /\ IF step[p] = Retained
       THEN Leave(p)
       ELSE step' = [step EXCEPT ![p] = @ + 1] /\ UNCHANGED <<lock, pc, len, got>>
    /\ UNCHANGED <<serial, acked>>

\* A system call fails and the call returns an error, or the process dies: what
\* has been done to the files stays done and the lock is released.
FailOrCrash(p) ==
    /\ pc[p] # "idle"
    /\ Leave(p)
    /\ UNCHANGED <<files, serial, acked>>

-----------------------------------------------------------------------------
Rotate(p) == RemoveOldest(p) \/ ShiftGeneration(p) \/ ShiftActive(p)

Next ==
    /\ UNCHANGED isTrace
    /\ \E p \in Proc :
          \/ \E n \in LineLen : CallAppend(p, n)
          \/ CallRead(p) \/ CallClear(p)
          \/ LockForAppend(p) \/ LockForRead(p) \/ LockForClear(p)
          \/ Measure(p) \/ Rotate(p) \/ OpenActive(p)
          \/ WriteLine(p) \/ WriteNewline(p) \/ Sync(p)
          \/ \E bytes \in 1 .. len[p] : TearLine(p, bytes)
          \/ ReadFile(p) \/ ReadRejects(p) \/ ReadReturns(p)
          \/ ClearStep(p)
          \/ FailOrCrash(p)

Spec == Init /\ [][Next]_vars

-----------------------------------------------------------------------------
Present == UNION {{files[g].pieces[n].rec : n \in 1 .. Len(files[g].pieces)} : g \in Gen}

\* Records are in the order of their appends, within a file and across the
\* generations, at every moment of a rotation, of a clear and after any crash:
\* rotate renames from the oldest generation down and never onto a live one.
OrderInv ==
    /\ \A g \in Gen : \A n \in 1 .. Len(files[g].pieces) :
          /\ files[g].pieces[n].rec <= serial
          /\ \A m \in 1 .. n - 1 : files[g].pieces[m].rec < files[g].pieces[n].rec
    /\ \A g, h \in Gen : g < h =>
          \A n \in 1 .. Len(files[g].pieces), m \in 1 .. Len(files[h].pieces) :
             files[h].pieces[m].rec < files[g].pieces[n].rec

\* What the log has lost of the acknowledged records is a prefix: a record
\* whose append returned Ok is in some file, or every record in the files is
\* newer.  Rotation, crashes inside it and the missing generations they leave
\* behind never make a hole.
NoHoles == \A r \in acked : r \in Present \/ \A q \in Present : r < q

\* No sequence of appends, torn writes and rotations makes a file of the trace
\* store larger than read_path accepts.  (A single long event does that to the
\* audit log.)
Bounded == isTrace => \A g \in Gen : files[g].size <= MaxBytes

\* A read that succeeds returns the records oldest first, none twice, and no
\* acknowledged record is missing after the first one it returns, whatever
\* the appenders and rotations of other processes do meanwhile.
ReadComplete ==
    \A p \in Proc : pc[p] = "answer" =>
       /\ \A n \in 1 .. Len(got[p]) : \A m \in 1 .. n - 1 : got[p][m] < got[p][n]
       /\ \A r \in acked :
             \/ \E n \in 1 .. Len(got[p]) : got[p][n] = r
             \/ \A n \in 1 .. Len(got[p]) : r < got[p][n]

\* "Appends one complete event" (AuditLog::append): an event whose append
\* returned Ok stands on a line of its own, so that read_lines can parse it.
OwnLine ==
    \A g \in Gen : \A n \in 2 .. Len(files[g].pieces) :
       files[g].pieces[n].rec \in acked => files[g].pieces[n - 1].part = "line"
=============================================================================
