-------------------------------- MODULE Vault --------------------------------
(***************************************************************************)
(* blindfold-vault's Vault: several threads or processes that share one    *)
(* encrypted file and the lock file next to it.  An operation takes the    *)
(* advisory lock, reads and authenticates the whole file, works on the     *)
(* decrypted copy, and replaces the file with an atomic rename.  Every     *)
(* system call may fail, every process may die between any two steps (the  *)
(* operating system then drops its lock), and the wall clock moves.        *)
(***************************************************************************)
EXTENDS VaultData

CONSTANT
    ClockStepsBack   \* TRUE: the wall clock may also be set back

ASSUME StepAssumption == ClockStepsBack \in BOOLEAN

VARIABLES
    file,     \* the vault file
    lock,     \* holder of the exclusive lock on the adjacent lock file
    clock,    \* SystemTime::now(), in seconds
    handle,   \* handle[p]: the key of p's open Vault, NoKey if it has none
    pc,       \* pc[p]: where p is in its call
    req,      \* req[p]: the call and its arguments
    now,      \* now[p]: the local variable `now`
    mem,      \* mem[p]: the local variable `state`, decrypted
    reply     \* reply[p]: the value returned, or about to be

procVars == <<handle, pc, req, now, mem, reply>>
vars == <<file, lock, clock, procVars>>

\* "lock": about to take the lock.  "read" .. "check": holding it, before
\* read_state, after it, before the commit of write_state, after the commit.
Inside == {"read", "apply", "write", "check"}
PC == {"idle", "lock"} \cup Inside

TypeOK ==
    /\ file \in File
    /\ lock \in Proc \cup {NoProc}
    /\ clock \in Clock
    /\ handle \in [Proc -> Key \cup {NoKey}]
    /\ pc \in [Proc -> PC]
    /\ req \in [Proc -> Request]
    /\ now \in [Proc -> Clock]
    /\ mem \in [Proc -> State]
    /\ reply \in [Proc -> Reply]

Init ==
    /\ file = MissingFile
    /\ lock = NoProc
    /\ clock \in IF ClockStepsBack THEN Clock ELSE Time
    /\ handle = [p \in Proc |-> NoKey]
    /\ pc = [p \in Proc |-> "idle"]
    /\ req = [p \in Proc |-> NoReq]
    /\ now = [p \in Proc |-> Unread]
    /\ mem = [p \in Proc |-> EmptyState]
    /\ reply = [p \in Proc |-> NoReply]

-----------------------------------------------------------------------------
\* A call enters with its arguments and goes for the lock.
Enter(p, r, t) ==
    /\ pc[p] = "idle"
    /\ pc' = [pc EXCEPT ![p] = "lock"]
    /\ req' = [req EXCEPT ![p] = r]
    /\ now' = [now EXCEPT ![p] = t]
    /\ reply' = [reply EXCEPT ![p] = NoReply]
    /\ UNCHANGED <<file, lock, clock, mem>>

Open(p, k) ==
    /\ handle[p] = NoKey
    /\ Enter(p, [op |-> "open"], Unread)
    /\ handle' = [handle EXCEPT ![p] = k]

\* The clock is read and the expiry computed before the lock is requested.
Store(p, kind, scope, value, ttl) ==
    /\ handle[p] # NoKey
    /\ value # EmptyValue
    /\ clock \in Time /\ ValidTtl(clock, ttl)
    /\ Enter(p, [op |-> "store",
                 rec |-> [kind |-> kind, scope |-> scope, value |-> value,
                          expires |-> clock + ttl]], clock)
    /\ UNCHANGED handle

\* The early InvalidInput returns of store(): nothing is locked or read.
StoreRefused(p, value, ttl) ==
    /\ pc[p] = "idle" /\ handle[p] # NoKey
    /\ value = EmptyValue \/ clock \notin Time \/ ~ValidTtl(clock, ttl)
    /\ reply' = [reply EXCEPT ![p] = Err("InvalidInput")]
    /\ UNCHANGED <<file, lock, clock, handle, pc, req, now, mem>>

Resolve(p, id, kind, scope) ==
    /\ handle[p] # NoKey
    /\ Enter(p, [op |-> "resolve", id |-> id, kind |-> kind, scope |-> scope], Unread)
    /\ UNCHANGED handle

ListOrClear(p, op, scope) ==
    /\ handle[p] # NoKey
    /\ Enter(p, [op |-> op, scope |-> scope], Unread)
    /\ UNCHANGED handle

PurgeExpired(p) ==
    /\ handle[p] # NoKey
    /\ Enter(p, [op |-> "purge"], Unread)
    /\ UNCHANGED handle

-----------------------------------------------------------------------------
\* Returning drops the guard of the lock file and every local variable; a
\* failed open() yields no handle.
Return(p, r) ==
    /\ pc' = [pc EXCEPT ![p] = "idle"]
    /\ lock' = IF lock = p THEN NoProc ELSE lock
    /\ reply' = [reply EXCEPT ![p] = r]
    /\ req' = [req EXCEPT ![p] = NoReq]
    /\ now' = [now EXCEPT ![p] = Unread]
    /\ mem' = [mem EXCEPT ![p] = EmptyState]
    /\ handle' = [handle EXCEPT ![p] =
                    IF req[p].op = "open" /\ r # Opened THEN NoKey ELSE @]

\* Mutant: the lock is taken in shared mode.
OpenLockShared(p) ==
    /\ pc[p] = "lock"
    /\ lock' = p
    /\ pc' = [pc EXCEPT ![p] = "read"]
    /\ UNCHANGED <<file, clock, handle, req, now, mem, reply>>

\* open_lock: blocks until no other open file description holds the lock.
OpenLock(p) ==
    /\ pc[p] = "lock" /\ lock = NoProc
    /\ lock' = p
    /\ pc' = [pc EXCEPT ![p] = "read"]
    /\ UNCHANGED <<file, clock, handle, req, now, mem, reply>>

ReadState(p) ==
    /\ pc[p] = "read"
    /\ Readable(file, handle[p])
    /\ mem' = [mem EXCEPT ![p] = file.recs]
    /\ pc' = [pc EXCEPT ![p] = "apply"]
    /\ UNCHANGED <<file, lock, clock, handle, req, now, reply>>

\* Mutant: the guard of the lock is leaked on the error path.
ReadStateRejectsLeaks(p) ==
    /\ pc[p] = "read"
    /\ ~Readable(file, handle[p])
    /\ pc' = [pc EXCEPT ![p] = "idle"]
    /\ reply' = [reply EXCEPT ![p] = Err("CorruptOrWrongKey")]
    /\ UNCHANGED <<file, lock, clock, handle, req, now, mem>>

ReadStateRejects(p) ==
    /\ pc[p] = "read"
    /\ ~Readable(file, handle[p])
    /\ Return(p, Err("CorruptOrWrongKey"))
    /\ UNCHANGED <<file, clock>>

\* Mutant: the guard of the lock is dropped before write_state.
GoWriteUnlocked(p, recs, r) ==
    /\ mem' = [mem EXCEPT ![p] = recs]
    /\ reply' = [reply EXCEPT ![p] = r]
    /\ pc' = [pc EXCEPT ![p] = "write"]
    /\ lock' = NoProc
    /\ UNCHANGED <<file, clock, handle, req>>

\* write_state is next, with this state and this answer if it succeeds.
GoWrite(p, recs, r) ==
    /\ mem' = [mem EXCEPT ![p] = recs]
    /\ reply' = [reply EXCEPT ![p] = r]
    /\ pc' = [pc EXCEPT ![p] = "write"]
    /\ UNCHANGED <<file, lock, clock, handle, req>>

Applying(p, op) == pc[p] = "apply" /\ req[p].op = op

OpenApply(p) ==
    /\ Applying(p, "open")
    /\ Return(p, Opened)
    /\ UNCHANGED <<file, clock>>

\* Mutants: an identifier in use is not drawn again; records are pruned at the
\* new record's expiry.
StoreApplyNoRedraw(p) ==
    /\ Applying(p, "store")
    /\ \E i \in Id :
          GoWrite(p, [Unexpired(mem[p], now[p]) EXCEPT ![i] = req[p].rec], [id |-> i])
    /\ UNCHANGED now
StoreApplyPrunesAhead(p) ==
    /\ Applying(p, "store")
    /\ LET kept == Unexpired(mem[p], req[p].rec.expires) IN
       \E i \in Id :
          /\ kept[i] = NoRec
          /\ GoWrite(p, [kept EXCEPT ![i] = req[p].rec], [id |-> i])
    /\ UNCHANGED now

\* Drop what has expired at the clock reading made before the lock, then draw
\* identifiers until one is not in use.
StoreApply(p) ==
    /\ Applying(p, "store")
    /\ LET kept == Unexpired(mem[p], now[p]) IN
       \E i \in Id :
          /\ kept[i] = NoRec
          /\ GoWrite(p, [kept EXCEPT ![i] = req[p].rec], [id |-> i])
    /\ UNCHANGED now

\* getrandom fails for the identifier.
StoreNoRandomness(p) ==
    /\ Applying(p, "store")
    /\ Return(p, Err("RandomnessUnavailable"))
    /\ UNCHANGED <<file, clock>>

ResolveApply(p) ==
    /\ Applying(p, "resolve")
    /\ Return(p, ResolveReply(mem[p], req[p], clock))
    /\ UNCHANGED <<file, clock>>

ListApply(p) ==
    /\ Applying(p, "list")
    /\ Return(p, ListReply(mem[p], req[p].scope, clock))
    /\ UNCHANGED <<file, clock>>

\* clear and purge_expired write only if they removed something.
ClearApply(p) ==
    /\ Applying(p, "clear")
    /\ LET kept == OutsideScope(mem[p], req[p].scope)
           gone == Removed(mem[p], kept)
       IN \/ gone = {} /\ Return(p, [removed |-> {}]) /\ UNCHANGED <<file, clock>>
          \/ gone # {} /\ GoWrite(p, kept, [removed |-> gone]) /\ UNCHANGED now

PurgeApply(p) ==
    /\ Applying(p, "purge")
    /\ clock \in Time
    /\ LET kept == Unexpired(mem[p], clock)
           gone == Removed(mem[p], kept)
       IN \/ gone = {} /\ Return(p, [removed |-> {}]) /\ UNCHANGED <<file, clock>>
          \/ /\ gone # {} /\ GoWrite(p, kept, [removed |-> gone])
             /\ now' = [now EXCEPT ![p] = clock]

PurgeBeforeEpoch(p) ==
    /\ Applying(p, "purge")
    /\ clock \notin Time
    /\ Return(p, Err("InvalidInput"))
    /\ UNCHANGED <<file, clock>>

\* AtomicWriteFile::commit: the rename that replaces the file.
Commit(p) ==
    /\ pc[p] = "write"
    /\ file' = [key |-> handle[p], recs |-> mem[p]]
    /\ pc' = [pc EXCEPT ![p] = "check"]
    /\ UNCHANGED <<lock, clock, handle, req, now, mem, reply>>

\* reject_symlink and restrict_file after the commit succeed.
Finish(p) ==
    /\ pc[p] = "check"
    /\ Return(p, reply[p])
    /\ UNCHANGED <<file, clock>>

\* Mutant: an error of the commit is swallowed.
IoFailsSwallowed(p) ==
    /\ pc[p] \in {"lock", "read", "write", "check"}
    /\ Return(p, IF pc[p] = "write" THEN reply[p] ELSE Err("StorageUnavailable"))
    /\ UNCHANGED <<file, clock>>

\* Any file-system call of open_lock, read_state or write_state fails: before
\* the commit nothing was changed, after it the new file stays.
IoFails(p) ==
    /\ pc[p] \in {"lock", "read", "write", "check"}
    /\ Return(p, Err("StorageUnavailable"))
    /\ UNCHANGED <<file, clock>>

\* getrandom fails for the nonce, or the encryption fails.
SealFails(p) ==
    /\ pc[p] = "write"
    /\ \E e \in {"RandomnessUnavailable", "CorruptOrWrongKey"} : Return(p, Err(e))
    /\ UNCHANGED <<file, clock>>

\* The process ends, by exit or by crash, wherever it is.
Crash(p) ==
    /\ pc[p] # "idle" \/ handle[p] # NoKey
    /\ lock' = IF lock = p THEN NoProc ELSE lock
    /\ handle' = [handle EXCEPT ![p] = NoKey]
    /\ pc' = [pc EXCEPT ![p] = "idle"]
    /\ req' = [req EXCEPT ![p] = NoReq]
    /\ now' = [now EXCEPT ![p] = Unread]
    /\ mem' = [mem EXCEPT ![p] = EmptyState]
    /\ reply' = [reply EXCEPT ![p] = NoReply]
    /\ UNCHANGED <<file, clock>>

-----------------------------------------------------------------------------
Tick ==
    /\ clock < MaxTime
    /\ clock' = clock + 1
    /\ UNCHANGED <<file, lock, procVars>>

SetBack ==
    /\ ClockStepsBack /\ clock > -1
    /\ clock' = clock - 1
    /\ UNCHANGED <<file, lock, procVars>>

\* The file's bytes are damaged at rest, while no call is under way.
Corrupt ==
    /\ file.key \in Key /\ lock = NoProc
    /\ file' = [key |-> BadKey, recs |-> EmptyState]
    /\ UNCHANGED <<lock, clock, procVars>>

Invoke(p) ==
    \/ \E k \in Key : Open(p, k)
    \/ \E kind \in Kind, scope \in Scope, value \in Value, ttl \in TTL :
          Store(p, kind, scope, value, ttl)
    \/ \E value \in Value \cup {EmptyValue}, ttl \in TTL : StoreRefused(p, value, ttl)
    \/ \E id \in Id, kind \in Kind, scope \in Scope : Resolve(p, id, kind, scope)
    \/ \E op \in {"list", "clear"}, scope \in Scope : ListOrClear(p, op, scope)
    \/ PurgeExpired(p)

\* What a process does by itself once it holds the lock.
Proceed(p) ==
    \/ ReadState(p) \/ ReadStateRejects(p)
    \/ OpenApply(p) \/ StoreApply(p) \/ StoreNoRandomness(p) \/ ResolveApply(p)
    \/ ListApply(p) \/ ClearApply(p) \/ PurgeApply(p) \/ PurgeBeforeEpoch(p)
    \/ Commit(p) \/ Finish(p)

Next ==
    \/ \E p \in Proc : \/ Invoke(p) \/ OpenLock(p) \/ Proceed(p)
                       \/ IoFails(p) \/ SealFails(p) \/ Crash(p)
    \/ Tick \/ SetBack \/ Corrupt

Spec == Init /\ [][Next]_vars

\* A process that holds the lock keeps running (or dies): nothing it does
\* there waits for another process.
FairSpec == Spec /\ \A p \in Proc : WF_vars(Proceed(p))
-----------------------------------------------------------------------------
(* Properties *)

\* SnapshotInv.  A process is past open_lock exactly while it holds the lock;
\* from read_state until the commit the file is still the one it authenticated;
\* before the commit its copy differs from the file only by its own operation;
\* after the commit the file is its copy.  This is what "mutations decrypt and
\* authenticate the current state, update it in memory, and atomically replace
\* the encrypted file" needs in order to lose no update of another process.
Snapshot(p) ==
    /\ pc[p] \in Inside <=> lock = p
    /\ pc[p] \in {"apply", "write"} => Readable(file, handle[p])
    /\ pc[p] = "apply" => mem[p] = file.recs
    /\ pc[p] = "write" =>
          \E new \in Replacement(file.recs, req[p], now[p]) :
             mem[p] = new.recs /\ reply[p] = new.reply
    /\ pc[p] = "check" => file = [key |-> handle[p], recs |-> mem[p]]

SnapshotInv == \A p \in Proc : Snapshot(p)

\* OnlyJustifiedChanges.  No interleaving, failure or crash loses or alters a
\* record of another caller: an entry of the file changes only because a store
\* puts its own record under an identifier not in use, a clear removes a record
\* of its scope, or a store or purge removes a record that had expired at the
\* clock reading of that call.
Justified(p, i) ==
    LET old == file.recs[i]
        new == file'.recs[i]
        r == req[p]
    IN \/ r.op = "clear" /\ old.scope = r.scope /\ new = NoRec
       \/ r.op \in {"store", "purge"} /\ old # NoRec /\ old.expires <= now[p] /\ new = NoRec
       \/ /\ r.op = "store" /\ new = r.rec /\ reply[p] = [id |-> i]
          /\ old # NoRec => old.expires <= now[p]

OnlyJustifiedChanges ==
    [][\A i \in Id :
          file'.recs[i] # file.recs[i] /\ file'.key # BadKey =>
             \E p \in Proc : lock = p /\ Justified(p, i)]_vars

\* KeyNeverReplaced.  Wrong keys and corrupt files fail closed even for a handle
\* that was opened while there was no file: once a file exists no operation
\* replaces it by one sealed under another key, nor repairs a damaged one.
KeyNeverReplaced ==
    [][file.key # NoKey => file'.key \in {file.key, BadKey}]_vars

\* AckMeansDurable.  When store() returns a reference, the file holds exactly
\* the caller's record under it, whatever ran between the call and the return.
AckMeansDurable ==
    [][\A p \in Proc :
          (req[p].op = "store" /\ pc'[p] = "idle" /\ "id" \in DOMAIN reply'[p]) =>
             /\ file.key = handle[p]
             /\ file.recs[reply'[p].id] = req[p].rec]_vars

\* NoEarlyExpiry.  While the wall clock only moves forward, store() and
\* purge_expired() never remove a record that is still alive when the file is
\* replaced, although both prune with a clock reading made earlier.
NoEarlyExpiry ==
    [][\A i \in Id :
          (/\ file.recs[i] # NoRec /\ file'.recs[i] # file.recs[i]
           /\ file'.key # BadKey
           /\ \E p \in Proc : lock = p /\ req[p].op # "clear")
             => file.recs[i].expires <= clock]_vars

\* OnlyAuthorizedReplies.  "Missing, forged, expired, kind-mismatched, and
\* cross-scope references" are rejected on the file as it is when the call
\* returns, not on an older copy: a value goes only to a caller that names its
\* identifier, kind and scope before it expires, and list() shows exactly the
\* live identifiers of one scope.
OnlyAuthorizedReplies ==
    [][\A p \in Proc : pc[p] = "apply" /\ pc'[p] = "idle" =>
          /\ "value" \in DOMAIN reply'[p] =>
                file.recs[req[p].id] \in
                   [kind : {req[p].kind}, scope : {req[p].scope},
                    value : {reply'[p].value}, expires : (clock + 1) .. MaxTime]
          /\ "ids" \in DOMAIN reply'[p] =>
                reply'[p].ids = {i \in Id : file.recs[i] \in
                   [kind : Kind, scope : {req[p].scope},
                    value : Value, expires : (clock + 1) .. MaxTime]}]_vars

\* Linearizable.  The vault implements AtomicVault: every call takes effect on
\* the file as it is at one instant between its call and its return, or not at
\* all.  The instant is the commit for a call that writes and the step after
\* read_state for the others; a reply prepared before the commit is not one yet.
phaseOf == [p \in Proc |-> IF pc[p] = "idle" THEN "idle"
                           ELSE IF pc[p] = "check" THEN "applied"
                           ELSE "called"]
replyOf == [p \in Proc |-> IF pc[p] = "write" THEN NoReply ELSE reply[p]]
Atomic == INSTANCE AtomicVault WITH phase <- phaseOf, reply <- replyOf
Linearizable == Atomic!Spec

\* LockReleased.  No path through an operation, error paths included, keeps the
\* lock: whoever holds it lets go of it.
LockReleased == \A p \in Proc : lock = p ~> lock # p
=============================================================================
