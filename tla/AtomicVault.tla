----------------------------- MODULE AtomicVault -----------------------------
(***************************************************************************)
(* What blindfold-vault promises its callers: every operation reads the    *)
(* vault file and replaces it in one indivisible step somewhere between    *)
(* its call and its return, an operation that fails before that step       *)
(* changes nothing, and a crash loses nothing but the caller's reply.      *)
(* There is no lock, no decrypted copy and no partial write here.          *)
(***************************************************************************)
EXTENDS VaultData

VARIABLES
    file,     \* the vault file
    clock,    \* the machine's wall clock
    handle,   \* handle[p]: the key p's Vault was opened with, NoKey if none
    req,      \* req[p]: the call p is executing
    now,      \* now[p]: the clock reading p's call is working with
    reply,    \* reply[p]: what p's last call returned
    phase     \* phase[p]: "idle", "called" or "applied"

vars == <<file, clock, handle, req, now, reply, phase>>

Init ==
    /\ file = MissingFile
    /\ clock \in Clock
    /\ handle = [p \in Proc |-> NoKey]
    /\ req = [p \in Proc |-> NoReq]
    /\ now = [p \in Proc |-> Unread]
    /\ reply = [p \in Proc |-> NoReply]
    /\ phase = [p \in Proc |-> "idle"]

-----------------------------------------------------------------------------
Call(p, r, k) ==
    /\ phase[p] = "idle"
    /\ r \in Request /\ r # NoReq
    /\ IF r.op = "open" THEN handle[p] = NoKey /\ k \in Key
                        ELSE handle[p] # NoKey /\ k = handle[p]
    /\ r.op = "store" => clock \in Time /\ clock < r.rec.expires
    /\ phase' = [phase EXCEPT ![p] = "called"]
    /\ handle' = [handle EXCEPT ![p] = k]
    /\ req' = [req EXCEPT ![p] = r]
    /\ now' = [now EXCEPT ![p] = IF r.op = "store" THEN clock ELSE Unread]
    /\ reply' = [reply EXCEPT ![p] = NoReply]
    /\ UNCHANGED <<file, clock>>

\* A store whose arguments are refused before anything is read.
Refuse(p) ==
    /\ phase[p] = "idle" /\ handle[p] # NoKey
    /\ reply' = [reply EXCEPT ![p] = Err("InvalidInput")]
    /\ UNCHANGED <<file, clock, handle, req, now, phase>>

Return(p, r) ==
    /\ phase' = [phase EXCEPT ![p] = "idle"]
    /\ reply' = [reply EXCEPT ![p] = r]
    /\ req' = [req EXCEPT ![p] = NoReq]
    /\ now' = [now EXCEPT ![p] = Unread]
    /\ handle' = [handle EXCEPT ![p] =
                    IF req[p].op = "open" /\ r # Opened THEN NoKey ELSE @]

\* The call fails and the file is what it was.
Fail(p, e) ==
    /\ phase[p] = "called"
    /\ Return(p, Err(e))
    /\ UNCHANGED <<file, clock>>

\* The answers that need no change of the file, all from the file as it is now.
Answer(p) ==
    /\ phase[p] = "called"
    /\ Readable(file, handle[p])
    /\ LET r == req[p] IN
       \/ r.op = "open" /\ Return(p, Opened)
       \/ r.op = "resolve" /\ Return(p, ResolveReply(file.recs, r, clock))
       \/ r.op = "list" /\ Return(p, ListReply(file.recs, r.scope, clock))
       \/ /\ r.op = "clear" /\ OutsideScope(file.recs, r.scope) = file.recs
          /\ Return(p, [removed |-> {}])
       \/ /\ r.op = "purge" /\ clock \in Time
          /\ Unexpired(file.recs, clock) = file.recs
          /\ Return(p, [removed |-> {}])
    /\ UNCHANGED <<file, clock>>

\* A purge reads the clock before it replaces the file.
ReadClock(p) ==
    /\ phase[p] = "called" /\ req[p].op = "purge" /\ clock \in Time
    /\ now' = [now EXCEPT ![p] = clock]
    /\ UNCHANGED <<file, clock, handle, req, reply, phase>>

\* The file is replaced, on the ground of the file as it is now.
Replace(p) ==
    /\ phase[p] = "called"
    /\ Readable(file, handle[p])
    /\ req[p].op \in {"store", "purge"} => now[p] \in Time
    /\ \E new \in Replacement(file.recs, req[p], now[p]) :
          /\ new.recs # file.recs
          /\ file' = [key |-> handle[p], recs |-> new.recs]
          /\ reply' = [reply EXCEPT ![p] = new.reply]
    /\ phase' = [phase EXCEPT ![p] = "applied"]
    /\ UNCHANGED <<clock, handle, req, now>>

\* The return after the replacement: with the answer, or with an error although
\* the file was replaced.
Acknowledge(p) ==
    /\ phase[p] = "applied"
    /\ \/ Return(p, reply[p])
       \/ Return(p, Err("StorageUnavailable"))
    /\ UNCHANGED <<file, clock>>

-----------------------------------------------------------------------------
Crash(p) ==
    /\ handle' = [handle EXCEPT ![p] = NoKey]
    /\ req' = [req EXCEPT ![p] = NoReq]
    /\ now' = [now EXCEPT ![p] = Unread]
    /\ reply' = [reply EXCEPT ![p] = NoReply]
    /\ phase' = [phase EXCEPT ![p] = "idle"]
    /\ UNCHANGED <<file, clock>>

ClockMoves ==
    /\ clock' \in Clock
    /\ UNCHANGED <<file, handle, req, now, reply, phase>>

Corrupt ==
    /\ file.key \in Key
    /\ file' = [key |-> BadKey, recs |-> EmptyState]
    /\ UNCHANGED <<clock, handle, req, now, reply, phase>>

Next ==
    \/ \E p \in Proc :
         \/ \E r \in Request, k \in Key : Call(p, r, k)
         \/ \E e \in Errors : Fail(p, e)
         \/ Refuse(p) \/ Answer(p) \/ ReadClock(p) \/ Replace(p)
         \/ Acknowledge(p) \/ Crash(p)
    \/ ClockMoves
    \/ Corrupt

Spec == Init /\ [][Next]_vars

=============================================================================
