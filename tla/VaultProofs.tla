----------------------------- MODULE VaultProofs -----------------------------
(***************************************************************************)
(* Theorems about Vault for every set of processes, keys, identifiers,     *)
(* scopes, kinds, values and lifetimes, and every clock range.             *)
(***************************************************************************)
EXTENDS Vault, TLAPS

USE TimeAssumption, AbsentAssumption, StepAssumption

-----------------------------------------------------------------------------
(* The values the operations compute *)

\* Pruning expired records and clearing a scope yield states.
LEMMA UnexpiredState ==
    ASSUME NEW recs \in State, NEW t \in Clock
    PROVE  Unexpired(recs, t) \in State
BY DEF State, Unexpired

LEMMA OutsideState ==
    ASSUME NEW recs \in State, NEW s \in Scope
    PROVE  OutsideScope(recs, s) \in State
BY DEF State, OutsideScope

\* resolve() and list() answer with a Reply.
LEMMA ListType ==
    ASSUME NEW recs \in State, NEW t \in Clock, NEW s \in Scope
    PROVE  ListReply(recs, s, t) \in Reply
<1>1. CASE t \in Time
  BY <1>1, {i \in Id : /\ recs[i] # NoRec
                       /\ recs[i].expires > t
                       /\ recs[i].scope = s} \in SUBSET Id
  DEF ListReply, Reply
<1>2. CASE t \notin Time
  BY <1>2 DEF ListReply, Reply, Err, Errors
<1>. QED BY <1>1, <1>2

LEMMA ResolveType ==
    ASSUME NEW recs \in State, NEW t \in Clock,
           NEW r \in [op : {"resolve"}, id : Id, kind : Kind, scope : Scope]
    PROVE  ResolveReply(recs, r, t) \in Reply
<1>1. recs[r.id] \in Record \cup {NoRec}
  BY DEF State
<1>2. CASE recs[r.id] = NoRec
  BY <1>2 DEF ResolveReply, Reply, Err, Errors
<1>3. CASE recs[r.id] # NoRec
  BY <1>1, <1>3 DEF ResolveReply, Reply, Err, Errors, Record
<1>. QED BY <1>2, <1>3

\* The count of removed records is a Reply.
LEMMA RemovedType ==
    ASSUME NEW before, NEW after
    PROVE  [removed |-> Removed(before, after)] \in Reply
<1>. Removed(before, after) \in SUBSET Id
  BY DEF Removed
<1>. QED BY DEF Reply

\* A call's return keeps the types, for any reply of the right type.
LEMMA ReturnType ==
    ASSUME TypeOK, NEW p \in Proc, NEW r \in Reply, Return(p, r),
           UNCHANGED <<file, clock>>
    PROVE  TypeOK'
<1>1. EmptyState \in State /\ NoReq \in Request /\ Unread \in Clock
  BY DEF EmptyState, State, NoReq, Request, Unread, Clock
<1>. QED
  BY <1>1 DEF TypeOK, Return, PC

\* A request's operation says which arguments it carries.
LEMMA RequestShape ==
    ASSUME NEW r \in Request
    PROVE  /\ r.op = "store" => r.rec \in Record
           /\ r.op = "resolve" =>
                 r \in [op : {"resolve"}, id : Id, kind : Kind, scope : Scope]
           /\ r.op \in {"list", "clear"} => r.scope \in Scope
BY DEF Request

\* Entering a call keeps the types.
LEMMA EnterType ==
    ASSUME TypeOK, NEW p \in Proc, NEW r \in Request, NEW t \in Clock,
           Enter(p, r, t), handle' \in [Proc -> Key \cup {NoKey}]
    PROVE  TypeOK'
BY DEF TypeOK, Enter, PC, NoReply, Reply

-----------------------------------------------------------------------------
(* Type correctness *)

LEMMA InvokeType ==
    ASSUME TypeOK, NEW p \in Proc, Invoke(p)
    PROVE  TypeOK'
<1>. Unread \in Clock /\ Time \subseteq Clock
  BY DEF Unread, Clock, Time
<1>1. ASSUME NEW k \in Key, Open(p, k) PROVE TypeOK'
  <2>. handle' \in [Proc -> Key \cup {NoKey}] /\ [op |-> "open"] \in Request
    BY <1>1 DEF Open, TypeOK, Request
  <2>. QED BY <1>1, EnterType DEF Open
<1>2. ASSUME NEW kind \in Kind, NEW scope \in Scope, NEW value \in Value, NEW ttl \in TTL,
             Store(p, kind, scope, value, ttl)
      PROVE  TypeOK'
  <2>1. clock + ttl \in Time
    BY <1>2 DEF Store, ValidTtl, Time, TypeOK, Clock
  <2>2. [op |-> "store", rec |-> [kind |-> kind, scope |-> scope, value |-> value,
                                  expires |-> clock + ttl]] \in Request
    BY <2>1 DEF Request, Record
  <2>. QED BY <1>2, <2>2, EnterType DEF Store, TypeOK
<1>3. ASSUME NEW value, NEW ttl, StoreRefused(p, value, ttl) PROVE TypeOK'
  BY <1>3 DEF StoreRefused, TypeOK, Reply, Err, Errors
<1>4. ASSUME NEW id \in Id, NEW kind \in Kind, NEW scope \in Scope, Resolve(p, id, kind, scope)
      PROVE  TypeOK'
  <2>. [op |-> "resolve", id |-> id, kind |-> kind, scope |-> scope] \in Request
    BY DEF Request
  <2>. QED BY <1>4, EnterType DEF Resolve, TypeOK
<1>5. ASSUME NEW op \in {"list", "clear"}, NEW scope \in Scope, ListOrClear(p, op, scope)
      PROVE  TypeOK'
  <2>. [op |-> op, scope |-> scope] \in Request
    BY DEF Request
  <2>. QED BY <1>5, EnterType DEF ListOrClear, TypeOK
<1>6. CASE PurgeExpired(p)
  <2>. [op |-> "purge"] \in Request
    BY DEF Request
  <2>. QED BY <1>6, EnterType DEF PurgeExpired, TypeOK
<1>. QED BY <1>1, <1>2, <1>3, <1>4, <1>5, <1>6 DEF Invoke

LEMMA ProceedType ==
    ASSUME TypeOK, NEW p \in Proc, Proceed(p)
    PROVE  TypeOK'
<1>. /\ mem[p] \in State /\ req[p] \in Request /\ reply[p] \in Reply
     /\ now[p] \in Clock /\ clock \in Clock /\ handle[p] \in Key \cup {NoKey}
  BY DEF TypeOK
<1>. \A e \in Errors : Err(e) \in Reply
  BY DEF Err, Reply
<1>. [removed |-> {}] \in Reply /\ Opened \in Reply
  BY DEF Reply, Opened
<1>1. CASE ReadState(p)
  BY <1>1 DEF ReadState, TypeOK, PC, Inside, File
<1>2. CASE ReadStateRejects(p)
  BY <1>2, ReturnType DEF ReadStateRejects, Errors
<1>3. CASE OpenApply(p)
  BY <1>3, ReturnType DEF OpenApply
<1>4. CASE StoreApply(p)
  <2>. DEFINE kept == Unexpired(mem[p], now[p])
  <2>1. PICK i \in Id : GoWrite(p, [kept EXCEPT ![i] = req[p].rec], [id |-> i])
    BY <1>4 DEF StoreApply
  <2>2. kept \in State /\ req[p].rec \in Record
    BY <1>4, UnexpiredState, RequestShape DEF StoreApply, Applying
  <2>. HIDE DEF kept
  <2>3. [kept EXCEPT ![i] = req[p].rec] \in State /\ [id |-> i] \in Reply
    BY <2>2 DEF State, Reply
  <2>. QED BY <1>4, <2>1, <2>3 DEF GoWrite, StoreApply, TypeOK, PC, Inside
<1>5. CASE StoreNoRandomness(p)
  BY <1>5, ReturnType DEF StoreNoRandomness, Errors
<1>6. CASE ResolveApply(p)
  BY <1>6, ReturnType, ResolveType, RequestShape DEF ResolveApply, Applying
<1>7. CASE ListApply(p)
  <2>. req[p].scope \in Scope
    BY <1>7, RequestShape DEF ListApply, Applying
  <2>. ListReply(mem[p], req[p].scope, clock) \in Reply
    BY ListType
  <2>. QED BY <1>7, ReturnType DEF ListApply
<1>8. CASE ClearApply(p)
  <2>. DEFINE kept == OutsideScope(mem[p], req[p].scope)
              gone == Removed(mem[p], kept)
  <2>1. kept \in State /\ [removed |-> gone] \in Reply
    BY <1>8, OutsideState, RequestShape, RemovedType DEF ClearApply, Applying
  <2>2. \/ Return(p, [removed |-> {}]) /\ UNCHANGED <<file, clock>>
        \/ GoWrite(p, kept, [removed |-> gone]) /\ UNCHANGED now
    BY <1>8 DEF ClearApply
  <2>. HIDE DEF kept, gone
  <2>. QED BY <2>1, <2>2, ReturnType DEF GoWrite, TypeOK, PC, Inside
<1>9. CASE PurgeApply(p)
  <2>. DEFINE kept == Unexpired(mem[p], clock)
              gone == Removed(mem[p], kept)
  <2>1. kept \in State /\ [removed |-> gone] \in Reply
    BY UnexpiredState, RemovedType
  <2>2. \/ Return(p, [removed |-> {}]) /\ UNCHANGED <<file, clock>>
        \/ GoWrite(p, kept, [removed |-> gone]) /\ now' = [now EXCEPT ![p] = clock]
    BY <1>9 DEF PurgeApply
  <2>. HIDE DEF kept, gone
  <2>. QED BY <2>1, <2>2, ReturnType DEF GoWrite, TypeOK, PC, Inside
<1>10. CASE PurgeBeforeEpoch(p)
  BY <1>10, ReturnType DEF PurgeBeforeEpoch, Errors
<1>11. CASE Commit(p)
  BY <1>11 DEF Commit, TypeOK, PC, Inside, File
<1>12. CASE Finish(p)
  BY <1>12, ReturnType DEF Finish
<1>. QED BY <1>1, <1>2, <1>3, <1>4, <1>5, <1>6, <1>7, <1>8, <1>9, <1>10, <1>11, <1>12
     DEF Proceed

LEMMA NextType == TypeOK /\ [Next]_vars => TypeOK'
<1>. SUFFICES ASSUME TypeOK, [Next]_vars PROVE TypeOK'
  OBVIOUS
<1>. \A e \in Errors : Err(e) \in Reply
  BY DEF Err, Reply
<1>1. ASSUME NEW p \in Proc, Invoke(p) PROVE TypeOK'
  BY <1>1, InvokeType
<1>2. ASSUME NEW p \in Proc, OpenLock(p) PROVE TypeOK'
  BY <1>2 DEF OpenLock, TypeOK, PC, Inside
<1>3. ASSUME NEW p \in Proc, Proceed(p) PROVE TypeOK'
  BY <1>3, ProceedType
<1>4. ASSUME NEW p \in Proc, IoFails(p) PROVE TypeOK'
  BY <1>4, ReturnType DEF IoFails, Errors
<1>5. ASSUME NEW p \in Proc, SealFails(p) PROVE TypeOK'
  BY <1>5, ReturnType DEF SealFails, Errors
<1>6. ASSUME NEW p \in Proc, Crash(p) PROVE TypeOK'
  <2>. EmptyState \in State /\ NoReq \in Request /\ Unread \in Clock /\ NoReply \in Reply
    BY DEF EmptyState, State, NoReq, Request, Unread, Clock, NoReply, Reply
  <2>. QED BY <1>6 DEF Crash, TypeOK, PC
<1>7. CASE Tick
  BY <1>7 DEF Tick, TypeOK, procVars, Clock
<1>8. CASE SetBack
  BY <1>8 DEF SetBack, TypeOK, procVars, Clock
<1>9. CASE Corrupt
  BY <1>9 DEF Corrupt, TypeOK, procVars, File, EmptyState, State
<1>10. CASE UNCHANGED vars
  BY <1>10 DEF vars, procVars, TypeOK
<1>. QED BY <1>1, <1>2, <1>3, <1>4, <1>5, <1>6, <1>7, <1>8, <1>9, <1>10 DEF Next

\* TypeCorrect.  Every variable of every process keeps its type, for any number
\* of processes: in particular no expiry overflows the u64 second count.
THEOREM TypeCorrect == Spec => []TypeOK
<1>1. Init => TypeOK
  BY DEF Init, TypeOK, MissingFile, File, EmptyState, State, Clock, Time, PC,
         NoReq, Request, Unread, NoReply, Reply
<1>. QED BY <1>1, NextType, PTL DEF Spec

-----------------------------------------------------------------------------
(* The file is the copy *)

\* What a process has read survives a step of another one that leaves the file
\* alone and takes the lock from nobody.
LEMMA OtherKeeps ==
    ASSUME TypeOK, NEW p \in Proc, NEW q \in Proc, p # q, Snapshot(q),
           UNCHANGED file,
           lock' = lock \/ (lock = p /\ lock' = NoProc) \/ (lock = NoProc /\ lock' = p),
           pc'[q] = pc[q], handle'[q] = handle[q], req'[q] = req[q],
           now'[q] = now[q], mem'[q] = mem[q], reply'[q] = reply[q]
    PROVE  Snapshot(q)'
<1>1. (pc[q] \in Inside <=> lock = q)'
  BY DEF Snapshot, TypeOK
<1>. QED BY <1>1 DEF Snapshot, Readable

\* A call that returns, or a process that dies, without touching the file.
LEMMA LeaveKeeps ==
    ASSUME TypeOK, SnapshotInv, NEW p \in Proc, UNCHANGED file,
           pc' = [pc EXCEPT ![p] = "idle"],
           lock' = IF lock = p THEN NoProc ELSE lock,
           \E h \in Key \cup {NoKey} : handle' = [handle EXCEPT ![p] = h],
           \E r \in Request : req' = [req EXCEPT ![p] = r],
           \E t \in Clock : now' = [now EXCEPT ![p] = t],
           \E m \in State : mem' = [mem EXCEPT ![p] = m],
           \E r : reply' = [reply EXCEPT ![p] = r]
    PROVE  SnapshotInv'
<1>1. Snapshot(p)'
  BY DEF Snapshot, TypeOK, Inside
<1>2. ASSUME NEW q \in Proc, p # q PROVE Snapshot(q)'
  BY <1>2, OtherKeeps DEF TypeOK, SnapshotInv
<1>. QED BY <1>1, <1>2 DEF SnapshotInv

LEMMA ReturnKeeps ==
    ASSUME TypeOK, SnapshotInv, NEW p \in Proc, NEW r, Return(p, r), UNCHANGED file
    PROVE  SnapshotInv'
<1>1. /\ EmptyState \in State /\ NoReq \in Request /\ Unread \in Clock
      /\ handle[p] \in Key \cup {NoKey} /\ NoKey \in Key \cup {NoKey}
  BY DEF EmptyState, State, NoReq, Request, Unread, Clock, TypeOK
<1>2. \E h \in Key \cup {NoKey} : handle' = [handle EXCEPT ![p] = h]
  BY <1>1 DEF Return
<1>. QED BY <1>1, <1>2, LeaveKeeps DEF Return

\* The invariant after a step inside the lock follows for p from the step and
\* for the others from OtherKeeps.
LEMMA WriteKeeps ==
    ASSUME TypeOK, SnapshotInv, NEW p \in Proc, pc[p] = "apply",
           NEW recs \in State, NEW r \in Reply, NEW t \in Clock,
           GoWrite(p, recs, r), now' = [now EXCEPT ![p] = t],
           \E new \in Replacement(file.recs, req[p], t) :
              recs = new.recs /\ r = new.reply
    PROVE  SnapshotInv'
<1>1. Snapshot(p)
  BY DEF SnapshotInv
<1>2. Snapshot(p)'
  <2>1. /\ pc'[p] = "write" /\ mem'[p] = recs /\ reply'[p] = r /\ now'[p] = t
        /\ UNCHANGED <<file, lock, req, handle>>
    BY DEF GoWrite, TypeOK
  <2>. QED BY <1>1, <2>1 DEF Snapshot, Inside, Readable
<1>3. ASSUME NEW q \in Proc, p # q PROVE Snapshot(q)'
  BY <1>3, OtherKeeps DEF TypeOK, SnapshotInv, GoWrite
<1>. QED BY <1>2, <1>3 DEF SnapshotInv

LEMMA ProceedKeeps ==
    ASSUME TypeOK, SnapshotInv, NEW p \in Proc, Proceed(p)
    PROVE  SnapshotInv'
<1>. Snapshot(p)
  BY DEF SnapshotInv
<1>. /\ mem[p] \in State /\ req[p] \in Request /\ reply[p] \in Reply
     /\ now[p] \in Clock /\ clock \in Clock /\ handle[p] \in Key \cup {NoKey}
  BY DEF TypeOK
<1>1. CASE ReadState(p)
  <2>1. Snapshot(p)'
    BY <1>1 DEF ReadState, Snapshot, TypeOK, Inside, Readable
  <2>2. ASSUME NEW q \in Proc, p # q PROVE Snapshot(q)'
    BY <1>1, <2>2, OtherKeeps DEF TypeOK, SnapshotInv, ReadState
  <2>. QED BY <2>1, <2>2 DEF SnapshotInv
<1>2. CASE \/ ReadStateRejects(p) \/ OpenApply(p) \/ StoreNoRandomness(p) \/ ResolveApply(p)
           \/ ListApply(p) \/ PurgeBeforeEpoch(p) \/ Finish(p)
  BY <1>2, ReturnKeeps DEF ReadStateRejects, OpenApply, StoreNoRandomness, ResolveApply,
     ListApply, PurgeBeforeEpoch, Finish
<1>3. CASE StoreApply(p)
  <2>. DEFINE kept == Unexpired(mem[p], now[p])
  <2>1. PICK i \in Id : /\ kept[i] = NoRec
                        /\ GoWrite(p, [kept EXCEPT ![i] = req[p].rec], [id |-> i])
    BY <1>3 DEF StoreApply
  <2>2. /\ kept \in State /\ req[p].rec \in Record
        /\ pc[p] = "apply" /\ req[p].op = "store" /\ mem[p] = file.recs
    BY <1>3, UnexpiredState, RequestShape DEF StoreApply, Applying, Snapshot
  <2>3. Insertion(kept, req[p].rec, i) \in Replacement(file.recs, req[p], now[p])
    BY <2>1, <2>2 DEF Replacement
  <2>. HIDE DEF kept
  <2>4. [kept EXCEPT ![i] = req[p].rec] \in State /\ [id |-> i] \in Reply
    BY <2>2 DEF State, Reply
  <2>5. now' = [now EXCEPT ![p] = now[p]]
    BY <1>3 DEF StoreApply, TypeOK
  <2>. QED BY <2>1, <2>2, <2>3, <2>4, <2>5, WriteKeeps DEF Insertion
<1>4. CASE ClearApply(p)
  <2>. DEFINE kept == OutsideScope(mem[p], req[p].scope)
              gone == Removed(mem[p], kept)
  <2>1. /\ kept \in State /\ [removed |-> gone] \in Reply
        /\ pc[p] = "apply" /\ req[p].op = "clear" /\ mem[p] = file.recs
    BY <1>4, OutsideState, RequestShape, RemovedType DEF ClearApply, Applying, Snapshot
  <2>2. \/ Return(p, [removed |-> {}]) /\ UNCHANGED <<file, clock>>
        \/ GoWrite(p, kept, [removed |-> gone]) /\ UNCHANGED now
    BY <1>4 DEF ClearApply
  <2>3. [recs |-> kept, reply |-> [removed |-> gone]] \in Replacement(file.recs, req[p], now[p])
    BY <2>1 DEF Replacement, Removal
  <2>. HIDE DEF kept, gone
  <2>4. UNCHANGED now => now' = [now EXCEPT ![p] = now[p]]
    BY DEF TypeOK
  <2>. QED BY <2>1, <2>2, <2>3, <2>4, ReturnKeeps, WriteKeeps
<1>5. CASE PurgeApply(p)
  <2>. DEFINE kept == Unexpired(mem[p], clock)
              gone == Removed(mem[p], kept)
  <2>1. /\ kept \in State /\ [removed |-> gone] \in Reply
        /\ pc[p] = "apply" /\ req[p].op = "purge" /\ mem[p] = file.recs
    BY <1>5, UnexpiredState, RemovedType DEF PurgeApply, Applying, Snapshot
  <2>2. \/ Return(p, [removed |-> {}]) /\ UNCHANGED <<file, clock>>
        \/ GoWrite(p, kept, [removed |-> gone]) /\ now' = [now EXCEPT ![p] = clock]
    BY <1>5 DEF PurgeApply
  <2>3. [recs |-> kept, reply |-> [removed |-> gone]] \in Replacement(file.recs, req[p], clock)
    BY <2>1 DEF Replacement, Removal
  <2>. HIDE DEF kept, gone
  <2>. QED BY <2>1, <2>2, <2>3, ReturnKeeps, WriteKeeps
<1>6. CASE Commit(p)
  <2>1. Snapshot(p)'
    BY <1>6 DEF Commit, Snapshot, TypeOK, Inside, Readable
  <2>2. ASSUME NEW q \in Proc, p # q PROVE Snapshot(q)'
    <3>1. pc[q] \notin Inside
      BY <1>6, <2>2 DEF Commit, SnapshotInv, Snapshot, Inside
    <3>. QED BY <1>6, <2>2, <3>1 DEF Commit, SnapshotInv, Snapshot, Inside, TypeOK
  <2>. QED BY <2>1, <2>2 DEF SnapshotInv
<1>. QED BY <1>1, <1>2, <1>3, <1>4, <1>5, <1>6 DEF Proceed

LEMMA NextKeeps == TypeOK /\ SnapshotInv /\ [Next]_vars => SnapshotInv'
<1>. SUFFICES ASSUME TypeOK, SnapshotInv, [Next]_vars PROVE SnapshotInv'
  OBVIOUS
<1>1. ASSUME NEW p \in Proc, Invoke(p) PROVE SnapshotInv'
  <2>1. /\ pc[p] = "idle" /\ pc'[p] \notin Inside /\ UNCHANGED <<file, lock>>
        /\ \A q \in Proc \ {p} :
              /\ pc'[q] = pc[q] /\ handle'[q] = handle[q] /\ req'[q] = req[q]
              /\ now'[q] = now[q] /\ mem'[q] = mem[q] /\ reply'[q] = reply[q]
    BY <1>1 DEF Invoke, Open, Store, StoreRefused, Resolve, ListOrClear, PurgeExpired,
                Enter, TypeOK, Inside
  <2>2. Snapshot(p)'
    BY <2>1 DEF SnapshotInv, Snapshot, Inside
  <2>3. ASSUME NEW q \in Proc, p # q PROVE Snapshot(q)'
    BY <2>1, <2>3, OtherKeeps DEF SnapshotInv
  <2>. QED BY <2>2, <2>3 DEF SnapshotInv
<1>2. ASSUME NEW p \in Proc, OpenLock(p) PROVE SnapshotInv'
  <2>1. Snapshot(p)'
    BY <1>2 DEF OpenLock, Snapshot, TypeOK, Inside
  <2>2. ASSUME NEW q \in Proc, p # q PROVE Snapshot(q)'
    BY <1>2, <2>2, OtherKeeps DEF OpenLock, TypeOK, SnapshotInv
  <2>. QED BY <2>1, <2>2 DEF SnapshotInv
<1>3. ASSUME NEW p \in Proc, Proceed(p) PROVE SnapshotInv'
  BY <1>3, ProceedKeeps
<1>4. ASSUME NEW p \in Proc, IoFails(p) \/ SealFails(p) PROVE SnapshotInv'
  BY <1>4, ReturnKeeps DEF IoFails, SealFails
<1>5. ASSUME NEW p \in Proc, Crash(p) PROVE SnapshotInv'
  <2>. EmptyState \in State /\ NoReq \in Request /\ Unread \in Clock /\ NoKey \in Key \cup {NoKey}
    BY DEF EmptyState, State, NoReq, Request, Unread, Clock
  <2>. QED BY <1>5, LeaveKeeps DEF Crash
<1>6. CASE Tick \/ SetBack \/ UNCHANGED vars
  BY <1>6 DEF Tick, SetBack, vars, procVars, SnapshotInv, Snapshot, Readable
<1>7. CASE Corrupt
  BY <1>7 DEF Corrupt, procVars, SnapshotInv, Snapshot, Inside
<1>. QED BY <1>1, <1>2, <1>3, <1>4, <1>5, <1>6, <1>7 DEF Next

\* SnapshotAlways.  For any number of processes, crashing and failing anywhere,
\* what a process decrypted is still what the file holds until it commits.
THEOREM SnapshotAlways == Spec => []SnapshotInv
<1>1. Init => SnapshotInv
  BY DEF Init, SnapshotInv, Snapshot, Inside
<1>. QED BY <1>1, NextKeeps, TypeCorrect, PTL DEF Spec

-----------------------------------------------------------------------------
(* What a call under way has established *)

\* CallOK(p) is the part of the inductive invariant about p's own call: its
\* arguments, the clock reading it works with, and what its write changes.
CallOK(p) ==
    /\ pc[p] = "idle" => req[p] = NoReq
    /\ pc[p] # "idle" => handle[p] \in Key /\ req[p] # NoReq
    /\ pc[p] \in {"lock", "read", "apply"} => reply[p] = NoReply
    /\ req[p].op = "store" => now[p] \in Time /\ now[p] < req[p].rec.expires
    /\ pc[p] = "write" => /\ mem[p] # file.recs
                          /\ req[p].op = "purge" => now[p] \in Time
    /\ pc[p] = "check" /\ req[p].op = "store" =>
          \E i \in Id : reply[p] = [id |-> i] /\ file.recs[i] = req[p].rec
    /\ ~ClockStepsBack => now[p] <= clock
CallInv == \A p \in Proc : CallOK(p)

\* A step of p that leaves the file alone keeps the other calls' facts; one that
\* commits does too, because the others are then outside the lock.
LEMMA OtherCallOK ==
    ASSUME TypeOK, SnapshotInv, NEW p \in Proc, NEW q \in Proc, p # q, CallOK(q),
           UNCHANGED file \/ lock = p, UNCHANGED clock,
           pc'[q] = pc[q], handle'[q] = handle[q], req'[q] = req[q],
           now'[q] = now[q], mem'[q] = mem[q], reply'[q] = reply[q]
    PROVE  CallOK(q)'
<1>1. CASE UNCHANGED file
  BY <1>1 DEF CallOK
<1>2. CASE lock = p
  <2>1. pc[q] \notin Inside
    BY <1>2 DEF SnapshotInv, Snapshot
  <2>. QED BY <2>1 DEF CallOK, Inside
<1>. QED BY <1>1, <1>2

\* Pruning and clearing that remove something change the state, and one that
\* removes nothing returns it as it was.
LEMMA RemovalChanges ==
    ASSUME NEW recs \in State, NEW kept \in State,
           \A i \in Id : kept[i] \in {recs[i], NoRec}
    PROVE  Removed(recs, kept) = {} <=> kept = recs
<1>1. ASSUME Removed(recs, kept) = {} PROVE kept = recs
  <2>1. ASSUME NEW i \in Id PROVE kept[i] = recs[i]
    BY <1>1, <2>1 DEF Removed
  <2>. QED BY <2>1 DEF State
<1>2. ASSUME kept = recs PROVE Removed(recs, kept) = {}
  BY <1>2 DEF Removed
<1>. QED BY <1>1, <1>2

LEMMA UnexpiredOnlyRemoves ==
    ASSUME NEW recs \in State, NEW t \in Clock
    PROVE  \A i \in Id : Unexpired(recs, t)[i] \in {recs[i], NoRec}
BY DEF Unexpired

LEMMA OutsideOnlyRemoves ==
    ASSUME NEW recs \in State, NEW s \in Scope
    PROVE  \A i \in Id : OutsideScope(recs, s)[i] \in {recs[i], NoRec}
BY DEF OutsideScope

LEMMA LeaveCallOK ==
    ASSUME TypeOK, SnapshotInv, CallInv, NEW p \in Proc, UNCHANGED <<file, clock>>,
           pc' = [pc EXCEPT ![p] = "idle"],
           \E h \in Key \cup {NoKey} : handle' = [handle EXCEPT ![p] = h],
           req' = [req EXCEPT ![p] = NoReq],
           now' = [now EXCEPT ![p] = Unread],
           \E m \in State : mem' = [mem EXCEPT ![p] = m],
           \E r : reply' = [reply EXCEPT ![p] = r]
    PROVE  CallInv'
<1>1. CallOK(p)'
  BY DEF CallOK, TypeOK, NoReq, Unread, Clock
<1>2. ASSUME NEW q \in Proc, p # q PROVE CallOK(q)'
  BY <1>2, OtherCallOK DEF TypeOK, CallInv
<1>. QED BY <1>1, <1>2 DEF CallInv

LEMMA ReturnCallOK ==
    ASSUME TypeOK, SnapshotInv, CallInv, NEW p \in Proc, NEW r, Return(p, r),
           UNCHANGED <<file, clock>>
    PROVE  CallInv'
<1>1. /\ EmptyState \in State
      /\ handle[p] \in Key \cup {NoKey} /\ NoKey \in Key \cup {NoKey}
  BY DEF EmptyState, State, TypeOK
<1>2. \E h \in Key \cup {NoKey} : handle' = [handle EXCEPT ![p] = h]
  BY <1>1 DEF Return
<1>. QED BY <1>1, <1>2, LeaveCallOK DEF Return

LEMMA EnterCallOK ==
    ASSUME TypeOK, SnapshotInv, CallInv, NEW p \in Proc, NEW r \in Request,
           NEW t \in {Unread, clock}, r # NoReq,
           r.op = "store" => t = clock /\ clock \in Time /\ clock < r.rec.expires,
           Enter(p, r, t), NEW k \in Key, handle' = [handle EXCEPT ![p] = k]
    PROVE  CallInv'
<1>1. CallOK(p)'
  BY DEF CallOK, Enter, TypeOK, Unread, Clock
<1>2. ASSUME NEW q \in Proc, p # q PROVE CallOK(q)'
  BY <1>2, OtherCallOK DEF TypeOK, CallInv, Enter
<1>. QED BY <1>1, <1>2 DEF CallInv

LEMMA InvokeCallOK ==
    ASSUME TypeOK, SnapshotInv, CallInv, NEW p \in Proc, Invoke(p)
    PROVE  CallInv'
<1>. handle[p] \in Key \cup {NoKey} /\ (handle' = handle => handle' = [handle EXCEPT ![p] = handle[p]])
  BY DEF TypeOK
<1>1. ASSUME NEW k \in Key, Open(p, k) PROVE CallInv'
  <2>. [op |-> "open"] \in Request /\ [op |-> "open"] # NoReq
    BY DEF Request, NoReq
  <2>. QED BY <1>1, EnterCallOK DEF Open
<1>2. ASSUME NEW kind \in Kind, NEW scope \in Scope, NEW value \in Value, NEW ttl \in TTL,
             Store(p, kind, scope, value, ttl)
      PROVE  CallInv'
  <2>. DEFINE r == [op |-> "store", rec |-> [kind |-> kind, scope |-> scope,
                                             value |-> value, expires |-> clock + ttl]]
  <2>1. clock + ttl \in Time /\ clock \in Time /\ clock < clock + ttl
    BY <1>2 DEF Store, ValidTtl, Time, TypeOK, Clock
  <2>2. r \in Request /\ r # NoReq /\ r.rec.expires = clock + ttl
    BY <2>1 DEF Request, Record, NoReq
  <2>3. Enter(p, r, clock) /\ handle[p] \in Key /\ UNCHANGED handle
    BY <1>2 DEF Store
  <2>. HIDE DEF r
  <2>. QED BY <2>1, <2>2, <2>3, EnterCallOK
<1>3. ASSUME NEW value, NEW ttl, StoreRefused(p, value, ttl) PROVE CallInv'
  <2>1. CallOK(p)'
    BY <1>3 DEF StoreRefused, CallInv, CallOK
  <2>2. ASSUME NEW q \in Proc, p # q PROVE CallOK(q)'
    BY <1>3, <2>2, OtherCallOK DEF TypeOK, CallInv, StoreRefused
  <2>. QED BY <2>1, <2>2 DEF CallInv
<1>4. ASSUME NEW id \in Id, NEW kind \in Kind, NEW scope \in Scope, Resolve(p, id, kind, scope)
      PROVE  CallInv'
  <2>. DEFINE r == [op |-> "resolve", id |-> id, kind |-> kind, scope |-> scope]
  <2>1. r \in Request /\ r # NoReq /\ r.op # "store"
    BY DEF Request, NoReq
  <2>2. Enter(p, r, Unread) /\ handle[p] \in Key /\ UNCHANGED handle
    BY <1>4 DEF Resolve
  <2>. HIDE DEF r
  <2>. QED BY <2>1, <2>2, EnterCallOK
<1>5. ASSUME NEW op \in {"list", "clear"}, NEW scope \in Scope, ListOrClear(p, op, scope)
      PROVE  CallInv'
  <2>. DEFINE r == [op |-> op, scope |-> scope]
  <2>1. r \in Request /\ r # NoReq /\ r.op # "store"
    BY DEF Request, NoReq
  <2>2. Enter(p, r, Unread) /\ handle[p] \in Key /\ UNCHANGED handle
    BY <1>5 DEF ListOrClear
  <2>. HIDE DEF r
  <2>. QED BY <2>1, <2>2, EnterCallOK
<1>6. CASE PurgeExpired(p)
  <2>. [op |-> "purge"] \in Request /\ [op |-> "purge"] # NoReq
    BY DEF Request, NoReq
  <2>. QED BY <1>6, EnterCallOK DEF PurgeExpired
<1>. QED BY <1>1, <1>2, <1>3, <1>4, <1>5, <1>6 DEF Invoke

LEMMA WriteCallOK ==
    ASSUME TypeOK, SnapshotInv, CallInv, NEW p \in Proc, pc[p] = "apply",
           NEW recs \in State, NEW r \in Reply, NEW t \in {now[p], clock},
           GoWrite(p, recs, r), now' = [now EXCEPT ![p] = t],
           recs # file.recs,
           req[p].op = "store" => t = now[p],
           req[p].op = "purge" => t \in Time
    PROVE  CallInv'
<1>1. CallOK(p)'
  <2>1. CallOK(p) /\ now[p] \in Clock /\ clock \in Clock
    BY DEF CallInv, TypeOK
  <2>2. /\ pc'[p] = "write" /\ mem'[p] = recs /\ now'[p] = t
        /\ UNCHANGED <<file, lock, clock, req, handle>>
    BY DEF GoWrite, TypeOK
  <2>. QED BY <2>1, <2>2 DEF CallOK, Clock
<1>2. ASSUME NEW q \in Proc, p # q PROVE CallOK(q)'
  BY <1>2, OtherCallOK DEF TypeOK, CallInv, GoWrite
<1>. QED BY <1>1, <1>2 DEF CallInv

LEMMA ProceedCallOK ==
    ASSUME TypeOK, SnapshotInv, CallInv, NEW p \in Proc, Proceed(p)
    PROVE  CallInv'
<1>. Snapshot(p) /\ CallOK(p)
  BY DEF SnapshotInv, CallInv
<1>. /\ mem[p] \in State /\ req[p] \in Request /\ reply[p] \in Reply
     /\ now[p] \in Clock /\ clock \in Clock /\ handle[p] \in Key \cup {NoKey}
  BY DEF TypeOK
<1>1. CASE ReadState(p)
  <2>1. CallOK(p)'
    BY <1>1 DEF ReadState, CallOK, TypeOK
  <2>2. ASSUME NEW q \in Proc, p # q PROVE CallOK(q)'
    BY <1>1, <2>2, OtherCallOK DEF TypeOK, CallInv, ReadState
  <2>. QED BY <2>1, <2>2 DEF CallInv
<1>2. CASE \/ ReadStateRejects(p) \/ OpenApply(p) \/ StoreNoRandomness(p) \/ ResolveApply(p)
           \/ ListApply(p) \/ PurgeBeforeEpoch(p) \/ Finish(p)
  BY <1>2, ReturnCallOK DEF ReadStateRejects, OpenApply, StoreNoRandomness, ResolveApply,
     ListApply, PurgeBeforeEpoch, Finish
<1>3. CASE StoreApply(p)
  <2>. DEFINE kept == Unexpired(mem[p], now[p])
  <2>1. PICK i \in Id : /\ kept[i] = NoRec
                        /\ GoWrite(p, [kept EXCEPT ![i] = req[p].rec], [id |-> i])
    BY <1>3 DEF StoreApply
  <2>2. /\ kept \in State /\ req[p].rec \in Record
        /\ pc[p] = "apply" /\ req[p].op = "store" /\ mem[p] = file.recs
    BY <1>3, UnexpiredState, RequestShape DEF StoreApply, Applying, Snapshot
  <2>3. file.recs[i] # req[p].rec
    <3>1. file.recs[i] = NoRec \/ ~(file.recs[i].expires > now[p])
      BY <2>1, <2>2 DEF Unexpired
    <3>2. req[p].rec # NoRec /\ req[p].rec.expires > now[p]
      BY <2>2 DEF CallOK, Record, Time, Clock
    <3>. QED BY <3>1, <3>2
  <2>. HIDE DEF kept
  <2>4. [kept EXCEPT ![i] = req[p].rec] \in State /\ [id |-> i] \in Reply
    BY <2>2 DEF State, Reply
  <2>5. [kept EXCEPT ![i] = req[p].rec] # file.recs
    BY <2>2, <2>3 DEF State
  <2>6. now' = [now EXCEPT ![p] = now[p]]
    BY <1>3 DEF StoreApply, TypeOK
  <2>. QED BY <2>1, <2>2, <2>4, <2>5, <2>6, WriteCallOK
<1>4. CASE ClearApply(p)
  <2>. DEFINE kept == OutsideScope(mem[p], req[p].scope)
              gone == Removed(mem[p], kept)
  <2>1. /\ kept \in State /\ [removed |-> gone] \in Reply /\ req[p].scope \in Scope
        /\ pc[p] = "apply" /\ req[p].op = "clear" /\ mem[p] = file.recs
    BY <1>4, OutsideState, RequestShape, RemovedType DEF ClearApply, Applying, Snapshot
  <2>2. \/ Return(p, [removed |-> {}]) /\ UNCHANGED <<file, clock>>
        \/ gone # {} /\ GoWrite(p, kept, [removed |-> gone]) /\ UNCHANGED now
    BY <1>4 DEF ClearApply
  <2>3. gone # {} => kept # file.recs
    BY <2>1, OutsideOnlyRemoves, RemovalChanges
  <2>. HIDE DEF kept, gone
  <2>4. UNCHANGED now => now' = [now EXCEPT ![p] = now[p]]
    BY DEF TypeOK
  <2>. QED BY <2>1, <2>2, <2>3, <2>4, ReturnCallOK, WriteCallOK
<1>5. CASE PurgeApply(p)
  <2>. DEFINE kept == Unexpired(mem[p], clock)
              gone == Removed(mem[p], kept)
  <2>1. /\ kept \in State /\ [removed |-> gone] \in Reply /\ clock \in Time
        /\ pc[p] = "apply" /\ req[p].op = "purge" /\ mem[p] = file.recs
    BY <1>5, UnexpiredState, RemovedType DEF PurgeApply, Applying, Snapshot
  <2>2. \/ Return(p, [removed |-> {}]) /\ UNCHANGED <<file, clock>>
        \/ gone # {} /\ GoWrite(p, kept, [removed |-> gone]) /\ now' = [now EXCEPT ![p] = clock]
    BY <1>5 DEF PurgeApply
  <2>3. gone # {} => kept # file.recs
    BY <2>1, UnexpiredOnlyRemoves, RemovalChanges
  <2>. HIDE DEF kept, gone
  <2>. QED BY <2>1, <2>2, <2>3, ReturnCallOK, WriteCallOK
<1>6. CASE Commit(p)
  <2>1. CallOK(p)'
    <3>1. ASSUME req[p].op = "store"
          PROVE  \E i \in Id : reply[p] = [id |-> i] /\ mem[p][i] = req[p].rec
      <4>1. PICK new \in Replacement(file.recs, req[p], now[p]) :
               mem[p] = new.recs /\ reply[p] = new.reply
        BY <1>6 DEF Commit, Snapshot
      <4>2. PICK i \in Id : new = Insertion(Unexpired(file.recs, now[p]), req[p].rec, i)
        BY <3>1, <4>1 DEF Replacement
      <4>3. Unexpired(file.recs, now[p]) \in State
        BY UnexpiredState DEF TypeOK, File
      <4>. QED BY <4>1, <4>2, <4>3 DEF Insertion, State
    <3>. QED BY <1>6, <3>1 DEF Commit, CallOK, TypeOK
  <2>2. ASSUME NEW q \in Proc, p # q PROVE CallOK(q)'
    BY <1>6, <2>2, OtherCallOK DEF TypeOK, CallInv, Commit, Snapshot, Inside
  <2>. QED BY <2>1, <2>2 DEF CallInv
<1>. QED BY <1>1, <1>2, <1>3, <1>4, <1>5, <1>6 DEF Proceed

LEMMA NextCallOK == TypeOK /\ SnapshotInv /\ CallInv /\ [Next]_vars => CallInv'
<1>. SUFFICES ASSUME TypeOK, SnapshotInv, CallInv, [Next]_vars PROVE CallInv'
  OBVIOUS
<1>1. ASSUME NEW p \in Proc, Invoke(p) PROVE CallInv'
  BY <1>1, InvokeCallOK
<1>2. ASSUME NEW p \in Proc, OpenLock(p) PROVE CallInv'
  <2>1. CallOK(p)'
    BY <1>2 DEF OpenLock, CallInv, CallOK, TypeOK
  <2>2. ASSUME NEW q \in Proc, p # q PROVE CallOK(q)'
    BY <1>2, <2>2, OtherCallOK DEF TypeOK, CallInv, OpenLock
  <2>. QED BY <2>1, <2>2 DEF CallInv
<1>3. ASSUME NEW p \in Proc, Proceed(p) PROVE CallInv'
  BY <1>3, ProceedCallOK
<1>4. ASSUME NEW p \in Proc, IoFails(p) \/ SealFails(p) PROVE CallInv'
  BY <1>4, ReturnCallOK DEF IoFails, SealFails
<1>5. ASSUME NEW p \in Proc, Crash(p) PROVE CallInv'
  <2>. EmptyState \in State /\ NoKey \in Key \cup {NoKey}
    BY DEF EmptyState, State
  <2>. QED BY <1>5, LeaveCallOK DEF Crash
<1>6. CASE Tick
  BY <1>6 DEF Tick, procVars, CallInv, CallOK, TypeOK, Clock
<1>7. CASE SetBack
  BY <1>7 DEF SetBack, procVars, CallInv, CallOK
<1>8. CASE Corrupt
  <2>1. ASSUME NEW q \in Proc PROVE CallOK(q)'
    <3>1. pc[q] \notin Inside
      BY <1>8 DEF Corrupt, SnapshotInv, Snapshot
    <3>2. UNCHANGED <<clock, pc[q], req[q], handle[q], now[q], mem[q], reply[q]>>
      BY <1>8 DEF Corrupt, procVars
    <3>. QED BY <3>1, <3>2 DEF CallInv, CallOK, Inside
  <2>. QED BY <2>1 DEF CallInv
<1>9. CASE UNCHANGED vars
  BY <1>9 DEF vars, procVars, CallInv, CallOK
<1>. QED BY <1>1, <1>2, <1>3, <1>4, <1>5, <1>6, <1>7, <1>8, <1>9 DEF Next

LEMMA CallAlways == Spec => []CallInv
<1>1. Init => CallInv
  <2>. SUFFICES ASSUME Init, NEW p \in Proc PROVE CallOK(p)
    BY DEF CallInv
  <2>1. pc[p] = "idle" /\ req[p] = NoReq /\ req[p].op = "none" /\ now[p] = -1
    BY DEF Init, NoReq, Unread
  <2>2. ~ClockStepsBack => -1 <= clock
    BY DEF Init, Time
  <2>. QED BY <2>1, <2>2 DEF CallOK
<1>. QED BY <1>1, NextCallOK, TypeCorrect, SnapshotAlways, PTL DEF Spec

-----------------------------------------------------------------------------
(* What a step may do to the file and to a caller *)

\* Only a commit and damage at rest change the file.
LEMMA FileChanges ==
    ASSUME [Next]_vars
    PROVE  UNCHANGED file \/ Corrupt \/ \E p \in Proc : Commit(p)
<1>1. ASSUME NEW p \in Proc, Invoke(p) PROVE UNCHANGED file
  BY <1>1 DEF Invoke, Open, Store, StoreRefused, Resolve, ListOrClear, PurgeExpired, Enter
<1>2. ASSUME NEW p \in Proc, Proceed(p), ~Commit(p) PROVE UNCHANGED file
  BY <1>2 DEF Proceed, ReadState, ReadStateRejects, OpenApply, StoreApply, StoreNoRandomness,
     ResolveApply, ListApply, ClearApply, PurgeApply, PurgeBeforeEpoch, Finish, GoWrite
<1>3. ASSUME NEW p \in Proc, OpenLock(p) \/ IoFails(p) \/ SealFails(p) \/ Crash(p)
      PROVE  UNCHANGED file
  BY <1>3 DEF OpenLock, IoFails, SealFails, Crash
<1>4. CASE Tick \/ SetBack \/ UNCHANGED vars
  BY <1>4 DEF Tick, SetBack, vars
<1>. QED BY <1>1, <1>2, <1>3, <1>4 DEF Next

\* KeySafe.  Wrong keys and damaged files fail closed, for every set of keys
\* and every interleaving of opens and first writes.
THEOREM KeySafe == Spec => KeyNeverReplaced
<1>1. TypeOK /\ SnapshotInv /\ [Next]_vars =>
         [file.key # NoKey => file'.key \in {file.key, BadKey}]_vars
  <2>. SUFFICES ASSUME TypeOK, SnapshotInv, [Next]_vars, file.key # NoKey
                PROVE  file'.key \in {file.key, BadKey}
    OBVIOUS
  <2>1. ASSUME NEW p \in Proc, Commit(p) PROVE file'.key \in {file.key, BadKey}
    BY <2>1 DEF Commit, SnapshotInv, Snapshot, Readable
  <2>2. CASE Corrupt
    BY <2>2 DEF Corrupt
  <2>. QED BY <2>1, <2>2, FileChanges
<1>. QED BY <1>1, TypeCorrect, SnapshotAlways, PTL DEF Spec, KeyNeverReplaced

\* An entry that a commit changes is one the committing call may change.
LEMMA CommitJustified ==
    ASSUME TypeOK, SnapshotInv, CallInv, NEW p \in Proc, Commit(p),
           NEW i \in Id, file'.recs[i] # file.recs[i]
    PROVE  lock = p /\ Justified(p, i)
<1>1. /\ lock = p /\ file'.recs = mem[p]
      /\ file.recs \in State /\ req[p] \in Request /\ now[p] \in Clock
  BY DEF Commit, SnapshotInv, Snapshot, Inside, TypeOK, File
<1>2. PICK new \in Replacement(file.recs, req[p], now[p]) :
         mem[p] = new.recs /\ reply[p] = new.reply
  BY DEF Commit, SnapshotInv, Snapshot
<1>3. CASE req[p].op = "store"
  <2>. DEFINE kept == Unexpired(file.recs, now[p])
  <2>1. PICK j \in Id : kept[j] = NoRec /\ new = Insertion(kept, req[p].rec, j)
    BY <1>2, <1>3 DEF Replacement
  <2>2. kept \in State
    BY <1>1, UnexpiredState
  <2>3. /\ file'.recs = [kept EXCEPT ![j] = req[p].rec]
        /\ reply[p] = [id |-> j]
    BY <1>1, <1>2, <2>1 DEF Insertion
  <2>4. \A n \in Id : kept[n] = NoRec \/ kept[n] = file.recs[n]
    BY <1>1, UnexpiredOnlyRemoves
  <2>5. ASSUME NEW n \in Id, kept[n] = NoRec, file.recs[n] # NoRec
        PROVE  file.recs[n].expires <= now[p]
    <3>1. file.recs[n] \in Record
      BY <1>1, <2>5 DEF State
    <3>2. ~(file.recs[n].expires > now[p])
      BY <2>5 DEF Unexpired
    <3>. QED BY <1>1, <3>1, <3>2 DEF Record, Time, Clock
  <2>. HIDE DEF kept
  <2>6. CASE i = j
    BY <1>1, <1>3, <2>1, <2>2, <2>3, <2>5, <2>6 DEF Justified, State
  <2>7. CASE i # j
    <3>1. file'.recs[i] = kept[i]
      BY <2>2, <2>3, <2>7 DEF State
    <3>2. kept[i] = NoRec /\ file.recs[i] # NoRec
      BY <3>1, <2>4
    <3>. QED BY <1>1, <1>3, <2>5, <3>1, <3>2 DEF Justified
  <2>. QED BY <2>6, <2>7
<1>4. CASE req[p].op = "clear"
  <2>1. mem[p] = OutsideScope(file.recs, req[p].scope)
    BY <1>2, <1>4 DEF Replacement, Removal
  <2>. QED BY <1>1, <1>4, <2>1 DEF OutsideScope, Justified
<1>5. CASE req[p].op = "purge"
  <2>1. mem[p] = Unexpired(file.recs, now[p])
    BY <1>2, <1>5 DEF Replacement, Removal
  <2>2. mem[p][i] = NoRec /\ file.recs[i] # NoRec /\ ~(file.recs[i].expires > now[p])
    BY <1>1, <2>1 DEF Unexpired
  <2>3. file.recs[i] \in Record
    BY <1>1, <2>2 DEF State
  <2>4. file.recs[i].expires <= now[p]
    BY <1>1, <2>2, <2>3 DEF Record, Time, Clock
  <2>. QED BY <1>1, <1>5, <2>2, <2>4 DEF Justified
<1>. QED BY <1>2, <1>3, <1>4, <1>5 DEF Replacement

\* NoLostUpdate.  However many processes share the vault and wherever they fail
\* or die, no record is lost, altered or brought back except by the operation
\* that is meant to.
THEOREM NoLostUpdate == Spec => OnlyJustifiedChanges
<1>. DEFINE A == \A i \in Id : file'.recs[i] # file.recs[i] /\ file'.key # BadKey =>
                                  \E p \in Proc : lock = p /\ Justified(p, i)
<1>1. TypeOK /\ SnapshotInv /\ CallInv /\ [Next]_vars => [A]_vars
  <2>. SUFFICES ASSUME TypeOK, SnapshotInv, CallInv, [Next]_vars,
                       NEW i \in Id, file'.recs[i] # file.recs[i], file'.key # BadKey
                PROVE  \E p \in Proc : lock = p /\ Justified(p, i)
    OBVIOUS
  <2>1. PICK p \in Proc : Commit(p)
    BY FileChanges DEF Corrupt
  <2>. QED BY <2>1, CommitJustified
<1>. HIDE DEF A
<1>2. Spec => [][A]_vars
  BY <1>1, TypeCorrect, SnapshotAlways, CallAlways, PTL DEF Spec
<1>. QED BY <1>2 DEF A, OnlyJustifiedChanges

\* ExpirySafe.  On a clock that is never set back, pruning with a reading made
\* before the lock was obtained still removes only what has expired.
THEOREM ExpirySafe == ASSUME ~ClockStepsBack PROVE Spec => NoEarlyExpiry
<1>. DEFINE A == \A i \in Id :
                    (/\ file.recs[i] # NoRec /\ file'.recs[i] # file.recs[i]
                     /\ file'.key # BadKey
                     /\ \E p \in Proc : lock = p /\ req[p].op # "clear")
                       => file.recs[i].expires <= clock
<1>1. TypeOK /\ SnapshotInv /\ CallInv /\ [Next]_vars => [A]_vars
  <2>. SUFFICES ASSUME TypeOK, SnapshotInv, CallInv, [Next]_vars,
                       NEW i \in Id, file.recs[i] # NoRec, file'.recs[i] # file.recs[i],
                       file'.key # BadKey,
                       NEW p \in Proc, lock = p, req[p].op # "clear"
                PROVE  file.recs[i].expires <= clock
    OBVIOUS
  <2>1. PICK q \in Proc : Commit(q)
    BY FileChanges DEF Corrupt
  <2>2. q = p /\ Justified(p, i)
    BY <2>1, CommitJustified
  <2>3. file.recs[i].expires <= now[p]
    BY <2>2 DEF Justified
  <2>4. now[p] <= clock /\ now[p] \in Clock /\ clock \in Clock
    BY DEF CallInv, CallOK, TypeOK
  <2>5. file.recs[i] \in Record
    BY DEF TypeOK, File, State
  <2>. QED BY <2>3, <2>4, <2>5 DEF Record, Time, Clock
<1>. HIDE DEF A
<1>2. Spec => [][A]_vars
  BY <1>1, TypeCorrect, SnapshotAlways, CallAlways, PTL DEF Spec
<1>. QED BY <1>2 DEF A, NoEarlyExpiry

\* A step of one process leaves the program counter of another where it is.
LEMMA OwnSteps ==
    ASSUME TypeOK, [Next]_vars, NEW p \in Proc, pc'[p] # pc[p]
    PROVE  Invoke(p) \/ OpenLock(p) \/ Proceed(p) \/ IoFails(p) \/ SealFails(p) \/ Crash(p)
<1>1. ASSUME NEW q \in Proc, p # q, Invoke(q) PROVE pc'[p] = pc[p]
  BY <1>1 DEF Invoke, Open, Store, StoreRefused, Resolve, ListOrClear, PurgeExpired, Enter, TypeOK
<1>2. ASSUME NEW q \in Proc, p # q, Proceed(q) PROVE pc'[p] = pc[p]
  BY <1>2 DEF Proceed, ReadState, ReadStateRejects, OpenApply, StoreApply, StoreNoRandomness,
     ResolveApply, ListApply, ClearApply, PurgeApply, PurgeBeforeEpoch, Commit, Finish,
     GoWrite, Return, TypeOK
<1>3. ASSUME NEW q \in Proc, p # q, OpenLock(q) \/ IoFails(q) \/ SealFails(q) \/ Crash(q)
      PROVE  pc'[p] = pc[p]
  BY <1>3 DEF OpenLock, IoFails, SealFails, Crash, Return, TypeOK
<1>4. ASSUME Tick \/ SetBack \/ Corrupt \/ UNCHANGED vars PROVE pc'[p] = pc[p]
  BY <1>4 DEF Tick, SetBack, Corrupt, vars, procVars
<1>. QED BY <1>1, <1>2, <1>3, <1>4 DEF Next

\* AckSafe.  A returned reference always names a record that is in the file, for
\* any number of processes: an acknowledged store is durable when it returns.
THEOREM AckSafe == Spec => AckMeansDurable
<1>. DEFINE A == \A p \in Proc :
                    (req[p].op = "store" /\ pc'[p] = "idle" /\ "id" \in DOMAIN reply'[p]) =>
                       /\ file.key = handle[p]
                       /\ file.recs[reply'[p].id] = req[p].rec
<1>1. TypeOK /\ SnapshotInv /\ CallInv /\ [Next]_vars => [A]_vars
  <2>. SUFFICES ASSUME TypeOK, SnapshotInv, CallInv, [Next]_vars, NEW p \in Proc,
                       req[p].op = "store", pc'[p] = "idle", "id" \in DOMAIN reply'[p]
                PROVE  /\ file.key = handle[p]
                       /\ file.recs[reply'[p].id] = req[p].rec
    OBVIOUS
  <2>1. pc[p] # "idle"
    BY DEF CallInv, CallOK, NoReq
  <2>2. (\A e : "id" \notin DOMAIN Err(e)) /\ "id" \notin DOMAIN NoReply
    BY DEF Err, NoReply
  <2>3. \A r : Return(p, r) => reply'[p] = r
    BY DEF Return, TypeOK
  <2>4. ~Crash(p)
    BY <2>2 DEF Crash, TypeOK
  <2>5. ~Invoke(p) /\ ~OpenLock(p)
    BY <2>1 DEF Invoke, Open, Store, StoreRefused, Resolve, ListOrClear, PurgeExpired, Enter,
                OpenLock, TypeOK
  <2>6. ~IoFails(p) /\ ~SealFails(p)
    BY <2>2, <2>3 DEF IoFails, SealFails
  <2>7. ~ReadStateRejects(p) /\ ~StoreNoRandomness(p)
    BY <2>2, <2>3 DEF ReadStateRejects, StoreNoRandomness
  <2>8. Finish(p)
    BY <2>1, <2>4, <2>5, <2>6, <2>7, OwnSteps DEF Proceed, ReadState, OpenApply, StoreApply,
       ResolveApply, ListApply, ClearApply, PurgeApply, PurgeBeforeEpoch, Commit, Applying,
       GoWrite, TypeOK
  <2>9. PICK i \in Id : reply[p] = [id |-> i] /\ file.recs[i] = req[p].rec
    BY <2>8 DEF Finish, CallInv, CallOK
  <2>10. file.key = handle[p] /\ reply'[p] = reply[p]
    BY <2>3, <2>8 DEF Finish, SnapshotInv, Snapshot
  <2>. QED BY <2>9, <2>10
<1>. HIDE DEF A
<1>2. Spec => [][A]_vars
  BY <1>1, TypeCorrect, SnapshotAlways, CallAlways, PTL DEF Spec
<1>. QED BY <1>2 DEF A, AckMeansDurable

\* AuthorizedSafe.  For any records, callers and clock, a value goes only to a caller
\* that names its identifier, kind and scope before it expires, judged on the file as
\* it is when the call returns, and list() shows exactly the live identifiers.
THEOREM AuthorizedSafe == Spec => OnlyAuthorizedReplies
<1>. DEFINE A == \A p \in Proc : pc[p] = "apply" /\ pc'[p] = "idle" =>
                    /\ "value" \in DOMAIN reply'[p] =>
                          file.recs[req[p].id] \in
                             [kind : {req[p].kind}, scope : {req[p].scope},
                              value : {reply'[p].value}, expires : (clock + 1) .. MaxTime]
                    /\ "ids" \in DOMAIN reply'[p] =>
                          reply'[p].ids = {i \in Id : file.recs[i] \in
                             [kind : Kind, scope : {req[p].scope},
                              value : Value, expires : (clock + 1) .. MaxTime]}
<1>1. TypeOK /\ SnapshotInv /\ [Next]_vars => [A]_vars
  <2>. SUFFICES ASSUME TypeOK, SnapshotInv, [Next]_vars, NEW p \in Proc,
                       pc[p] = "apply", pc'[p] = "idle",
                       "value" \in DOMAIN reply'[p] \/ "ids" \in DOMAIN reply'[p]
                PROVE  /\ "value" \in DOMAIN reply'[p] =>
                             file.recs[req[p].id] \in
                                [kind : {req[p].kind}, scope : {req[p].scope},
                                 value : {reply'[p].value}, expires : (clock + 1) .. MaxTime]
                       /\ "ids" \in DOMAIN reply'[p] =>
                             reply'[p].ids = {i \in Id : file.recs[i] \in
                                [kind : Kind, scope : {req[p].scope},
                                 value : Value, expires : (clock + 1) .. MaxTime]}
    OBVIOUS
  <2>1. \A r : Return(p, r) => reply'[p] = r
    BY DEF Return, TypeOK
  <2>2. /\ \A e : DOMAIN Err(e) \cap {"value", "ids"} = {}
        /\ DOMAIN NoReply \cap {"value", "ids"} = {} /\ DOMAIN Opened \cap {"value", "ids"} = {}
        /\ \A s : DOMAIN [removed |-> s] \cap {"value", "ids"} = {}
    BY DEF Err, NoReply, Opened
  <2>3. ~Crash(p) /\ ~Invoke(p) /\ ~OpenLock(p) /\ ~IoFails(p) /\ ~SealFails(p)
    BY <2>1, <2>2 DEF Crash, Invoke, Open, Store, StoreRefused, Resolve, ListOrClear, PurgeExpired, Enter,
                      OpenLock, IoFails, SealFails, TypeOK
  <2>4. ResolveApply(p) \/ ListApply(p)
    BY <2>1, <2>2, <2>3, OwnSteps DEF Proceed, ReadState, ReadStateRejects, OpenApply, StoreApply,
       StoreNoRandomness, ClearApply, PurgeApply, PurgeBeforeEpoch, Commit, Finish, GoWrite, TypeOK
  <2>5. mem[p] = file.recs
    BY DEF SnapshotInv, Snapshot
  <2>6. clock \in Clock /\ \A i \in Id : file.recs[i] = NoRec \/ file.recs[i] \in Record
    BY DEF TypeOK, File, State
  <2>7. CASE ResolveApply(p)
    <3>1. reply'[p] = ResolveReply(file.recs, req[p], clock) /\ req[p].op = "resolve"
      BY <2>1, <2>5, <2>7 DEF ResolveApply, Applying
    <3>2. req[p].id \in Id
      BY <3>1, RequestShape DEF TypeOK
    <3>. DEFINE rec == file.recs[req[p].id]
    <3>3. /\ rec # NoRec /\ clock \in Time /\ rec.expires > clock
          /\ rec.scope = req[p].scope /\ rec.kind = req[p].kind /\ reply'[p] = [value |-> rec.value]
      BY <2>2, <3>1 DEF ResolveReply
    <3>4. rec \in Record
      BY <2>6, <3>2, <3>3
    <3>. QED BY <3>3, <3>4 DEF Record, Time
  <2>8. CASE ListApply(p)
    <3>1. reply'[p] = ListReply(file.recs, req[p].scope, clock)
      BY <2>1, <2>5, <2>8 DEF ListApply, Applying
    <3>2. /\ clock \in Time
          /\ reply'[p] = [ids |-> {i \in Id : /\ file.recs[i] # NoRec /\ file.recs[i].expires > clock
                                              /\ file.recs[i].scope = req[p].scope}]
      BY <2>2, <3>1 DEF ListReply
    <3>3. req[p].op = "list" /\ req[p].scope \in Scope
      BY <2>8, RequestShape DEF ListApply, Applying, TypeOK
    <3>4. ASSUME NEW i \in Id
          PROVE  (/\ file.recs[i] # NoRec /\ file.recs[i].expires > clock
                  /\ file.recs[i].scope = req[p].scope)
                 <=> file.recs[i] \in [kind : Kind, scope : {req[p].scope}, value : Value,
                                       expires : (clock + 1) .. MaxTime]
      <4>1. ASSUME file.recs[i] # NoRec, file.recs[i].expires > clock,
                   file.recs[i].scope = req[p].scope
            PROVE  file.recs[i] \in [kind : Kind, scope : {req[p].scope}, value : Value,
                                     expires : (clock + 1) .. MaxTime]
        BY <2>6, <3>2, <4>1, TimeAssumption DEF Record, Time
      <4>2. ASSUME file.recs[i] \in [kind : Kind, scope : {req[p].scope}, value : Value,
                                     expires : (clock + 1) .. MaxTime]
            PROVE  /\ file.recs[i] # NoRec /\ file.recs[i].expires > clock
                   /\ file.recs[i].scope = req[p].scope
        <5>1. file.recs[i] \in [kind : Kind, scope : Scope, value : Value, expires : Int]
          BY <3>2, <3>3, <4>2, TimeAssumption DEF Time
        <5>. QED BY <3>2, <4>2, <5>1, AbsentAssumption, TimeAssumption DEF Time
      <4>. QED BY <4>1, <4>2
    <3>. QED BY <3>2, <3>4
  <2>. QED BY <2>4, <2>7, <2>8
<1>. HIDE DEF A
<1>2. Spec => [][A]_vars
  BY <1>1, TypeCorrect, SnapshotAlways, PTL DEF Spec
<1>. QED BY <1>2, PTL DEF A, OnlyAuthorizedReplies

-----------------------------------------------------------------------------
(* Vault implements AtomicVault: each step of the locking, reading and    *)
(* committing implementation is a step of the atomic vault or leaves the  *)
(* atomic vault as it is.                                                 *)

\* The instance's copies of VaultData's definitions are VaultData's.
LEMMA SameValues ==
    /\ Atomic!NoReq = NoReq /\ Atomic!NoReply = NoReply /\ Atomic!Opened = Opened
    /\ Atomic!Unread = Unread /\ Atomic!Time = Time /\ Atomic!Clock = Clock
    /\ Atomic!MissingFile = MissingFile /\ Atomic!EmptyState = EmptyState
    /\ Atomic!Errors = Errors /\ Atomic!Request = Request
BY DEF Atomic!NoReq, NoReq, Atomic!NoReply, NoReply, Atomic!Opened, Opened,
       Atomic!Unread, Unread, Atomic!Time, Time, Atomic!Clock, Clock,
       Atomic!MissingFile, MissingFile, Atomic!EmptyState, EmptyState,
       Atomic!Errors, Errors, Atomic!Request, Request, Atomic!Record, Record

LEMMA SameOperators ==
    ASSUME NEW f, NEW k, NEW recs, NEW r, NEW t, NEW s, NEW e
    PROVE  /\ Atomic!Readable(f, k) = Readable(f, k)
           /\ Atomic!Unexpired(recs, t) = Unexpired(recs, t)
           /\ Atomic!OutsideScope(recs, s) = OutsideScope(recs, s)
           /\ Atomic!ResolveReply(recs, r, t) = ResolveReply(recs, r, t)
           /\ Atomic!ListReply(recs, s, t) = ListReply(recs, s, t)
           /\ Atomic!Replacement(recs, r, t) = Replacement(recs, r, t)
           /\ Atomic!Err(e) = Err(e)
BY DEF Atomic!Readable, Readable, Atomic!Unexpired, Unexpired, Atomic!OutsideScope,
       OutsideScope, Atomic!ResolveReply, ResolveReply, Atomic!ListReply, ListReply,
       Atomic!Replacement, Replacement, Atomic!Err, Err, Atomic!Time, Time,
       Atomic!Insertion, Insertion, Atomic!Removal, Removal, Atomic!Removed, Removed

USE SameValues, TimeAssumption, AbsentAssumption

\* A step that moves only p moves only p's abstract phase and reply.
LEMMA MapStep ==
    ASSUME TypeOK, NEW p \in Proc, NEW c \in PC, NEW r,
           pc' = [pc EXCEPT ![p] = c], reply' = [reply EXCEPT ![p] = r]
    PROVE  /\ phaseOf' = [phaseOf EXCEPT ![p] = IF c = "idle" THEN "idle"
                                                ELSE IF c = "check" THEN "applied"
                                                ELSE "called"]
           /\ replyOf' = [replyOf EXCEPT ![p] = IF c = "write" THEN NoReply ELSE r]
BY DEF phaseOf, replyOf, TypeOK

\* The return of the implementation is the return of the atomic vault.
LEMMA MapReturn ==
    ASSUME TypeOK, NEW p \in Proc, NEW r, Return(p, r)
    PROVE  Atomic!Return(p, r)
<1>. "idle" \in PC
  BY DEF PC
<1>1. /\ phaseOf' = [phaseOf EXCEPT ![p] = "idle"]
      /\ replyOf' = [replyOf EXCEPT ![p] = r]
  BY MapStep DEF Return
<1>. QED BY <1>1 DEF Return, Atomic!Return

LEMMA MapInit == Init => Atomic!Init
BY DEF Init, Atomic!Init, phaseOf, replyOf, Clock, Time

\* A call: the atomic vault records the same request.
LEMMA MapEnter ==
    ASSUME TypeOK, NEW p \in Proc, NEW r \in Request, NEW t, NEW k \in Key, r # NoReq,
           Enter(p, r, t), handle' = [handle EXCEPT ![p] = k],
           IF r.op = "open" THEN handle[p] = NoKey ELSE handle[p] = k,
           IF r.op = "store" THEN t = clock /\ clock \in Time /\ clock < r.rec.expires
                             ELSE t = Unread
    PROVE  Atomic!Call(p, r, k)
<1>. "lock" \in PC
  BY DEF PC
<1>1. /\ phaseOf' = [phaseOf EXCEPT ![p] = "called"]
      /\ replyOf' = [replyOf EXCEPT ![p] = NoReply]
      /\ phaseOf[p] = "idle"
  BY MapStep DEF Enter, phaseOf
<1>2. IF r.op = "open" THEN handle[p] = NoKey /\ k \in Key ELSE handle[p] # NoKey /\ k = handle[p]
  OBVIOUS
<1>3. now' = [now EXCEPT ![p] = IF r.op = "store" THEN clock ELSE Unread]
  BY DEF Enter
<1>4. req' = [req EXCEPT ![p] = r] /\ UNCHANGED <<file, clock>>
  BY DEF Enter
<1>. QED BY <1>1, <1>2, <1>3, <1>4 DEF Atomic!Call

LEMMA MapInvoke ==
    ASSUME TypeOK, CallInv, NEW p \in Proc, Invoke(p)
    PROVE  Atomic!Next
<1>. SUFFICES \/ \E r \in Request, k \in Key : Atomic!Call(p, r, k)
              \/ Atomic!Refuse(p)
  BY DEF Atomic!Next
<1>. handle[p] \in Key \cup {NoKey} /\ (handle' = handle => handle' = [handle EXCEPT ![p] = handle[p]])
  BY DEF TypeOK
<1>1. ASSUME NEW k \in Key, Open(p, k) PROVE \E r \in Request : Atomic!Call(p, r, k)
  <2>. DEFINE r == [op |-> "open"]
  <2>1. r \in Request /\ r # NoReq /\ r.op = "open"
    BY DEF Request, NoReq
  <2>2. Enter(p, r, Unread) /\ handle[p] = NoKey /\ handle' = [handle EXCEPT ![p] = k]
    BY <1>1 DEF Open
  <2>. HIDE DEF r
  <2>. QED BY <2>1, <2>2, MapEnter
<1>2. ASSUME NEW kind \in Kind, NEW scope \in Scope, NEW value \in Value, NEW ttl \in TTL,
             Store(p, kind, scope, value, ttl)
      PROVE  \E r \in Request, k \in Key : Atomic!Call(p, r, k)
  <2>. DEFINE r == [op |-> "store", rec |-> [kind |-> kind, scope |-> scope,
                                             value |-> value, expires |-> clock + ttl]]
  <2>1. clock + ttl \in Time /\ clock \in Time /\ clock < clock + ttl
    BY <1>2 DEF Store, ValidTtl, Time, TypeOK, Clock
  <2>2. r \in Request /\ r # NoReq /\ r.op = "store" /\ r.rec.expires = clock + ttl
    BY <2>1 DEF Request, Record, NoReq
  <2>3. Enter(p, r, clock) /\ handle[p] \in Key /\ UNCHANGED handle
    BY <1>2 DEF Store
  <2>. HIDE DEF r
  <2>. QED BY <2>1, <2>2, <2>3, MapEnter
<1>3. ASSUME NEW value, NEW ttl, StoreRefused(p, value, ttl) PROVE Atomic!Refuse(p)
  <2>1. /\ phaseOf' = phaseOf /\ phaseOf[p] = "idle"
        /\ replyOf' = [replyOf EXCEPT ![p] = Err("InvalidInput")]
    BY <1>3 DEF StoreRefused, phaseOf, replyOf, TypeOK
  <2>. QED BY <1>3, <2>1, SameOperators DEF StoreRefused, Atomic!Refuse
<1>4. ASSUME NEW id \in Id, NEW kind \in Kind, NEW scope \in Scope, Resolve(p, id, kind, scope)
      PROVE  \E r \in Request, k \in Key : Atomic!Call(p, r, k)
  <2>. DEFINE r == [op |-> "resolve", id |-> id, kind |-> kind, scope |-> scope]
  <2>1. r \in Request /\ r # NoReq /\ r.op = "resolve"
    BY DEF Request, NoReq
  <2>2. Enter(p, r, Unread) /\ handle[p] \in Key /\ UNCHANGED handle
    BY <1>4 DEF Resolve
  <2>. HIDE DEF r
  <2>. QED BY <2>1, <2>2, MapEnter
<1>5. ASSUME NEW op \in {"list", "clear"}, NEW scope \in Scope, ListOrClear(p, op, scope)
      PROVE  \E r \in Request, k \in Key : Atomic!Call(p, r, k)
  <2>. DEFINE r == [op |-> op, scope |-> scope]
  <2>1. r \in Request /\ r # NoReq /\ r.op \in {"list", "clear"}
    BY DEF Request, NoReq
  <2>2. Enter(p, r, Unread) /\ handle[p] \in Key /\ UNCHANGED handle
    BY <1>5 DEF ListOrClear
  <2>. HIDE DEF r
  <2>. QED BY <2>1, <2>2, MapEnter
<1>6. ASSUME PurgeExpired(p) PROVE \E r \in Request, k \in Key : Atomic!Call(p, r, k)
  <2>. DEFINE r == [op |-> "purge"]
  <2>1. r \in Request /\ r # NoReq /\ r.op = "purge"
    BY DEF Request, NoReq
  <2>2. Enter(p, r, Unread) /\ handle[p] \in Key /\ UNCHANGED handle
    BY <1>6 DEF PurgeExpired
  <2>. HIDE DEF r
  <2>. QED BY <2>1, <2>2, MapEnter
<1>. QED BY <1>1, <1>2, <1>3, <1>4, <1>5, <1>6 DEF Invoke

\* An error return before the commit is a failure of the atomic vault.
LEMMA MapFail ==
    ASSUME TypeOK, NEW p \in Proc, NEW e \in Errors,
           pc[p] \in PC \ {"idle", "check"}, Return(p, Err(e)), UNCHANGED <<file, clock>>
    PROVE  Atomic!Next
<1>1. phaseOf[p] = "called"
  BY DEF phaseOf
<1>2. Atomic!Fail(p, e)
  BY <1>1, MapReturn, SameOperators DEF Atomic!Fail
<1>. QED BY <1>2 DEF Atomic!Next

\* A call that answers from its copy answers from the file.
LEMMA MapAnswer ==
    ASSUME TypeOK, SnapshotInv, NEW p \in Proc, NEW r, pc[p] = "apply", Return(p, r),
           UNCHANGED <<file, clock>>,
           \/ req[p].op = "open" /\ r = Opened
           \/ req[p].op = "resolve" /\ r = ResolveReply(file.recs, req[p], clock)
           \/ req[p].op = "list" /\ r = ListReply(file.recs, req[p].scope, clock)
           \/ /\ req[p].op = "clear" /\ OutsideScope(file.recs, req[p].scope) = file.recs
              /\ r = [removed |-> {}]
           \/ /\ req[p].op = "purge" /\ clock \in Time
              /\ Unexpired(file.recs, clock) = file.recs
              /\ r = [removed |-> {}]
    PROVE  Atomic!Next
<1>1. phaseOf[p] = "called" /\ Readable(file, handle[p])
  BY DEF phaseOf, SnapshotInv, Snapshot
<1>2. Atomic!Return(p, r)
  BY MapReturn
<1>3. Atomic!Answer(p)
  BY <1>1, <1>2, SameOperators DEF Atomic!Answer
<1>. QED BY <1>3 DEF Atomic!Next

\* A step from one point before the commit to another is invisible, unless it is
\* the clock reading of a purge.
LEMMA MapInternal ==
    ASSUME TypeOK, CallInv, NEW p \in Proc, NEW c \in {"read", "apply", "write"},
           pc[p] \in {"lock", "read", "apply"}, pc' = [pc EXCEPT ![p] = c],
           c # "write" => UNCHANGED reply,
           \E r : reply' = [reply EXCEPT ![p] = r]
    PROVE  UNCHANGED <<phaseOf, replyOf>>
<1>1. reply[p] = NoReply
  BY DEF CallInv, CallOK
<1>2. phaseOf' = phaseOf
  BY DEF phaseOf, TypeOK
<1>3. replyOf' = replyOf
  BY <1>1 DEF replyOf, TypeOK
<1>. QED BY <1>2, <1>3

\* The commit is the step of the atomic vault that replaces the file.
LEMMA MapCommit ==
    ASSUME TypeOK, SnapshotInv, CallInv, NEW p \in Proc, Commit(p)
    PROVE  Atomic!Next
<1>1. /\ phaseOf[p] = "called"
      /\ phaseOf' = [phaseOf EXCEPT ![p] = "applied"]
      /\ replyOf' = [replyOf EXCEPT ![p] = reply[p]]
  BY DEF Commit, phaseOf, replyOf, TypeOK
<1>2. PICK new \in Replacement(file.recs, req[p], now[p]) :
         mem[p] = new.recs /\ reply[p] = new.reply
  BY DEF Commit, SnapshotInv, Snapshot
<1>3. /\ Readable(file, handle[p])
      /\ new.recs # file.recs
      /\ req[p].op \in {"store", "purge"} => now[p] \in Time
  BY <1>2 DEF Commit, SnapshotInv, Snapshot, CallInv, CallOK
<1>4. /\ file' = [key |-> handle[p], recs |-> new.recs]
      /\ UNCHANGED <<clock, handle, req, now>>
  BY <1>2 DEF Commit
<1>5. /\ new \in Atomic!Replacement(file.recs, req[p], now[p])
      /\ Atomic!Readable(file, handle[p])
  BY <1>2, <1>3, SameOperators
<1>6. replyOf' = [replyOf EXCEPT ![p] = new.reply]
  BY <1>1, <1>2
<1>7. Atomic!Replace(p)
  BY <1>1, <1>3, <1>4, <1>5, <1>6 DEF Atomic!Replace
<1>. QED BY <1>7 DEF Atomic!Next

\* A step of a process that holds the lock.
LEMMA MapProceed ==
    ASSUME TypeOK, SnapshotInv, CallInv, NEW p \in Proc, Proceed(p)
    PROVE  Atomic!Next \/ UNCHANGED Atomic!vars
<1>. Snapshot(p)
  BY DEF SnapshotInv
<1>. /\ mem[p] \in State /\ req[p] \in Request /\ reply[p] \in Reply
     /\ now[p] \in Clock /\ clock \in Clock /\ now = [now EXCEPT ![p] = now[p]]
     /\ reply = [reply EXCEPT ![p] = reply[p]]
  BY DEF TypeOK
<1>1. CASE ReadState(p)
  <2>1. UNCHANGED <<phaseOf, replyOf>>
    BY <1>1, MapInternal DEF ReadState
  <2>. QED BY <1>1, <2>1 DEF ReadState, Atomic!vars
<1>2. CASE ReadStateRejects(p) \/ StoreNoRandomness(p) \/ PurgeBeforeEpoch(p)
  BY <1>2, MapFail DEF ReadStateRejects, StoreNoRandomness, PurgeBeforeEpoch, Applying, PC,
     Inside, Errors
<1>3. CASE OpenApply(p)
  BY <1>3, MapAnswer DEF OpenApply, Applying
<1>4. CASE ResolveApply(p)
  BY <1>4, MapAnswer DEF ResolveApply, Applying, Snapshot
<1>5. CASE ListApply(p)
  BY <1>5, MapAnswer DEF ListApply, Applying, Snapshot
<1>6. CASE StoreApply(p)
  <2>1. PICK recs, r : GoWrite(p, recs, r) /\ UNCHANGED now /\ pc[p] = "apply"
    BY <1>6 DEF StoreApply, Applying
  <2>2. UNCHANGED <<phaseOf, replyOf>>
    BY <2>1, MapInternal DEF GoWrite
  <2>. QED BY <2>1, <2>2 DEF GoWrite, Atomic!vars
<1>7. CASE ClearApply(p)
  <2>. DEFINE kept == OutsideScope(mem[p], req[p].scope)
              gone == Removed(mem[p], kept)
  <2>1. /\ kept \in State /\ req[p].scope \in Scope
        /\ pc[p] = "apply" /\ req[p].op = "clear" /\ mem[p] = file.recs
    BY <1>7, OutsideState, RequestShape DEF ClearApply, Applying, Snapshot
  <2>2. \/ gone = {} /\ Return(p, [removed |-> {}]) /\ UNCHANGED <<file, clock>>
        \/ GoWrite(p, kept, [removed |-> gone]) /\ UNCHANGED now
    BY <1>7 DEF ClearApply
  <2>3. gone = {} => kept = file.recs
    BY <2>1, OutsideOnlyRemoves, RemovalChanges
  <2>4. CASE gone = {} /\ Return(p, [removed |-> {}]) /\ UNCHANGED <<file, clock>>
    BY <2>1, <2>3, <2>4, MapAnswer
  <2>5. CASE GoWrite(p, kept, [removed |-> gone]) /\ UNCHANGED now
    <3>1. UNCHANGED <<phaseOf, replyOf>>
      BY <2>1, <2>5, MapInternal DEF GoWrite
    <3>. QED BY <2>5, <3>1 DEF GoWrite, Atomic!vars
  <2>. QED BY <2>2, <2>4, <2>5
<1>8. CASE PurgeApply(p)
  <2>. DEFINE kept == Unexpired(mem[p], clock)
              gone == Removed(mem[p], kept)
  <2>1. /\ kept \in State /\ clock \in Time
        /\ pc[p] = "apply" /\ req[p].op = "purge" /\ mem[p] = file.recs
    BY <1>8, UnexpiredState DEF PurgeApply, Applying, Snapshot
  <2>2. \/ gone = {} /\ Return(p, [removed |-> {}]) /\ UNCHANGED <<file, clock>>
        \/ GoWrite(p, kept, [removed |-> gone]) /\ now' = [now EXCEPT ![p] = clock]
    BY <1>8 DEF PurgeApply
  <2>3. gone = {} => kept = file.recs
    BY <2>1, UnexpiredOnlyRemoves, RemovalChanges
  <2>4. CASE gone = {} /\ Return(p, [removed |-> {}]) /\ UNCHANGED <<file, clock>>
    BY <2>1, <2>3, <2>4, MapAnswer
  <2>5. CASE GoWrite(p, kept, [removed |-> gone]) /\ now' = [now EXCEPT ![p] = clock]
    <3>1. UNCHANGED <<phaseOf, replyOf>>
      BY <2>1, <2>5, MapInternal DEF GoWrite
    <3>2. phaseOf[p] = "called"
      BY <2>1 DEF phaseOf
    <3>3. Atomic!ReadClock(p)
      BY <2>1, <2>5, <3>1, <3>2 DEF GoWrite, Atomic!ReadClock
    <3>. QED BY <3>3 DEF Atomic!Next
  <2>. QED BY <2>2, <2>4, <2>5
<1>9. CASE Commit(p)
  BY <1>9, MapCommit
<1>10. CASE Finish(p)
  <2>1. phaseOf[p] = "applied" /\ replyOf[p] = reply[p]
    BY <1>10 DEF Finish, phaseOf, replyOf
  <2>2. Atomic!Acknowledge(p)
    BY <1>10, <2>1, MapReturn DEF Finish, Atomic!Acknowledge
  <2>. QED BY <2>2 DEF Atomic!Next
<1>. QED BY <1>1, <1>2, <1>3, <1>4, <1>5, <1>6, <1>7, <1>8, <1>9, <1>10 DEF Proceed

LEMMA MapNext ==
    ASSUME TypeOK, SnapshotInv, CallInv, [Next]_vars
    PROVE  [Atomic!Next]_(Atomic!vars)
<1>1. ASSUME NEW p \in Proc, Invoke(p) PROVE Atomic!Next
  BY <1>1, MapInvoke
<1>2. ASSUME NEW p \in Proc, OpenLock(p) PROVE UNCHANGED Atomic!vars
  <2>1. reply' = [reply EXCEPT ![p] = reply[p]]
    BY <1>2 DEF OpenLock, TypeOK
  <2>2. UNCHANGED <<phaseOf, replyOf>>
    BY <1>2, <2>1, MapInternal DEF OpenLock
  <2>. QED BY <1>2, <2>2 DEF OpenLock, Atomic!vars
<1>3. ASSUME NEW p \in Proc, Proceed(p) PROVE Atomic!Next \/ UNCHANGED Atomic!vars
  BY <1>3, MapProceed
<1>4. ASSUME NEW p \in Proc, IoFails(p) PROVE Atomic!Next
  <2>1. CASE pc[p] # "check"
    BY <1>4, <2>1, MapFail DEF IoFails, PC, Inside, Errors
  <2>2. CASE pc[p] = "check"
    <3>1. phaseOf[p] = "applied"
      BY <2>2 DEF phaseOf
    <3>2. Atomic!Acknowledge(p)
      BY <1>4, <3>1, MapReturn, SameOperators DEF IoFails, Atomic!Acknowledge
    <3>. QED BY <3>2 DEF Atomic!Next
  <2>. QED BY <2>1, <2>2
<1>5. ASSUME NEW p \in Proc, SealFails(p) PROVE Atomic!Next
  BY <1>5, MapFail DEF SealFails, PC, Inside, Errors
<1>6. ASSUME NEW p \in Proc, Crash(p) PROVE Atomic!Next
  <2>. "idle" \in PC
    BY DEF PC
  <2>1. /\ phaseOf' = [phaseOf EXCEPT ![p] = "idle"]
        /\ replyOf' = [replyOf EXCEPT ![p] = NoReply]
    BY <1>6, MapStep DEF Crash
  <2>2. Atomic!Crash(p)
    BY <1>6, <2>1 DEF Crash, Atomic!Crash
  <2>. QED BY <2>2 DEF Atomic!Next
<1>7. ASSUME Tick \/ SetBack PROVE Atomic!Next
  <2>1. clock' \in Clock
    BY <1>7 DEF Tick, SetBack, TypeOK, Clock
  <2>2. Atomic!ClockMoves
    BY <1>7, <2>1 DEF Tick, SetBack, procVars, Atomic!ClockMoves, phaseOf, replyOf
  <2>. QED BY <2>2 DEF Atomic!Next
<1>8. ASSUME Corrupt PROVE Atomic!Next
  <2>1. Atomic!Corrupt
    BY <1>8 DEF Corrupt, procVars, Atomic!Corrupt, phaseOf, replyOf
  <2>. QED BY <2>1 DEF Atomic!Next
<1>9. ASSUME UNCHANGED vars PROVE UNCHANGED Atomic!vars
  BY <1>9 DEF vars, procVars, Atomic!vars, phaseOf, replyOf
<1>. QED BY <1>1, <1>2, <1>3, <1>4, <1>5, <1>6, <1>7, <1>8, <1>9 DEF Next

\* VaultIsAtomic.  For any number of processes, with failures and crashes between
\* any two steps, the locked read-modify-replace protocol behaves as a vault whose
\* every operation is one indivisible step on the current file.
THEOREM VaultIsAtomic == Spec => Linearizable
<1>1. TypeOK /\ SnapshotInv /\ CallInv /\ [Next]_vars => [Atomic!Next]_(Atomic!vars)
  BY MapNext
<1>. QED
  BY <1>1, MapInit, TypeCorrect, SnapshotAlways, CallAlways, PTL
  DEF Spec, Linearizable, Atomic!Spec

=============================================================================
