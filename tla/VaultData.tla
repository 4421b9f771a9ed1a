------------------------------ MODULE VaultData ------------------------------
(***************************************************************************)
(* The values blindfold-vault computes with: records, the decrypted state, *)
(* requests, replies, and the pure part of every operation.  Shared by     *)
(* AtomicVault (what the vault promises) and Vault (how it does it).       *)
(***************************************************************************)
EXTENDS Integers

CONSTANTS
    Proc,         \* threads of control, in one or several OS processes
    Key,          \* master keys a caller may open the vault file with
    Id,           \* random 128-bit record identifiers
    Scope,        \* (project, session) pairs
    Kind,         \* SafeRefKind
    Value,        \* non-empty secret values
    EmptyValue,   \* the empty secret, which store() refuses
    TTL,          \* lifetimes in whole seconds; 0 also stands for a sub-second one
    MaxTime,      \* the largest u64 second count
    NoKey, BadKey, NoRec, NoProc

ASSUME TimeAssumption == MaxTime \in Nat /\ TTL \subseteq Nat
ASSUME AbsentAssumption ==
    /\ NoKey \notin Key /\ BadKey \notin Key /\ NoKey # BadKey
    /\ NoProc \notin Proc
    /\ EmptyValue \notin Value
    /\ NoRec \notin [kind : Kind, scope : Scope, value : Value, expires : Int]

\* -1 is any wall-clock time before the Unix epoch, where unix_seconds() fails.
Clock == -1 .. MaxTime
Time == 0 .. MaxTime
Unread == -1   \* a call that has not read the clock

Record == [kind : Kind, scope : Scope, value : Value, expires : Time]
State == [Id -> Record \cup {NoRec}]
EmptyState == [i \in Id |-> NoRec]

\* The vault file: the key its bytes authenticate under (NoKey: there is no
\* file; BadKey: bytes that authenticate under no key) and what they decrypt to.
File == [key : Key \cup {NoKey, BadKey}, recs : State]
MissingFile == [key |-> NoKey, recs |-> EmptyState]

-----------------------------------------------------------------------------
\* A store request carries the record as computed before the lock is taken.
Request ==
    [op : {"open", "purge", "none"}]
        \cup [op : {"store"}, rec : Record]
        \cup [op : {"resolve"}, id : Id, kind : Kind, scope : Scope]
        \cup [op : {"list", "clear"}, scope : Scope]
NoReq == [op |-> "none"]

Errors == {"InvalidInput", "StorageUnavailable", "CorruptOrWrongKey",
           "ReferenceRejected", "RandomnessUnavailable"}
Err(e) == [err |-> e]
\* removed: the identifiers whose number clear() and purge_expired() return.
Reply ==
    [err : Errors] \cup [id : Id] \cup [value : Value]
        \cup [ids : SUBSET Id] \cup [removed : SUBSET Id]
        \cup [opened : BOOLEAN] \cup [none : BOOLEAN]
NoReply == [none |-> TRUE]
Opened == [opened |-> TRUE]

-----------------------------------------------------------------------------
\* Mutant: bytes that do not authenticate read as an empty vault.
ReadableStartsOver(file, key) == TRUE

\* read_state: a missing file reads as the empty state, anything else must
\* authenticate under the handle's key.
Readable(file, key) == file.key \in {NoKey, key}

\* Mutant: the addition is not checked.
ValidTtlUnchecked(now, ttl) == ttl > 0

\* unix_seconds(SystemTime::now()) and the checked_add of store().
ValidTtl(now, ttl) == ttl > 0 /\ now + ttl <= MaxTime

\* The retain() calls of store/purge_expired and of clear.
Unexpired(recs, now) ==
    [i \in Id |-> IF recs[i] # NoRec /\ recs[i].expires > now
                  THEN recs[i] ELSE NoRec]
OutsideScope(recs, scope) ==
    [i \in Id |-> IF recs[i] # NoRec /\ recs[i].scope # scope
                  THEN recs[i] ELSE NoRec]
Removed(before, after) == {i \in Id : before[i] # NoRec /\ after[i] = NoRec}

\* Mutant: the scope is not compared.
ResolveReplyAnyScope(recs, r, now) ==
    LET rec == recs[r.id] IN
    IF rec # NoRec /\ rec.expires > now /\ rec.kind = r.kind
    THEN [value |-> rec.value]
    ELSE Err("ReferenceRejected")

\* The part of resolve() after read_state.
ResolveReply(recs, r, now) ==
    LET rec == recs[r.id] IN
    IF rec = NoRec THEN Err("ReferenceRejected")
    ELSE IF now \notin Time THEN Err("InvalidInput")
    ELSE IF rec.expires > now /\ rec.scope = r.scope /\ rec.kind = r.kind
    THEN [value |-> rec.value]
    ELSE Err("ReferenceRejected")

\* The part of list() after read_state.
ListReply(recs, scope, now) ==
    IF now \in Time
    THEN [ids |-> {i \in Id : /\ recs[i] # NoRec
                              /\ recs[i].expires > now
                              /\ recs[i].scope = scope}]
    ELSE Err("InvalidInput")

\* What a mutation may turn the records into, and the reply that goes with it;
\* t is the clock reading the call works with.
Removal(before, after) == [recs |-> after, reply |-> [removed |-> Removed(before, after)]]
Insertion(kept, rec, i) == [recs |-> [kept EXCEPT ![i] = rec], reply |-> [id |-> i]]
Replacement(recs, r, t) ==
    IF r.op = "store" THEN
        LET kept == Unexpired(recs, t)
        IN {Insertion(kept, r.rec, i) : i \in {j \in Id : kept[j] = NoRec}}
    ELSE IF r.op = "clear" THEN {Removal(recs, OutsideScope(recs, r.scope))}
    ELSE IF r.op = "purge" THEN {Removal(recs, Unexpired(recs, t))}
    ELSE {}

=============================================================================
