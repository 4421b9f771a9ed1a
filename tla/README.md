# Blindfold in TLA+

Blindfold keeps secrets away from coding agents: it replaces them by references
(`bf://...`), stores the originals in an encrypted vault, resolves references only for
authorised uses, redacts what agents and tools print, proxies and sanitises model
traffic, and can run an agent in a container without network. This directory holds
TLA+ models of the parts of the Rust workspace in which several processes, threads,
failures or byte boundaries meet, TLC configurations that check them on small
instances, and TLAPS proofs for every instance. `PROJECT.json` lists components, runs,
the lines each definition stands for, hazards, findings and theorems.

## 1. Inventory

| component | state | operations | meets | what makes it correct |
|---|---|---|---|---|
| vault (`blindfold-vault/vault.rs`, `fs.rs`) | one encrypted file, one lock file; per call a decrypted copy and a clock reading | open, store, resolve, list, clear, purge_expired | every process of the project (CLI, MCP, proxy) | calls look atomic; no lost update; an Ok is durable; wrong key and damage fail closed; references only to their kind and scope, before expiry |
| audit log (`audit.rs`) | active file and numbered generations, lock file | append (with rotate), read_lines | all commands | order, losses only from the old end, readable |
| trace store (`blindfold-trace`) | the same | append, read_all, clear | proxy, CLI | the same, and bounded |
| command execution (`blindfold-exec/lib.rs`) | child, process group, two pipes, two threads, deadline | execute | CLI, vault (secrets bound to the environment) | all output redacted and captured, child reaped, timeout honoured, no survivors |
| streaming redactor (`redactor.rs`) | bytes held back, bounded output | push, finish | execution | no secret in the output however it is cut into reads |
| locked run (`blindfold-cli/container_runner.rs`) | a volume, two containers, the run's outcome | run_locked, cleanup_session | docker client and daemon, Ctrl-C | nothing left behind unless the error says so |
| policy engine (`blindfold-policy`) | a policy with rules and temporary grants | new, evaluate_at | CLI (`policy check`), hosts that embed it | precedence: invariants, invalid policy, deny, active allow, preset; nothing but a matching allow ever loosens |
| model proxy (`blindfold-proxy`) | connections, exchanges in flight, their traces, the draining server | forward, forward_websocket, serve | sanitizer, trace store, upstreams, clients that disappear | both directions sanitised, one record per exchange that was answered, a record that says what crossed, loops end, draining ends |
| CLI (`commands.rs`) | network policy file, output files, managed runs | mask, redact, vault, audit, trace, allow, deny, status, call, run, scan, diff-check, mcp | all of the above; other commands on the same project | every reference is backed, no file clobbered, no host reached without leave, exit codes mean what they say, commands end |
| boundary relays (`boundary.rs`) | gateway readiness, relayed streams | wait_for_gateway, relay | locked run | readiness is bounded |
| MCP transform (`blindfold-mcp`) | none | mask results, restore arguments | detectors, resolver | a value only where the resolver allows |
| detectors, diff (`blindfold-detectors`, `blindfold-diff`) | a scan report | scan, resolve overlaps, redact, parse patches | CLI, proxy | no finding stays whole; "clean" means clean |
| plugins (`blindfold-plugin-*`) | none | validate manifests, probe executables | execution | limits kept |
| core types, configuration, doctor, adapters, SDKs | none | parse, format | all | - |

Hard behaviours: processes sharing files through advisory locks; crashes between two
system calls; failures after a commit point; clock readings that are stale when used;
pipes, threads, timeouts and process groups; secrets cut by read boundaries; Ctrl-C and
a daemon that fails between any two docker commands; exchanges dropped at any await;
commands that meet in a file without a lock, or are killed half way; detached tasks whose
failures come too late.

## 2. Plan

1. *Done*: `VaultData`, `AtomicVault`, `Vault`, their proofs; `RotatingLog`;
   `StreamingRedactor`; `Execution`; `LockedRun`.
2. *Done*: `Policy`; `Proxy` with its abstract specification `ExchangeTrace`.
3. *Done*: the command line as processes over one project (`Project`), composed from
   `Detection`, `MaskCommands`, `NetworkCommands`, `ManagedRun` and `InspectCommands` in
   `Cli`. It uses the vault as `AtomicVault` promises it, the logs as sets (their order and
   rotation are `RotatingLog`'s) and the proxy as `Proxy` shows it.
4. *Done*: proofs of every safety property the runs check and of both refinements
   (section 6). Liveness stays with TLC.

## 3. Modules

`VaultData` - records, files, requests, replies and the pure part of every vault
operation (which records survive `retain`, what `resolve` answers, ...). A file is the
key it authenticates under and what it decrypts to; `NoKey` is a missing file, `BadKey`
bytes that authenticate under no key. Identifiers are a set, the counts `clear` and
`purge_expired` return are the sets counted. `created_at` and `EntryMetadata` are left
out. Time is in seconds, -1 standing for a clock before 1970, where `unix_seconds` fails.

`AtomicVault` - the promise: a call reads and replaces the file in one step between its
call and its return, or fails without effect; after the step it may still return an
error. No lock, no copy.

`Vault` - the implementation. `Open`, `Store`, `StoreRefused`, `Resolve`, `ListOrClear`,
`PurgeExpired` enter a call; `OpenLock`, `ReadState`/`ReadStateRejects`, one `...Apply`
per operation, `Commit` and `Finish` are the steps of a call; `IoFails`, `SealFails`,
`StoreNoRandomness` are the errors of its system calls and `Crash` the end of the process
anywhere. `store()` reads the clock on entry, before it waits for the lock. Damage to the
file (`Corrupt`) happens only while nobody holds the lock, and a crash is the end of a
process, not a loss of power: the file system is assumed to keep what a rename did. When
no identifier is free the drawing loop of the code goes on until `getrandom` fails, which
is `StoreNoRandomness`. `kind_code` and `reference_id` cannot fail for the values that
exist and have no action.

`RotatingLog` - `AuditLog` and `Store`, chosen by `isTrace`: the two differ in the length
check of `Store::append`, in what a read covers and in `clear`. A file is the sequence of
what appends left in it: a whole line, a line without its newline, torn bytes. One action
per rename, removal, write and read; `FailOrCrash` ends a call between any two of them.
Records are the serial numbers of the appends in the order of the lock. Opening a log
creates the lock file and changes nothing else. An append whose record is refused before
the lock (`validate`, an invalid time stamp) has no effect and no action.

`StreamingRedactor` - `push`, `finish`, `process`, `match_length` and `BoundedOutput`,
byte by byte. `NoSecretInOutput` is for secrets that are `ApartFromRedaction`: laid over
`[REDACTED]` in any way, one byte differs. For others it need not hold, since the marker
and the bytes beside it may then spell a secret (`E`, or `]x` after a match and before an
`x`) that does not stand in the stream; nothing in `redactor.rs` excludes them. The other
properties do not need this.

`Execution` - `execute()`, its two `capture_stream` threads, the child, its descendants
and the deadline. Bytes are counted, not distinguished. Unix only: on other systems
`terminate_process_group` kills just the child, which is the mutant
`KillGroupChildOnly`. A capture thread may not start (`refused`), fail to read
(`failed`, an `OutputReadFailed` when it is joined) or panic (`panicked`, an
`OutputWorkerFailed`); with no timeout the last two are found only after the child has
exited, and descendants of it are then left alone, which is why `NoSurvivors` promises
nothing there. The `None` cases of `stdout.take()` cannot happen with piped
streams. `hasTimeout`, `mayEscape` and `killMayFail` are chosen once per behaviour. The
last `wait` of `terminate_child` is assumed to succeed, as it does for a child that was
not waited for.

`LockedRun` - `run_locked` with `run_after_volume_created`,
`stop_agent_after_interrupt`, `cleanup_session` and `checked_resource_exists`; the docker
client and daemon, containers that exit and are removed by `--rm`, and Ctrl-C. The
preflight (client, daemon, image, identity) is one step with its possible errors; the
validation of the specification before it and the docker arguments are left out.
`faults` remembers whether the daemon restarted (at most once) or a request outlived the
client that sent it.

`Policy` - the decision procedure as operators (`Matches`, `ValidRules`,
`ViolatesInvariant`, one operator per preset, `EvaluateAt`) and a host that rebuilds its
policy rule by rule and evaluates one request while time passes. An invalid policy is kept
with its error, as `Policy::new` does. The wildcard patterns of the non-exhaustive enums
are the complements of the values that exist.

`ExchangeTrace` - the promise of a traced proxy: an exchange opens, closes once and leaves
at most one record, at the moment it closes.

`Proxy` - concurrent exchanges. `Connect` and `Leave` are a connection on which the head of
a request begins to come; `AcceptUnknown`, `AcceptProbe`, `AcceptUpgrade` and
`AcceptRequest` are `forward` up to its first await (all checks in their order);
`ReadBody` (which sanitises), `Send` (which lets the body out, or fails to reach the
upstream), `Respond` and `Collect` the awaits of `forward_inner`, with their failures;
`Timeout` and `Disconnect` cut an exchange at any of them; `Connected`, `Relay`,
`BridgeEnds` are the WebSocket bridge; `Delivered` is the end of an answer; `LoopBack` is
an upstream, of an HTTP exchange or a handshake, whose name leads to this listener under
any of its upstreams; `Cancel` and `Drained` are `serve`, whose graceful shutdown waits for
every connection that is `open`: from the first byte of a head to the last of the answer,
or to the upgrade. `TraceTruthful` is what `docs/tracing.md` says of coverage; "degraded"
does not say that the upstream was reached, since `request_after` is set before the send.
Observations are a set, as `RequestTrace::observe` merges equal ones. A body is a sequence of parts, a part has a
kind (string, key, number, ...) and the set of sensitive things in it: that is all the
sanitizer tells apart. Headers that are copied and the building of URLs are left out.

`Detection` - `DetectorSet::detect` on one text. A text is the set of places where some
expression matches, with span, length conditions and validity; confidence, overlap
resolution, the replacement modes and the dotenv catalogue are modelled, the regular
expressions are not. An *image* is what a transformation leaves: the text, what stands for
which finding, and where it was cut.

`Project` - the files of one project, what each process printed, its exit code, the end of
`traced_command`, and `Kill`, the end of a process between any two steps.

`MaskCommands` - mask, redact, vault, audit and trace: check of the output path, detection,
one store per distinct value and kind, audit, trace, output, each of which may fail. Any
store may prune records that have expired; the model has no clock here and lets any set of
them go, to `cleared`, where `vault clear` puts them too.

`NetworkCommands` - allow, deny, status and call. `LoadProjectPolicy` and
`SaveProjectPolicy` are two steps without a lock. `ack` remembers what the user was told:
the denies that stand (`standing`), everything ever allowed (`asked`), and which changes
overlapped another one (`busy`, `disputed`), about which nothing is promised.

`ManagedRun` - run: the proxy, the egress guard with one task per connection, the agent and
its descendants, which may hold either of its two streams, the bounded reading and cutting
of each stream by a reader of its own, cancellation, draining and the trace of the session. Of a request to the proxy only whether it is in flight matters
here; the request itself is `Proxy`'s. The guard judges the host it parses out of the
authority (`authority_host`) and dials the authority as it came; the model has one host for
both. Killing the run is `Kill`; what becomes of the agent
then is not modelled.

`InspectCommands` - scan (the explicit stack, every limit, files that grow between metadata
and read, entries that fail), diff-check (the patch line by line, hunk counts, renames,
malformed lines, combined hunks, binary marks, an early end) and mcp (both directions,
message by message, with the command's resolver that refuses everything; object keys, which
it passes on, included).

`Cli` - the composition and its properties. `SuccessRecorded` promises the record of a
command that ended well unless `trace clear` succeeded beside it, which empties the store
whoever wrote to it; the record of every tunnel a run vouched for is promised without
exception. `InScope`, the nodes a scan has to look at, is defined by the paths from the
root, and the reader of a patch by the counts of its hunk headers and the file a binary
mark stands under, so that neither repeats the walk or the parser it judges. The reader
says where an added line was to be reported: in a `hunk`, in a `combined` hunk, or in a
hunk of a file for which the parser keeps a `stale` binary mark. `CleanMeansClean` excepts
the last two, `NothingWhole` what mcp only passes on: the model has these behaviours and
section 5 notes them.

Modules named `MC...` instantiate them. The theorems are in modules of their own that
extend what they are about: `VaultProofs`, `LogProofs`, `RedactorProofs`,
`ExecutionProofs`, `LockedRunProofs`, `PolicyProofs`, `ProxyProofs`, `CliProofs`.
Operators marked *Mutant* are plausible bugs of the definition that follows them;
no specification uses them.

## 4. Runs

| run | what it shows | instance |
|---|---|---|
| `vault_race` | `SnapshotInv`, `OnlyJustifiedChanges`, `AckMeansDurable`, `NoEarlyExpiry`, `OnlyAuthorizedReplies` | 2 processes, 2 identifiers, 2 scopes, 2 kinds, times 0-2, a clock that does not go back; symmetric in all of them |
| `vault_atomic` | `Linearizable` (refinement of `AtomicVault`), `KeyNeverReplaced`, `LockReleased` | 2 processes, 2 keys, 2 scopes, times -1 to 1, clock set back |
| `logs` | `OrderInv`, `NoHoles`, `Bounded`, `ReadComplete` | both logs, 2 processes, 2 generations, 4 appends of 2, 3 or 5 bytes into files of 4 |
| `audit_torn` | *violated* `OwnLine` | - |
| `exec` | `CompleteCapture`, `ChildReaped`, `NoSurvivors`, `Returns` | a child and a descendant, pipes of 2 bytes, 2 bytes per stream, all eight choices of timeout, escape and failing kill |
| `exec_escape` | *violated* `TimeoutReturns` | - |
| `redactor` | `NoSecretInOutput`, `PendingBounded`, `ChunkingInvisible` | every input of up to 8 bytes over two letters in every cut, overlapping patterns, output limit 5 |
| `locked_run` | `CleanExit`, `InterruptReported`, `InterruptEnds` | one session; every stage, failure and Ctrl-C |
| `locked_restart` | *violated* `InterruptedIsClean` | - |
| `policy` | `RestoreJustified`, `SecretsStayIn`, `PresetsMonotone`, `NeverLoosens`, `AllowIsNarrow` | 300 requests, policies of up to 2 rules out of 8 (overlapping, expiring, with equal identifiers, and one of each kind validation refuses), times 0-2, all presets |
| `proxy` | `NothingRawCrosses`, `RecordedOnce`, `TraceTruthful`, `LoopStops`, `ImplementsTrace` (refinement of `ExchangeTrace`), `Drains` | 2 concurrent exchanges, 3 upstreams, 15 requests and 6 responses, one for each check and kind of body, 2 frames per bridge, records of 2 replacements; connections that stall before, in and after a request |
| `cli` | `NothingWhole`, `RefsBacked`, `EgressJustified`, `CleanMeansClean`, `SuccessRecorded`, `NeverClobbers`, `CommandsEnd` | up to 3 processes in the scenarios of `MCCli`: every command alone, and together those that meet in a file |

Bounds. Two processes are enough for every race on one lock: a third could only wait.
Two identifiers let one record expire or be cleared while another stays; `MaxTime` leaves
room for a record to be stored, expire and be pruned, and for a lifetime that overflows.
Four appends into files of at most two lines give two rotations with two generations, so
that generations are shifted, dropped and, after a crash, missing. A line of 5 bytes is
longer than a file. Pipes of two bytes make partial reads and full pipes happen; the
patterns of the redactor include one that is a prefix of another. `LockedRun` has no
bound but the single restart. Two rules are enough for every conflict of the policy (a deny
against an allow, two with one identifier), two exchanges for a loop: the first trusted hop
makes the second, and the marker ends it there. A trace record of 2 replacements stands for
one of 1024. Commands of different kinds share only the files named in `Project`, so the
scenarios of `cli` combine those that touch the same file; three processes are needed only
for allow, deny and a reader between them. A patch has up to 7 lines, enough for two
sections with a hunk each; the scanned trees have a directory at the depth limit and more
files and bytes than the limits allow. Spans are byte offsets of realistic size, since the
lengths decide what is found; the output limit of `run` is the code's.

Deadlock is checked everywhere except in `redactor`, where `finish` consumes the
redactor. A call that has returned (`execute`, `run_locked`) stutters in `Done`.

Fairness. `Vault`: weak fairness of the steps of a process that holds the lock, because
none of them waits for another process; nothing is assumed of callers or of who gets the
lock. `Execution`: the calling thread, the two capture threads and the clock go on;
nothing is assumed of the child and its descendants, which may run, fork, fill the pipes
or hold them for ever. `LockedRun`: the launcher goes on, a request is answered (with an
error if need be), a stopped container is removed and its client returns; the agent may
run for ever and Ctrl-C need never come. `Proxy`: the timer of
`tokio::time::timeout` fires and the server's task runs; upstreams and clients owe nothing.
A head that is never completed, an answer that is never read and a WebSocket handshake
stand under no timeout and hold the server for ever; `Drains` says that it stops if no
connection is `Held` for ever in one of these ways, whatever happens inside the exchanges.
`Cli`: a process goes on, and an exchange in flight in the proxy of a run ends, which is
what `Drains` shows of connections that are not held; agent, descendants and tunnels owe
nothing else, and `CommandsEnd` promises the end of a run only once its agent is gone and
each of its two streams is closed or over the limit.

## 5. Findings

* `audit_torn`. A write that stops in the middle of a line leaves bytes without a
  newline. The next `append` continues that line and returns Ok; `read_lines` rejects the
  whole file until it is rotated away, although `append` "appends one complete event".
  The same holds for the trace store.
* `exec_escape`. After the timeout the process group is killed and the child reaped, but
  the capture threads wait for end of file: a descendant that called `setsid` and kept a
  pipe holds `execute()` as long as it lives.
* `locked_restart`. `checked_resource_exists` asks twice; a daemon that is away for the
  inspect and back for the info makes a live resource count as missing, and the run ends
  with `Interrupted` and the resource in place. The `orphans` of the model show the same
  effect when the daemon carries out a request that the interrupted docker client, which
  shares the launcher's process group, has given up.

Noted, without a run of their own:

* the audit log has no check on the length of one event; a container that removes itself
  between the inspect and the `rm --force` of `cleanup_session` turns a clean run into
  `CleanupFailed`; a crash in the middle of a rotation costs one more generation than the
  rotation itself;
* a WebSocket bridge and a `CONNECT` tunnel are recorded as `protected`, however they ended
  and although nobody looks into a tunnel, where `docs/tracing.md` says "supported content
  was inspected in both directions";
* an exchange with more than 1024 replacements, and one whose client went away, leaves no
  record;
* `scan` passes over a directory at the depth limit without counting it, and may exit with
  0; the README of the repository names the "traversal budget" among the reasons for 3;
* `mcp --direction to-server` passes on a reference that stands outside the arguments of a
  tool call, where `docs/mcp.md` says that a SafeRef "fails closed";
* `mcp` leaves object keys as they are in both directions, where `docs/mcp.md` says that
  agent-bound messages "are recursively sanitized" and `Transformer` "recursively
  sanitize[s] every string";
* `diff-check` exits with 0 on a combined diff (`@@@`, of a merge) with a secret in an
  added line, which is read as a patch without hunks, and on a patch without `diff --git`
  lines in which the `---`/`+++` header of a text file follows a `Binary files` line: the
  mark is kept and the file skipped;
* a run waits for both streams of its agent: one that is over the limit does not spare it a
  descendant that holds the other;
* without a timeout, `execute()` leaves the descendants of a child that has exited alone,
  also when it then returns an error because a capture thread failed;
* of two overlapping `allow` and `deny` commands one is lost although both report success;
  a domain with a leading dot is accepted and covers no host; a failing `accept` ends the
  egress guard silently.

## 6. Proofs

Every theorem holds for all values of the constants that satisfy the named assumptions,
which TLC evaluates in the runs. The assumptions say what kind of value a constant is and
that the values standing for "absent" are different from the real ones; those that say more
are given below. There is no induction over data in this prover: where an argument needs
it, the lemma takes the least counterexample among the naturals (`LeastNatural`,
`MinNatural`, `LeastPosition`) or the finite sets (`LeastSet`) and shows that it is none.

`VaultProofs`: `TypeCorrect`, `SnapshotAlways`, `KeySafe`, `NoLostUpdate`, `AckSafe`,
`AuthorizedSafe` and, for a clock that is not set back, `ExpirySafe`. None of the
properties is inductive by itself. `SnapshotInv` says what holding the lock means: who is
inside a call holds it, so nobody else changes the file between `ReadState` and `Commit`,
and the copy about to be committed is one of the `Replacement`s of the file as it is now.
That needs the types of the locals (`TypeOK`) and what a call carries (`CallInv`: a call
under way has a handle, a store has a clock reading below its record's expiry, ...). The
action properties follow from the invariant for the one action, `Commit`, that changes the
file by a call; `OnlyAuthorizedReplies` from the snapshot, because what `resolve` and
`list` compare is their copy, and the copy is the file. `NoEarlyExpiry` adds that a reading
is never later than the clock, which is where the forward-moving clock enters.

Its last part is the refinement `VaultIsAtomic == Spec => Linearizable`. With `phase` computed from `pc`
and a reply hidden until the commit, initial states map to initial states; `OpenLock`,
`ReadState` and the `Apply` steps that lead to a write map to stutters (or to `ReadClock`
for a purge), `Commit` to `Replace`, the other `Apply` steps to `Answer`, `Finish` and a
late `IoFails` to `Acknowledge`.

`LogProofs`: `LogOrdered`, `LogHasNoHoles`, `LogBounded`, `LogReadComplete`, for any number
of processes, generations and appends. The properties speak of files at rest; `LogInv` adds
what is true in the middle of a rotation, an append, a clear or a read: only the holder of
the lock is past it (`Mutex`); the records of a younger generation are all later than those
of an older one, and what was acknowledged is present or older than everything present
(`FilesInv`); and how far the process at work has come (`Appending`, `Appended`,
`Reading`). A crash may end any of these steps, so the invariant has to hold after each of
them and not only at the end of a call. Lines have at least two bytes
(`LogAssumption`), a character and the newline.

`RedactorProofs`: `NoSecretComesOut`, `HoldsBackLittle`, `ChunksDoNotShow`,
`RedactorTypes`, for any finite set of non-empty secrets, any stream, any cut of it and any
limit. `RedactInv` says that some first m bytes of the stream are `Done` and the rest is
pending, with m so close to the end that less than one secret is held back. `Done` is
  * `Marked`: the positions replaced so far are those that the equation of `Matches` wants
    below m, and no byte that arrives later can change this: each decision was taken when
    as many bytes were known as the longest secret has, or lies under an earlier match.
    This is what `process_before` is for, and what makes the invariant survive a `push`
    (`DoneStays`); at the end of the stream the missing bytes count as known;
  * `Written`: the text written for each first part of the m bytes, one piece per position;
  * `Unseen`, if the secrets are `ApartFromRedaction`: no secret is in that text, and where
    it ends with the beginning of a secret, these elements are bytes of the stream that
    stand side by side and were kept - so that a secret completed by the next byte would
    have started in the stream, at a position that is not covered, and been replaced.
`Scan` and the reference `Redacted` are recursive functions, `Matches` a choice among
solutions of an equation. That the function of the scan exists is shown from its last
cursor backwards (`TurnsExist`), that it does what the invariant says likewise
(`ScanCarries`); that the equations of the reference have no second solution by the least
position where two would differ (`MatchesUnique`, `RedactedIs`), the solution of the
redactor being the witness that there is one. `CapIs` shows that a cap applied call by
call is one applied to the whole.

`ExecutionProofs`: `CaptureComplete`, `Reaps`, `GroupGone`, for any descendants, capacities
and amounts of output. `ExecInv` relates the place of the caller to what it will return, to
the child, to the two threads (how each ended included) and to the pipes: what was sent is what was captured plus
what is in the pipe, only living processes hold write ends, and a thread that has seen the
end of its file has seen the last byte, because no writer is left to add one.

`LockedRunProofs`: `ExitsClean`, `InterruptsReported`. `RunInv` follows `cleanup_session`
through its list: what it is done with is gone or `failed` is set, and an inspect that
found nothing while the daemon answers is right. It is stated for behaviours without the
two faults, as `CleanExit` is; with them the run `locked_restart` refutes it.

`PolicyProofs`: `RestoreSafe`, `SecretsSafe`, `PresetsOrdered`, `Tightening`, `Narrowness`,
for any requests and policies of any length. `PolicyInv` says that the stored verdict of
the validation is that of the rules in use; the rest are lemmas about `EvaluateAt`, the
main one that the rule with the lowest identifier exists among those that match, whose
least element `LeastNatural` provides.

`ProxyProofs`: `RawSafe`, `RecordsOnce`, `TraceTrue`, `LoopSafe` and the refinement
`ProxyRefines == Spec => ImplementsTrace`, for any exchanges, upstreams and bodies.
`ProxyInv` is one statement about each exchange by itself, from its state to what was sent
upstream, what was released to the client, its depth, trace and records; `OneExchange`
shows that a step of one leaves the others' alone. `TraceTrue` needs that an exchange which
is `sending` has passed `sanitize_body` but let nothing out, that one `waiting` or
`collecting` has, and that the trace holds no mark of an answer until there is one
(`RecordTruth` turns that into what the record says). The assumption that upstreams are
validated and do not lead straight to the listener is what `Config::validate` and
`reject_direct_loops` check before the server starts.

`CliProofs`: the properties of the command line for any number of processes, any
commands among them and any interleaving, with a kill between any two steps. Its first
part is about frames: `FrameInv` and `Solo` say that a step of a process changes only its
own locals, so that each invariant below is shown for the process that moves and for what
it does to the shared files.
* `ReferencesBacked` (`RefInv`): from the first store on, the references a command has in
  hand are records of the vault, in the vault or gone from it by a clear or by expiry; records are never
  forgotten, so what is printed or written later stays backed.
* `NothingClobbered` (`FillInv`): whoever fills the output file has found it absent and
  created it.
* `EgressSafe` (`EgressInv`): the file of the network policy, the changes under way and
  who has loaded which version. The hard case is a change that nobody disputes: it is
  the only one between load and save, so what it saves is the file plus its own request
  (`SaveInv`). Calls and runs act by what they loaded (`CallInv`, `RunInv`), and a
  connection of a run is dialled only by that (`GuardInv`).
* `SuccessIsRecorded` (`RecordInv`): a command on its way to the output has its record
  already. The proof showed that the property needs its exception for `trace clear`, which
  the scenarios of the run did not combine with a traced command at first.
* `NothingLeaksWhole` (`WholeInv`): rests on lemmas about the detectors, that the
  greedy selection of `resolve_overlaps` exists (`GreedyExists`) and every candidate is
  replaced or overlaps one that is (`DetectCovers`), and that a cut leaves nothing whole.
  What is only passed on, keys and strings, is marked as such and excepted. Values that only their
  place gives away stand in responses and credential fields of messages and nowhere else
  (`TextsAssumption`), and the margin of a cut is within the limit (`CutAssumption`).
* `CleanIsClean` (`CleanInv`): a walk that is not reported as incomplete cuts every path
  from the root, on the stack or at a file that was read; the parser of patches, which goes
  by the first character of a line, is where the counts of the headers say it is, or has an
  error, or cannot end without one (`Tracks`); its binary mark is the reader's or a stale
  one (`Agrees`), so that only the two exceptions of the property get lost. Trees are finite graphs with a root, limits are
  naturals (`InspectAssumption`); they need not be acyclic, since depth is limited.

Only model-checked. Liveness (`LockReleased`, `Returns`, `InterruptEnds`, `Drains`,
`CommandsEnd`), since fairness and `ENABLED` are out of the prover's reach. The violated
properties of section 5 are refuted, not proved.

## 7. Not modelled

* Cryptography, file modes and symlink checks beyond their failing.
* The regular expressions of the detectors, and text as characters: a finding is a span.
* The contents of audit and trace records beyond what a property compares; printing.
* The subcommands init, doctor, exec, policy, proxy, plugin, container and boundary as
  processes of `Cli`: they print, write a template, or hand over to a component that has a
  module of its own.
* Boundary relays: they copy bytes and poll a bounded number of times; no decision is
  theirs. Plugins: manifests and probes, which go through `execute`. Configuration, agent
  adapters, host credentials, core types: reading and formatting without state. SDKs: they
  call the command line.
* A resolver that lets the MCP transform restore values (the command line has none), and
  scanning with symbolic links followed (it never asks for it).
