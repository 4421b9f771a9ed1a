------------------------------ MODULE Project ------------------------------
(***************************************************************************)
(* What the commands of the blindfold command line share: the files under  *)
(* .blindfold of one project, the output file the user names, what each    *)
(* process has printed, and how a command ends.                            *)
(*                                                                         *)
(* Every process runs one command, step by step.  The vault is what        *)
(* AtomicVault promises of it (a store or a clear is one step); the audit  *)
(* log and the trace store are sets of entries, whose order and rotation   *)
(* are RotatingLog's subject.                                              *)
(***************************************************************************)
EXTENDS Detection, Sequences

CONSTANTS
    Proc,        \* the processes
    Scenarios    \* functions from Proc to the command a process runs

VARIABLES
    cmd,      \* the command line of each process
    pc,       \* the next step of each process
    loc,      \* the local variables of each process
    exit,     \* its exit code
    vault,    \* the references in .blindfold/vault.bin
    cleared,  \* the references `vault clear` removed or a store dropped as expired (history)
    audit,    \* the events in .blindfold/audit.jsonl
    traces,   \* the records in .blindfold/trace.jsonl
    netpol,   \* .blindfold/network-policy.json
    out,      \* the output file of mask and redact
    shown,    \* what each process wrote to its standard output and error
    ack       \* what the user was told about the network policy (history)

store == <<vault, cleared, audit>>
net == <<netpol, ack>>
vars == <<cmd, pc, loc, exit, vault, cleared, audit, traces, netpol, out, shown, ack>>

Running == -1
Killed == -2
Success == 0
Failure == 1
FoundSecrets == 2
Incomplete == 3

NoFile == [state |-> "absent", by |-> 0, image |-> Image({}, {})]
Prior == [state |-> "prior", by |-> 0, image |-> Image({}, {})]
EmptyPolicy == [allow |-> {}, deny |-> {}]

Init ==
    /\ cmd \in Scenarios
    /\ pc = [p \in Proc |-> IF cmd[p].name = "none" THEN "done" ELSE "start"]
    /\ loc = [p \in Proc |-> [code |-> Success]]
    /\ exit = [p \in Proc |-> Running]
    /\ vault = {} /\ cleared = {} /\ audit = {} /\ traces = {}
    /\ netpol = EmptyPolicy
    /\ out \in {NoFile, Prior}
    /\ out = Prior => \E p \in Proc : cmd[p].name \in {"mask", "redact"} /\ cmd[p].to = "file"
    /\ shown = [p \in Proc |-> {}]
    /\ ack = [standing |-> {}, asked |-> {}, busy |-> {}, disputed |-> {}]

-----------------------------------------------------------------------------
At(p, name, label) == cmd[p].name = name /\ pc[p] = label
Goto(p, label) == pc' = [pc EXCEPT ![p] = label] /\ UNCHANGED exit
Set(p, local) == loc' = [loc EXCEPT ![p] = local]
Show(p, image) == shown' = [shown EXCEPT ![p] = @ \cup {image}]

Exit(p, code) ==
    /\ pc' = [pc EXCEPT ![p] = "done"]
    /\ exit' = [exit EXCEPT ![p] = code]

\* fail: nothing else happens on this path.
Fail(p) == Exit(p, Failure) /\ UNCHANGED <<loc, store, traces, net, out, shown>>

\* The commands run dispatches through traced_command: with --trace the exit code waits for the record.
Traced == {"allow", "deny", "status", "diff-check", "vault", "audit", "mcp"}
Finish(p, code) ==
    IF cmd[p].trace /\ cmd[p].name \in Traced
    THEN /\ pc' = [pc EXCEPT ![p] = "trace"]
         /\ Set(p, [code |-> code])
         /\ UNCHANGED exit
    ELSE Exit(p, code) /\ UNCHANGED loc

\* fail inside such a command.
Refuse(p) == Finish(p, Failure) /\ UNCHANGED <<store, traces, net, out, shown>>

\* append_trace_to_store with a record of this process.
AppendTrace(p, route, coverage, outcome, issue, swaps) ==
    traces' = traces \cup {[by |-> p, route |-> route, coverage |-> coverage, outcome |-> outcome,
                            issue |-> issue, swaps |-> swaps]}

\* The replacements of a record: one per category and field, with its count.
Replacements(found) ==
    LET groups == {<<f.kind, f.env>> : f \in found}
    IN  {[category |-> g[1], pointer |-> g[2],
          count |-> Cardinality({f \in found : <<f.kind, f.env>> = g})] : g \in groups}

\* The end of traced_command: a record that cannot be written turns any exit code into a failure.
TracedCommand(p) ==
    /\ cmd[p].name \in Traced /\ pc[p] = "trace"
    /\ \/ /\ AppendTrace(p, cmd[p].name, "Protected", "Observed", "none", {})
          /\ Exit(p, loc[p].code)
          /\ UNCHANGED <<loc, store, net, out, shown>>
       \/ Fail(p)

\* The process is killed between two steps: what it wrote stays.
Kill(p) ==
    /\ pc[p] # "done"
    /\ Exit(p, Killed)
    /\ ack' = [ack EXCEPT !.busy = @ \ {p}]
    /\ UNCHANGED <<loc, store, traces, netpol, out, shown>>

=============================================================================
