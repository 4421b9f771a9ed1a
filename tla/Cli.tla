-------------------------------- MODULE Cli --------------------------------
(***************************************************************************)
(* The blindfold command line: processes that run one command each over    *)
(* the files of one project, in any interleaving, and may be killed        *)
(* between any two steps.                                                  *)
(***************************************************************************)
EXTENDS MaskCommands, ManagedRun, InspectCommands

NoneExact(text) == \A s \in text : s.form # "exact"

\* What the commands are handed: texts, and only a response or a credential field of a message
\* has values that its place alone gives away.
ASSUME TextsAssumption ==
    /\ \A scenario \in Scenarios : \A p \in Proc :
          /\ scenario[p].name \in {"mask", "redact"} => IsText(scenario[p].text) /\ NoneExact(scenario[p].text)
          /\ scenario[p].name = "run" =>
                \A s \in Stream : IsText(scenario[p].output[s].text) /\ NoneExact(scenario[p].output[s].text)
          /\ scenario[p].name = "scan" => IsTree(scenario[p].tree)
          /\ scenario[p].name = "mcp" => scenario[p].direction \in {"to-agent", "to-server"}
    /\ \A response \in Responses : IsText(response.text)
    /\ \A m \in Messages :
          /\ m.form = "blank" => m.strings = {} /\ m.keys = {}
          /\ \A key \in m.keys : IsText(key)
          /\ \A s \in m.strings :
                IsText(s.text) /\ (s.is = "empty" => s.text = {}) /\ (~s.sensitive => NoneExact(s.text))

\* The output is cut within its limit.
ASSUME CutAssumption == OutputLimit \in Nat /\ CutMargin \in 0 .. OutputLimit

Command(p) ==
    \/ Mask(p) \/ RedactCommand(p) \/ VaultCommand(p) \/ AuditCommand(p) \/ TraceCommand(p)
    \/ LoadProjectPolicy(p) \/ SaveProjectPolicy(p) \/ StatusCommand(p) \/ CallCommand(p)
    \/ RunCommand(p) \/ ScanCommand(p) \/ DiffCommand(p) \/ McpCommand(p)
    \/ TracedCommand(p)

\* Every process has ended.
Ended == (\A p \in Proc : pc[p] = "done") /\ UNCHANGED vars

Next ==
    \/ \E p \in Proc : (Command(p) \/ RunEnvironment(p) \/ Kill(p)) /\ UNCHANGED cmd
    \/ Ended

Spec == Init /\ [][Next]_vars

\* A process is scheduled, and the proxy answers or gives up what is in flight: Proxy!Drains shows
\* it of every connection that is not held for ever by its client (a head that is never finished,
\* an answer that is never read) or by a WebSocket handshake, which no timeout covers (proxy.rs).
\* Those are assumed to end here.  Beyond that the agent and its descendants owe nothing.
FairSpec ==
    /\ Spec
    /\ \A p \in Proc : WF_vars(Command(p) /\ UNCHANGED cmd) /\ WF_vars(ProxyAnswers(p) /\ UNCHANGED cmd)

-----------------------------------------------------------------------------
\* What a text holds that must not leave the command: the findings, and what only its place gives
\* away.  Towards the agent mcp goes by the detectors alone, whatever the field is called.
Sensitive(p, text) ==
    Candidates(text) \cup
        {s \in text : s.form = "exact" /\ ~(cmd[p].name = "mcp" /\ cmd[p].direction = "to-agent")}

Images(p) == shown[p] \cup IF out.by = p THEN {out.image} ELSE {}

\* No value that a detector reports, no injected secret and no plain value of a credential field
\* stands whole in anything a command writes: of two overlapping findings the loser may keep an
\* end (overlap.rs), of a value across the cut of an agent's output the front may be seen
\* (write_sanitized_agent_output), but none is there in full.  Exempt is what mcp only passes on:
\* what it sends to a server outside the arguments of a tool call, and the object keys of every
\* message in both directions, which sanitize_value and restore_value leave alone.
NothingWhole ==
    \A p \in Proc : \A image \in {i \in Images(p) : ~i.passed} : \A f \in Sensitive(p, image.text) : ~Survives(f, image)

\* Every reference a command printed or wrote is the vault's reference for the very bytes and kind
\* it stands for, unless `vault clear` removed it since or it expired; mask_command hands none out that has no
\* audit event, and no event names a reference that was never stored: through failed stores,
\* failed audits, a concurrent clear and a kill at any point.
RefsBacked ==
    /\ \A p \in Proc : \A image \in Images(p) : \A swap \in image.swaps :
          swap.by.form = "ref" =>
             /\ swap.by.id \in vault \cup cleared
             /\ cmd[p].name = "mask" =>
                   /\ StoreEvent(swap.by.id) \in audit
                   /\ swap.by.id.raw = swap.at.raw
                   /\ swap.by.id.kind = MaskSafeRefKind(swap.at.kind)
    /\ \A e \in audit : e.action = "Store" => e.ref \in vault \cup cleared

\* Without --force mask and redact touch no file that was there before them, even one that appears
\* between the check and the write; with it the old content gives way to the whole new one.
NeverClobbers ==
    [][out' # out =>
          \/ out.state = "absent" /\ out'.state = "empty"
          \/ cmd[out'.by].force /\ out'.state = "whole"
          \/ out.state = "empty" /\ out'.by = out.by]_vars

\* A host is reached by a call or through the egress guard only if it is no model provider's, a
\* default or an `allow` the user issued covers it, and no `deny` that stood when the policy was
\* read covers it; and an acknowledged deny stands in the file until an allow takes it back or
\* two changes overlap.
EgressJustified ==
    /\ ack.standing \subseteq netpol.deny
    /\ netpol.allow \cap netpol.deny = {}
    /\ \A p \in Proc : cmd[p].name \in {"call", "run"} /\ "reached" \in DOMAIN loc[p] =>
          \A host \in loc[p].reached :
             /\ ~Covered(host, Providers)
             /\ Covered(host, DefaultAllowed \cup ack.asked)
             /\ ~Covered(host, loc[p].standing)

\* A path of directories that are not ignored, from the root down.
Leads(tree, depth, path) ==
    /\ path[0] = 1
    /\ \A n \in 1 .. depth :
          tree[path[n - 1]].kind = "dir" /\ ~tree[path[n - 1]].ignored /\ path[n] \in Children(tree[path[n - 1]])

\* The files such a path leads to, down to the depth limit.
InScope(tree) ==
    {f \in DOMAIN tree :
        /\ tree[f].kind = "file" /\ ~tree[f].ignored
        /\ \E depth \in 0 .. MaxDepth : \E path \in [0 .. depth -> DOMAIN tree] :
              path[depth] = f /\ Leads(tree, depth, path)}

\* Exit code 0 of scan means that no text file it was to look at, within the depth limit, holds a
\* finding, whatever grew, failed or hit a limit on the way; exit code 0 of diff-check means that
\* no added line in a hunk of a text file does, in whatever order the lines of the patch come and
\* wherever it is cut off.  Exempt are the two places where parse_patch loses such a line: a
\* combined hunk (@@@, of a merge), and a file whose --- or +++ header follows a binary mark
\* without a diff --git line between them.
CleanMeansClean ==
    \A p \in Proc : exit[p] = Success =>
        /\ cmd[p].name = "scan" =>
              \A n \in InScope(cmd[p].tree) : ~cmd[p].tree[n].binary => Candidates(cmd[p].tree[n].text) = {}
        /\ cmd[p].name = "diff-check" /\ "reader" \in DOMAIN loc[p] =>
              loc[p].reader.dirty \subseteq {"combined", "stale"}

\* `blindfold trace clear` has emptied the store.
TracesCleared == \E q \in Proc : cmd[q].name = "trace" /\ cmd[q].sub = "clear" /\ exit[q] = Success

\* With --trace an exit code other than a failure means that the record is in the store, unless
\* `trace clear` was run beside it, and for a run also that of every tunnel the guard had opened
\* when the sink was asked.
SuccessRecorded ==
    /\ \A p \in Proc : exit[p] \in {Success, FoundSecrets, Incomplete} /\ cmd[p].trace /\ cmd[p].name # "trace" =>
          TracesCleared \/ \E t \in traces : t.by = p /\ t.route = cmd[p].name
    /\ \A p \in Proc : cmd[p].name = "run" /\ exit[p] = Success /\ cmd[p].trace =>
          \A c \in loc[p].vouched : loc[p].conn[c].traced

\* From here on nobody but blindfold itself is waited for.
Settled(p) ==
    cmd[p].name = "run" =>
        \/ pc[p] = "wait" /\ loc[p].agent = "gone" /\ ReadersDone(p)
        \/ pc[p] \in {"abandon", "cancel", "drain", "session"}
\* A run ends once its agent has and each of the agent's two streams has lost its last writer or is
\* over the limit: one stream over it does not spare the run a descendant that holds the other.  A
\* run that is given up ends too, and so does every other command.  (What the proxy may have to
\* wait for is assumed to end, see FairSpec.)
CommandsEnd == \A p \in Proc : Settled(p) ~> pc[p] = "done"

=============================================================================
