---------------------------- MODULE MaskCommands ----------------------------
(***************************************************************************)
(* blindfold mask, redact, vault, audit and trace: the commands that move  *)
(* values into the vault, write transformed text and read the two logs.    *)
(***************************************************************************)
EXTENDS Project

\* mask_safe_ref_kind
MaskSafeRefKind(kind) ==
    IF kind \in {"EmailAddress", "PhoneNumber"} THEN "PersonallyIdentifiableInformation"
    ELSE IF kind = "PemPrivateKey" THEN "PrivateKey" ELSE "Secret"

\* A reference is fresh: no other process and no other value has it.
Ref(p, kind, raw) == [by |-> p, kind |-> kind, raw |-> raw]
RefSwap(f, ref) == [at |-> f, by |-> [form |-> "ref", id |-> ref]]
RefsIn(image) == {swap.by.id : swap \in {s \in image.swaps : s.by.form = "ref"}}
Printed(p, refs) ==
    [Image({}, {[at |-> [from |-> 0, to |-> 0], by |-> [form |-> "ref", id |-> r]] : r \in refs}) EXCEPT !.end = 0]

First(found) == CHOOSE f \in found : \A g \in found : f.from <= g.from

-----------------------------------------------------------------------------
\* write_transformed_output and the standard output of mask and redact.  With --force the new
\* content is renamed over whatever is there; without it the file must not exist, and is visible
\* empty before it is filled.  A failed write leaves part of the transformed text.
WriteStdout(p, image) ==
    /\ cmd[p].to = "stdout"
    /\ \E code \in {Success, Failure} : Exit(p, code)
    /\ Show(p, image)
    /\ UNCHANGED <<loc, store, traces, net, out>>

ReplaceOutput(p, image) ==
    /\ cmd[p].to = "file" /\ cmd[p].force
    /\ out' = [state |-> "whole", by |-> p, image |-> image]
    /\ Exit(p, Success)
    /\ UNCHANGED <<loc, store, traces, net, shown>>

\* Mutant of CreateOutput: the file is opened for writing whether it exists or not.
CreateOrTruncateOutput(p, image) ==
    /\ cmd[p].to = "file" /\ ~cmd[p].force
    /\ out' = [state |-> "empty", by |-> p, image |-> Image({}, {})]
    /\ Set(p, [image |-> image])
    /\ Goto(p, "fill")
    /\ UNCHANGED <<store, traces, net, shown>>

CreateOutput(p, image) ==
    /\ cmd[p].to = "file" /\ ~cmd[p].force
    /\ out.state = "absent"
    /\ out' = [state |-> "empty", by |-> p, image |-> Image({}, {})]
    /\ Set(p, [image |-> image])
    /\ Goto(p, "fill")
    /\ UNCHANGED <<store, traces, net, shown>>

\* AlreadyExists, or the file could not be created or replaced.
OutputFails(p) == cmd[p].to = "file" /\ Fail(p)

WriteTransformedOutput(p, image) ==
    WriteStdout(p, image) \/ ReplaceOutput(p, image) \/ CreateOutput(p, image) \/ OutputFails(p)

\* write_all and sync_all on the file this process created.  If --force of another process has
\* replaced the name meanwhile, the bytes go to a file without a name.
FillOutput(p) ==
    /\ pc[p] = "fill"
    /\ \E state \in {"whole", "part"} :
          /\ out' = IF out.by = p THEN [state |-> state, by |-> p, image |-> loc[p].image] ELSE out
          /\ Exit(p, IF state = "whole" THEN Success ELSE Failure)
    /\ UNCHANGED <<loc, store, traces, net, shown>>

\* append_transform_trace, before anything is written.
TransformTrace(p, found) ==
    /\ pc[p] = "transformed"
    /\ \/ /\ ~cmd[p].trace
          /\ UNCHANGED traces
          /\ Goto(p, "write") /\ UNCHANGED <<loc, store, net, out, shown>>
       \/ /\ cmd[p].trace
          /\ \/ /\ AppendTrace(p, cmd[p].name, "Protected", "Observed", "none", Replacements(found))
                /\ Goto(p, "write") /\ UNCHANGED <<loc, store, net, out, shown>>
             \/ Fail(p)

-----------------------------------------------------------------------------
\* mask_command: the check of the output file before anything is read.
MaskCheckOutput(p) ==
    /\ At(p, "mask", "start")
    /\ \/ /\ cmd[p].to = "file" /\ ~cmd[p].force => out.state = "absent"
          /\ Goto(p, "input") /\ UNCHANGED <<loc, store, traces, net, out, shown>>
       \/ cmd[p].to = "file" /\ ~cmd[p].force /\ Fail(p)

\* read_text_input, detect, validate_finding_spans, open_vault, decode_key and project_scope.
MaskPrepare(p) ==
    /\ At(p, "mask", "input")
    /\ \/ /\ Set(p, [todo |-> Detect(cmd[p].text), swaps |-> {}])
          /\ Goto(p, "store") /\ UNCHANGED <<store, traces, net, out, shown>>
       \/ Fail(p)

\* Mutant of Known: a reference is reused for the same bytes whatever their kind.
KnownBytes(p, f) == {r \in RefsIn(loc[p]) : r.raw = f.raw}

\* The references mask_findings has for this kind and these bytes.
Known(p, f) == {r \in RefsIn(loc[p]) : r.kind = MaskSafeRefKind(f.kind) /\ r.raw = f.raw}

\* Vault::store, which also drops the records that have expired, whoever stored them.
StoreRecord(ref) ==
    \E expired \in SUBSET vault :
        /\ vault' = (vault \ expired) \cup {ref}
        /\ cleared' = cleared \cup expired

\* mask_findings, one finding: a store that fails may have left its record.
MaskStore(p) ==
    LET f == First(loc[p].todo)
        ref == IF Known(p, f) # {} THEN CHOOSE r \in Known(p, f) : TRUE
               ELSE Ref(p, MaskSafeRefKind(f.kind), f.raw)
    IN  /\ At(p, "mask", "store") /\ loc[p].todo # {}
        /\ \/ /\ IF Known(p, f) # {} THEN UNCHANGED <<vault, cleared>> ELSE StoreRecord(ref)
              /\ Set(p, [todo |-> loc[p].todo \ {f}, swaps |-> loc[p].swaps \cup {RefSwap(f, ref)}])
              /\ Goto(p, "store") /\ UNCHANGED <<audit, traces, net, out, shown>>
           \/ /\ Known(p, f) = {}
              /\ StoreRecord(ref) \/ UNCHANGED <<vault, cleared>>
              /\ Exit(p, Failure)
              /\ UNCHANGED <<loc, audit, traces, net, out, shown>>

Masked(p) ==
    /\ At(p, "mask", "store") /\ loc[p].todo = {}
    /\ Set(p, [image |-> Image(cmd[p].text, loc[p].swaps)])
    /\ Goto(p, "audit") /\ UNCHANGED <<store, traces, net, out, shown>>

StoreEvent(ref) == [action |-> "Store", ref |-> ref]

\* The replacements whose reference has no event yet.
Unaudited(p) == {s \in loc[p].image.swaps : StoreEvent(s.by.id) \notin audit}

\* append_store_audit: one event after the other, and a failure ends the command.
MaskAudit(p) ==
    /\ At(p, "mask", "audit")
    /\ \/ /\ Unaudited(p) = {}
          /\ Goto(p, "transformed") /\ UNCHANGED <<loc, store, traces, net, out, shown>>
       \/ \E next \in Unaudited(p) :
             /\ \A s \in Unaudited(p) : next.at.from <= s.at.from
             /\ audit' = audit \cup {StoreEvent(next.by.id)}
             /\ UNCHANGED <<pc, exit, loc, vault, cleared, traces, net, out, shown>>
       \/ Unaudited(p) # {} /\ Fail(p)

Mask(p) ==
    \/ MaskCheckOutput(p) \/ MaskPrepare(p) \/ MaskStore(p) \/ Masked(p) \/ MaskAudit(p)
    \/ cmd[p].name = "mask" /\ TransformTrace(p, Detect(cmd[p].text))
    \/ At(p, "mask", "write") /\ WriteTransformedOutput(p, loc[p].image)
    \/ cmd[p].name = "mask" /\ FillOutput(p)

-----------------------------------------------------------------------------
\* redact_command up to the transformed text; the key of the surrogates may be unavailable.
RedactText(p) ==
    /\ At(p, "redact", "start")
    /\ \/ /\ ~Blocked(cmd[p].text, cmd[p].mode)
          /\ Set(p, [image |-> Redact(cmd[p].text, cmd[p].mode)])
          /\ Goto(p, "transformed") /\ UNCHANGED <<store, traces, net, out, shown>>
       \/ Fail(p)

RedactCommand(p) ==
    \/ RedactText(p)
    \/ cmd[p].name = "redact" /\ TransformTrace(p, Detect(cmd[p].text))
    \/ At(p, "redact", "write") /\ WriteTransformedOutput(p, loc[p].image)
    \/ cmd[p].name = "redact" /\ FillOutput(p)

-----------------------------------------------------------------------------
\* vault put-env: the reference is printed as soon as it is stored.
PutEnv(p) ==
    LET ref == Ref(p, "Environment", cmd[p].raw)
    IN  /\ At(p, "vault", "start") /\ cmd[p].sub = "put-env"
        /\ \/ /\ StoreRecord(ref)
              /\ Show(p, Printed(p, {ref}))
              /\ Set(p, [event |-> StoreEvent(ref)])
              /\ Goto(p, "audit") /\ UNCHANGED <<audit, traces, net, out>>
           \/ /\ StoreRecord(ref) \/ UNCHANGED <<vault, cleared>>
              /\ Finish(p, Failure)
              /\ UNCHANGED <<audit, traces, net, out, shown>>

\* vault clear --yes removes every record of the scope of this directory, and may have done so
\* when it reports a failure.
ClearVault(p) ==
    /\ At(p, "vault", "start") /\ cmd[p].sub = "clear"
    /\ \/ /\ cmd[p].yes
          /\ vault' = {} /\ cleared' = cleared \cup vault
          /\ Set(p, [event |-> [action |-> "Clear", ref |-> Ref(p, "none", 0)]])
          /\ Goto(p, "audit") /\ UNCHANGED <<audit, traces, net, out, shown>>
       \/ /\ cmd[p].yes
          /\ vault' = {} /\ cleared' = cleared \cup vault
          /\ Finish(p, Failure)
          /\ UNCHANGED <<audit, traces, net, out, shown>>
       \/ Refuse(p)

\* append_audit: what cannot be written is dropped without a word.
BestEffortAudit(p) ==
    /\ At(p, "vault", "audit")
    /\ audit' \in {audit, audit \cup {loc[p].event}}
    /\ Finish(p, Success)
    /\ UNCHANGED <<vault, cleared, traces, net, out, shown>>

\* vault list passes over the records that have expired.
ListVault(p) ==
    /\ At(p, "vault", "start") /\ cmd[p].sub = "list"
    /\ \/ /\ \E unexpired \in SUBSET vault : Show(p, Printed(p, unexpired))
          /\ Finish(p, Success)
          /\ UNCHANGED <<store, traces, net, out>>
       \/ Refuse(p)

VaultCommand(p) == PutEnv(p) \/ ClearVault(p) \/ BestEffortAudit(p) \/ ListVault(p)

-----------------------------------------------------------------------------
AuditCommand(p) ==
    /\ At(p, "audit", "start")
    /\ \/ Finish(p, Success) /\ UNCHANGED <<store, traces, net, out, shown>>
       \/ Refuse(p)

\* trace list, tail, show and export read everything; clear needs --yes.
TraceCommand(p) ==
    /\ At(p, "trace", "start")
    /\ \/ /\ cmd[p].sub = "clear" /\ cmd[p].yes
          /\ traces' = {}
          /\ Exit(p, Success)
          /\ UNCHANGED <<loc, store, net, out, shown>>
       \/ /\ cmd[p].sub = "list" \/ (cmd[p].sub = "tail" /\ traces # {})
          /\ Exit(p, Success)
          /\ UNCHANGED <<loc, store, traces, net, out, shown>>
       \/ Fail(p)

=============================================================================
