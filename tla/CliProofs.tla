------------------------------ MODULE CliProofs ------------------------------
(***************************************************************************)
(* Theorems about the command line for any number of processes and any     *)
(* commands they run.                                                      *)
(***************************************************************************)
EXTENDS Cli, FiniteSetTheorems, TLAPS

-----------------------------------------------------------------------------
(* What a command may change *)

FrameInv == DOMAIN pc = Proc /\ DOMAIN loc = Proc /\ DOMAIN exit = Proc /\ DOMAIN shown = Proc

\* A step of process p leaves the other processes alone.
Solo(p) ==
    /\ FrameInv' /\ cmd' = cmd
    /\ \A q \in Proc : q # p => pc'[q] = pc[q] /\ loc'[q] = loc[q] /\ exit'[q] = exit[q] /\ shown'[q] = shown[q]

\* The ways in which a step sets the variables of its process.
LEMMA SetIs ==
    ASSUME FrameInv, NEW p \in Proc, NEW v, Set(p, v)
    PROVE  DOMAIN loc' = Proc /\ loc'[p] = v /\ \A q \in Proc : q # p => loc'[q] = loc[q]
  BY DEF FrameInv, Set

\* Goto moves the process to a label.
LEMMA GotoIs ==
    ASSUME FrameInv, NEW p \in Proc, NEW label, Goto(p, label)
    PROVE  /\ DOMAIN pc' = Proc /\ pc'[p] = label /\ (\A q \in Proc : q # p => pc'[q] = pc[q])
           /\ exit' = exit
  BY DEF FrameInv, Goto

\* Exit ends the process with a code.
LEMMA ExitIs ==
    ASSUME FrameInv, NEW p \in Proc, NEW code, Exit(p, code)
    PROVE  /\ DOMAIN pc' = Proc /\ pc'[p] = "done" /\ (\A q \in Proc : q # p => pc'[q] = pc[q])
           /\ DOMAIN exit' = Proc /\ exit'[p] = code /\ (\A q \in Proc : q # p => exit'[q] = exit[q])
  BY DEF FrameInv, Exit

\* Show adds one image to what the process printed.
LEMMA ShowIs ==
    ASSUME FrameInv, NEW p \in Proc, NEW image, Show(p, image)
    PROVE  /\ DOMAIN shown' = Proc /\ shown'[p] = shown[p] \cup {image}
           /\ \A q \in Proc : q # p => shown'[q] = shown[q]
  BY DEF FrameInv, Show

\* finish_traced_command: a traced command goes on to its trace with the code, another one ends.
LEMMA FinishIs ==
    ASSUME FrameInv, NEW p \in Proc, NEW code, Finish(p, code)
    PROVE  /\ DOMAIN pc' = Proc /\ (\A q \in Proc : q # p => pc'[q] = pc[q])
           /\ DOMAIN exit' = Proc /\ (\A q \in Proc : q # p => exit'[q] = exit[q])
           /\ DOMAIN loc' = Proc /\ (\A q \in Proc : q # p => loc'[q] = loc[q])
           /\ \/ /\ cmd[p].trace /\ cmd[p].name \in Traced
                 /\ pc'[p] = "trace" /\ exit' = exit /\ loc'[p] = [code |-> code]
              \/ /\ ~(cmd[p].trace /\ cmd[p].name \in Traced)
                 /\ pc'[p] = "done" /\ exit'[p] = code /\ loc' = loc
  BY SetIs, ExitIs DEF FrameInv, Finish

\* Whichever way it goes, Finish moves its own process only.
LEMMA FinishFrame ==
    ASSUME FrameInv, NEW p \in Proc, NEW code, Finish(p, code)
    PROVE  /\ DOMAIN pc' = Proc /\ (\A q \in Proc : q # p => pc'[q] = pc[q])
           /\ DOMAIN exit' = Proc /\ (\A q \in Proc : q # p => exit'[q] = exit[q])
           /\ DOMAIN loc' = Proc /\ (\A q \in Proc : q # p => loc'[q] = loc[q])
           /\ pc'[p] \in {"trace", "done"}
  BY FinishIs

\* So a step that only finishes is one process's.
LEMMA FinishSolo ==
    ASSUME FrameInv, NEW p \in Proc, NEW code, Finish(p, code), UNCHANGED <<cmd, shown>>
    PROVE  Solo(p)
  <1>1. /\ DOMAIN pc' = Proc /\ DOMAIN exit' = Proc /\ DOMAIN loc' = Proc
        /\ \A q \in Proc : q # p => pc'[q] = pc[q] /\ exit'[q] = exit[q] /\ loc'[q] = loc[q]
    BY FinishFrame
  <1> QED BY <1>1 DEF FrameInv, Solo

\* A refusal and a failure change nothing but how the process goes on.
LEMMA RefuseSolo ==
    ASSUME FrameInv, NEW p \in Proc, Refuse(p), UNCHANGED cmd
    PROVE  Solo(p) /\ UNCHANGED <<store, traces, net, out, shown>>
  BY FinishSolo DEF Refuse

\* A failure ends the process where it is.
LEMMA FailSolo ==
    ASSUME FrameInv, NEW p \in Proc, Fail(p), UNCHANGED cmd
    PROVE  Solo(p) /\ UNCHANGED <<loc, store, traces, net, out, shown>>
  BY ExitIs DEF Fail, Solo, FrameInv

\* What scan changes: its own walk, and the traces.
LEMMA ScanFoot ==
    ASSUME FrameInv, NEW p \in Proc, ScanCommand(p), UNCHANGED cmd
    PROVE  Solo(p) /\ UNCHANGED <<store, net, out, shown>>
  <1> USE SetIs, GotoIs, ExitIs DEF FrameInv, Solo, Fail
  <1>1. CASE ScanBegins(p)
    BY <1>1 DEF ScanBegins, Fail
  <1>2. CASE ScanSkips(p)
    BY <1>2 DEF ScanSkips, Walk
  <1>3. CASE ScanIoError(p)
    BY <1>3 DEF ScanIoError, Walk
  <1>4. CASE ScanDescends(p)
    <2>1. \E v : Walk(p, v)
      BY <1>4, Zenon DEF ScanDescends
    <2> QED BY <2>1 DEF Walk
  <1>5. CASE ScanReads(p)
    BY <1>5 DEF ScanReads, Walk
  <1>6. CASE ScanReports(p)
    BY <1>6 DEF ScanReports, Fail
  <1> QED BY <1>1, <1>2, <1>3, <1>4, <1>5, <1>6 DEF ScanCommand

\* What diff-check changes: its own parser.
LEMMA DiffFoot ==
    ASSUME FrameInv, NEW p \in Proc, DiffCommand(p), UNCHANGED cmd
    PROVE  Solo(p) /\ UNCHANGED <<store, traces, net, out, shown>>
  <1>1. CASE DiffBegins(p)
    BY <1>1, SetIs, GotoIs, RefuseSolo DEF DiffBegins, FrameInv, Solo
  <1>2. CASE DiffReads(p)
    BY <1>2, SetIs DEF DiffReads, FrameInv, Solo
  <1>3. CASE DiffEnds(p)
    BY <1>3, SetIs, GotoIs DEF DiffEnds, FrameInv, Solo
  <1>4. CASE DiffReports(p)
    BY <1>4, FinishSolo, RefuseSolo DEF DiffReports
  <1> QED BY <1>1, <1>2, <1>3, <1>4 DEF DiffCommand

\* What mcp changes: its own stream, and what it prints.
LEMMA McpFoot ==
    ASSUME FrameInv, NEW p \in Proc, McpCommand(p), UNCHANGED cmd
    PROVE  Solo(p) /\ UNCHANGED <<store, traces, net, out>>
  <1>1. CASE McpBegins(p)
    BY <1>1, SetIs, GotoIs DEF McpBegins, FrameInv, Solo
  <1>2. CASE McpReads(p)
    <2>1. Refuse(p) \/ \E v, w : /\ shown' = [shown EXCEPT ![p] = w] /\ Set(p, v)
                                 /\ UNCHANGED <<pc, exit, store, traces, net, out>>
      BY <1>2 DEF McpReads
    <2> QED BY <2>1, SetIs, RefuseSolo DEF FrameInv, Solo
  <1>3. CASE McpEnds(p)
    BY <1>3, FinishSolo DEF McpEnds
  <1> QED BY <1>1, <1>2, <1>3 DEF McpCommand

\* audit and status change nothing.
LEMMA SmallFoot ==
    ASSUME FrameInv, NEW p \in Proc, AuditCommand(p) \/ StatusCommand(p), UNCHANGED cmd
    PROVE  Solo(p) /\ UNCHANGED <<store, traces, net, out, shown>>
  BY FinishSolo, RefuseSolo DEF AuditCommand, StatusCommand

\* trace, and the trace of a finished command, change only the traces.
LEMMA TraceFoot ==
    ASSUME FrameInv, NEW p \in Proc, TraceCommand(p) \/ TracedCommand(p), UNCHANGED cmd
    PROVE  Solo(p) /\ UNCHANGED <<loc, store, net, out, shown>>
  <1>1. CASE TraceCommand(p)
    BY <1>1, ExitIs, FailSolo DEF TraceCommand, FrameInv, Solo
  <1>2. CASE TracedCommand(p)
    BY <1>2, ExitIs, FailSolo DEF TracedCommand, FrameInv, Solo
  <1> QED BY <1>1, <1>2

\* allow, deny and network change the policy file and what the user was told of it.
LEMMA PolicyFoot ==
    ASSUME FrameInv, NEW p \in Proc, LoadProjectPolicy(p) \/ SaveProjectPolicy(p), UNCHANGED cmd
    PROVE  Solo(p) /\ UNCHANGED <<store, traces, out, shown>>
  <1>1. CASE LoadProjectPolicy(p)
    BY <1>1, SetIs, GotoIs, RefuseSolo DEF LoadProjectPolicy, FrameInv, Solo
  <1>2. CASE SaveProjectPolicy(p)
    BY <1>2, FinishSolo DEF SaveProjectPolicy
  <1> QED BY <1>1, <1>2

\* A refused call writes a trace and ends.
LEMMA RejectSolo ==
    ASSUME FrameInv, NEW p \in Proc, NEW issue, RejectCall(p, issue), UNCHANGED cmd
    PROVE  Solo(p) /\ UNCHANGED <<loc, store, net, out, shown>>
  BY ExitIs DEF RejectCall, FrameInv, Solo

\* What call changes: its own exchange, what it prints, and the traces.
LEMMA CallFoot ==
    ASSUME FrameInv, NEW p \in Proc, CallCommand(p), UNCHANGED cmd
    PROVE  Solo(p) /\ UNCHANGED <<store, net, out>>
  <1>1. CASE CallPrepare(p)
    BY <1>1, GotoIs, FailSolo DEF CallPrepare, FrameInv, Solo
  <1>2. CASE CallBody(p)
    BY <1>2, GotoIs, RejectSolo DEF CallBody, FrameInv, Solo
  <1>3. CASE CallUrl(p)
    BY <1>3, SetIs, GotoIs, FailSolo, RejectSolo DEF CallUrl, FrameInv, Solo
  <1>4. CASE CallSend(p)
    BY <1>4, SetIs, GotoIs, ExitIs DEF CallSend, FrameInv, Solo
  <1>5. CASE CallFails(p)
    BY <1>5, SetIs, ExitIs DEF CallFails, FrameInv, Solo
  <1>6. CASE CallAnswered(p)
    BY <1>6, ShowIs, ExitIs, FailSolo DEF CallAnswered, FrameInv, Solo
  <1> QED BY <1>1, <1>2, <1>3, <1>4, <1>5, <1>6 DEF CallCommand

\* A killed process leaves the files as they are.
LEMMA KillFoot ==
    ASSUME FrameInv, NEW p \in Proc, Kill(p), UNCHANGED cmd
    PROVE  Solo(p) /\ UNCHANGED <<loc, store, traces, netpol, out, shown>>
  BY ExitIs DEF Kill, FrameInv, Solo

\* What writing the transformed text changes: the output file, or what is printed.
LEMMA OutputFoot ==
    ASSUME FrameInv, NEW p \in Proc, NEW image, WriteTransformedOutput(p, image) \/ FillOutput(p), UNCHANGED cmd
    PROVE  Solo(p) /\ UNCHANGED <<store, traces, net>>
  <1>1. CASE WriteStdout(p, image)
    BY <1>1, ExitIs, ShowIs DEF WriteStdout, FrameInv, Solo
  <1>2. CASE ReplaceOutput(p, image)
    BY <1>2, ExitIs DEF ReplaceOutput, FrameInv, Solo
  <1>3. CASE CreateOutput(p, image)
    BY <1>3, SetIs, GotoIs DEF CreateOutput, FrameInv, Solo
  <1>4. CASE OutputFails(p)
    BY <1>4, FailSolo DEF OutputFails
  <1>5. CASE FillOutput(p)
    BY <1>5, ExitIs DEF FillOutput, FrameInv, Solo
  <1> QED BY <1>1, <1>2, <1>3, <1>4, <1>5 DEF WriteTransformedOutput

\* The trace of a transformation changes the traces only.
LEMMA TransformFoot ==
    ASSUME FrameInv, NEW p \in Proc, NEW found, TransformTrace(p, found), UNCHANGED cmd
    PROVE  Solo(p) /\ UNCHANGED <<loc, store, net, out, shown>>
  BY GotoIs, FailSolo DEF TransformTrace, FrameInv, Solo

\* What mask changes: the vault, the audit log, the traces and the output.
LEMMA MaskFoot ==
    ASSUME FrameInv, NEW p \in Proc, Mask(p), UNCHANGED cmd
    PROVE  Solo(p) /\ UNCHANGED net
  <1>1. CASE MaskCheckOutput(p)
    BY <1>1, GotoIs, FailSolo DEF MaskCheckOutput, FrameInv, Solo, store
  <1>2. CASE MaskPrepare(p)
    BY <1>2, SetIs, GotoIs, FailSolo DEF MaskPrepare, FrameInv, Solo, store
  <1>3. CASE MaskStore(p)
    BY <1>3, SetIs, GotoIs, ExitIs DEF MaskStore, FrameInv, Solo
  <1>4. CASE Masked(p)
    BY <1>4, SetIs, GotoIs DEF Masked, FrameInv, Solo, store
  <1>5. CASE MaskAudit(p)
    BY <1>5, GotoIs, FailSolo DEF MaskAudit, FrameInv, Solo, store
  <1>6. CASE TransformTrace(p, Detect(cmd[p].text))
    BY <1>6, TransformFoot DEF store
  <1>7. CASE WriteTransformedOutput(p, loc[p].image) \/ FillOutput(p)
    BY <1>7, OutputFoot DEF store
  <1> QED BY <1>1, <1>2, <1>3, <1>4, <1>5, <1>6, <1>7 DEF Mask

\* What redact changes: the traces and the output.
LEMMA RedactFoot ==
    ASSUME FrameInv, NEW p \in Proc, RedactCommand(p), UNCHANGED cmd
    PROVE  Solo(p) /\ UNCHANGED <<store, net>>
  <1>1. CASE RedactText(p)
    BY <1>1, SetIs, GotoIs, FailSolo DEF RedactText, FrameInv, Solo
  <1>2. CASE TransformTrace(p, Detect(cmd[p].text))
    BY <1>2, TransformFoot
  <1>3. CASE WriteTransformedOutput(p, loc[p].image) \/ FillOutput(p)
    BY <1>3, OutputFoot
  <1> QED BY <1>1, <1>2, <1>3 DEF RedactCommand

\* What vault changes: the vault, the audit log and what it prints.
LEMMA VaultFoot ==
    ASSUME FrameInv, NEW p \in Proc, VaultCommand(p), UNCHANGED cmd
    PROVE  Solo(p) /\ UNCHANGED <<traces, net, out>>
  <1>1. CASE PutEnv(p)
    BY <1>1, SetIs, GotoIs, ShowIs, FinishSolo DEF PutEnv, FrameInv, Solo
  <1>2. CASE ClearVault(p)
    BY <1>2, SetIs, GotoIs, FinishSolo, RefuseSolo DEF ClearVault, FrameInv, Solo
  <1>3. CASE BestEffortAudit(p)
    BY <1>3, FinishSolo DEF BestEffortAudit
  <1>4. CASE ListVault(p)
    BY <1>4, ShowIs, FinishFrame, RefuseSolo DEF ListVault, FrameInv, Solo
  <1> QED BY <1>1, <1>2, <1>3, <1>4 DEF VaultCommand

\* The steps of a managed run by which only its own record changes.
LEMMA UpdSolo ==
    ASSUME FrameInv, NEW p \in Proc, NEW v, Upd(p, v), UNCHANGED cmd
    PROVE  Solo(p) /\ loc'[p] = v /\ UNCHANGED <<pc, exit, store, traces, net, out, shown>>
  BY SetIs DEF Upd, FrameInv, Solo

\* The steps of a managed run by which it also moves on.
LEMMA StepSolo ==
    ASSUME FrameInv, NEW p \in Proc, NEW v, NEW label, Step(p, v, label), UNCHANGED cmd
    PROVE  /\ Solo(p) /\ loc'[p] = v /\ pc'[p] = label
           /\ UNCHANGED <<exit, store, traces, net, out, shown>>
  BY SetIs, GotoIs DEF Step, FrameInv, Solo

\* A connection's record in the traces is one process's as well.
LEMMA EmitSolo ==
    ASSUME FrameInv, NEW p \in Proc, NEW c, NEW state, NEW outcome, NEW issue, NEW reached,
           EmitEgressTrace(p, c, state, outcome, issue, reached), UNCHANGED <<cmd, pc, exit, shown>>
    PROVE  Solo(p)
  <1>1. \E v : Set(p, v)
    BY Zenon DEF EmitEgressTrace
  <1> QED BY <1>1, SetIs DEF FrameInv, Solo

\* What a managed run changes: its own record, what it prints, and the traces.
LEMMA RunFoot ==
    ASSUME FrameInv, NEW p \in Proc, RunCommand(p) \/ RunEnvironment(p), UNCHANGED cmd
    PROVE  Solo(p) /\ UNCHANGED <<store, net, out>>
  <1>1. CASE RunStarts(p) \/ RunLoadsPolicy(p) \/ RunBindsEgress(p) \/ RunSpawns(p) \/ RunCancels(p) \/ OutputLost(p)
    <2>1. Fail(p) \/ \E v, label : Step(p, v, label)
      BY <1>1, Zenon DEF RunStarts, RunLoadsPolicy, RunBindsEgress, RunSpawns, RunCancels, OutputLost
    <2> QED BY <2>1, FailSolo, StepSolo
  <1>2. CASE ProxyStops(p) \/ EgressStops(p) \/ AgentExits(p) \/ HolderExits(p) \/ AgentAsksProxy(p)
             \/ ProxyAnswers(p) \/ EgressAcceptFails(p)
    <2>1. \E v : Upd(p, v)
      BY <1>2, Zenon DEF ProxyStops, EgressStops, AgentExits, HolderExits, AgentAsksProxy,
           ProxyAnswers, EgressAcceptFails
    <2> QED BY <2>1, UpdSolo
  <1>3. CASE RunAbandons(p) \/ RunDrained(p)
    BY <1>3, FailSolo, StepSolo DEF RunAbandons, RunDrained
  <1>4. CASE RunCollects(p)
    <2>1. PICK images, v : /\ shown' = [shown EXCEPT ![p] = @ \cup images] /\ Set(p, v)
                           /\ Goto(p, "cancel") /\ UNCHANGED <<store, traces, net, out>>
      BY <1>4, Zenon DEF RunCollects
    <2> QED BY <2>1, SetIs, GotoIs DEF FrameInv, Solo
  <1>5. CASE RunReports(p)
    BY <1>5, ExitIs, FailSolo DEF RunReports, FrameInv, Solo
  <1>6. ASSUME NEW c \in Conn, EgressAccepts(p, c) \/ EgressHeaderFails(p, c) \/ EgressCloses(p, c)
        PROVE  Solo(p) /\ UNCHANGED <<store, net, out>>
    <2>1. \E v : Upd(p, v)
      BY <1>6, Zenon DEF EgressAccepts, EgressHeaderFails, EgressCloses
    <2> QED BY <2>1, UpdSolo
  <1>7. ASSUME NEW c \in Conn, EgressDecides(p, c) \/ EgressDialFails(p, c) \/ EgressTunnels(p, c)
        PROVE  Solo(p) /\ UNCHANGED <<store, net, out>>
    <2>1. /\ UNCHANGED <<pc, exit, store, net, out, shown>>
          /\ \/ \E v : Set(p, v)
             \/ \E state, outcome, issue, reached : EmitEgressTrace(p, c, state, outcome, issue, reached)
      BY <1>7, Zenon DEF EgressDecides, EgressDialFails, EgressTunnels
    <2> QED BY <2>1, SetIs, EmitSolo DEF FrameInv, Solo
  <1> QED BY <1>1, <1>2, <1>3, <1>4, <1>5, <1>6, <1>7 DEF RunCommand, RunEnvironment

-----------------------------------------------------------------------------
(* Every reference is backed *)

Stored == vault \cup cleared

\* An image without any SafeRef.
NoRefs(image) == \A swap \in image.swaps : swap.by.form # "ref"

\* The reference stands for the bytes and the kind of what it replaces.
Fits(swap) == swap.by.id.raw = swap.at.raw /\ swap.by.id.kind = MaskSafeRefKind(swap.at.kind)

\* Every SafeRef of the image has its record, and one of mask its event and its kind.
Backed(p, image) ==
    \A swap \in image.swaps :
       swap.by.form = "ref" =>
          /\ swap.by.id \in Stored
          /\ cmd[p].name = "mask" => StoreEvent(swap.by.id) \in audit /\ Fits(swap)

\* What mask has collected before the audit.
Collected(swaps) == \A swap \in swaps : swap.by.form = "ref" /\ swap.by.id \in Stored /\ Fits(swap)

\* The same for the image a command has in hand, at each of its labels.
LocBacked(p) ==
    /\ At(p, "mask", "store") => Collected(loc[p].swaps)
    /\ At(p, "mask", "audit") => Collected(loc[p].image.swaps)
    /\ cmd[p].name = "mask" /\ pc[p] \in {"transformed", "write", "fill"} => Backed(p, loc[p].image)
    /\ cmd[p].name = "redact" /\ pc[p] \in {"transformed", "write", "fill"} => NoRefs(loc[p].image)
    /\ At(p, "call", "answered") => NoRefs(loc[p].image)
    /\ At(p, "vault", "audit") /\ loc[p].event.action = "Store" => loc[p].event.ref \in Stored

\* The inductive invariant: references in hand, shown, written and audited are all backed.
RefInv ==
    /\ FrameInv
    /\ \A p \in Proc : LocBacked(p) /\ \A image \in shown[p] : Backed(p, image)
    /\ out.by \in Proc => Backed(out.by, out.image)
    /\ \A e \in audit : e.action = "Store" => e.ref \in Stored

\* Records only move from the vault to what was cleared, and events stay.
Grows == Stored \subseteq Stored' /\ audit \subseteq audit' /\ cmd' = cmd

\* What is backed stays backed, since no record and no event is lost.
LEMMA BackedStays ==
    ASSUME NEW p, NEW image, Backed(p, image), Grows
    PROVE  Backed(p, image)'
  BY DEF Backed, Grows, Fits

\* An image without references needs no record.
LEMMA NoRefsBacked ==
    ASSUME NEW p, NEW image, NoRefs(image)
    PROVE  Backed(p, image)
  BY DEF NoRefs, Backed

\* A step of p has to answer for what p has, shows and writes.
LEMMA RefStep ==
    ASSUME RefInv, NEW p \in Proc, Solo(p), Grows, LocBacked(p)',
           \A image \in shown'[p] : image \in shown[p] \/ Backed(p, image)',
           out' = out \/ Backed(out.by, out.image)',
           \A e \in audit' : e \in audit \/ (e.action = "Store" => e.ref \in Stored')
    PROVE  RefInv'
  <1>1. FrameInv'
    BY DEF Solo
  <1>2. ASSUME NEW q \in Proc PROVE LocBacked(q)'
    <2>1. CASE q = p
      BY <2>1
    <2>2. CASE q # p
      <3>1. LocBacked(q) /\ pc'[q] = pc[q] /\ loc'[q] = loc[q] /\ cmd' = cmd
        BY <2>2 DEF RefInv, Solo
      <3>2. ASSUME NEW swaps, Collected(swaps) PROVE Collected(swaps)'
        BY <3>2 DEF Collected, Grows, Fits
      <3> QED BY <3>1, <3>2, BackedStays DEF LocBacked, At, NoRefs, Grows
    <2> QED BY <2>1, <2>2
  <1>3. ASSUME NEW q \in Proc, NEW image \in shown'[q] PROVE Backed(q, image)'
    <2>1. CASE image \in shown[q]
      BY <2>1, BackedStays DEF RefInv
    <2>2. CASE image \notin shown[q]
      BY <1>3, <2>2 DEF Solo
    <2> QED BY <2>1, <2>2
  <1>4. (out.by \in Proc => Backed(out.by, out.image))'
    BY DEF RefInv, Backed, Grows, Fits
  <1>5. \A e \in audit' : e.action = "Store" => e.ref \in Stored'
    BY DEF RefInv, Grows
  <1> QED BY <1>1, <1>2, <1>3, <1>4, <1>5 DEF RefInv

\* Most steps do not touch what the invariant is about.
LEMMA RefQuiet ==
    ASSUME RefInv, NEW p \in Proc, Solo(p), UNCHANGED <<store, out, shown>>,
           cmd[p].name \notin {"mask", "redact", "call", "vault"} \/ pc'[p] \in {"done", "trace"}
    PROVE  RefInv'
  <1>1. Grows
    BY DEF Grows, Stored, store, Solo
  <1>2. LocBacked(p)'
    BY DEF LocBacked, At, Solo
  <1> QED BY <1>1, <1>2, RefStep DEF store

\* Nothing that the detectors' replacements put in place is a reference.
LEMMA RedactNoRefs ==
    ASSUME NEW text, NEW mode
    PROVE  NoRefs(Redact(text, mode))
  <1>1. ASSUME NEW f, NEW catalog PROVE Replacement(f, mode, catalog).form # "ref"
    BY DEF Replacement
  <1>2. PICK catalog : Redact(text, mode) =
                       Image(text, {[at |-> f, by |-> Replacement(f, mode, catalog)] : f \in Detect(text)})
    BY DEF Redact
  <1> QED BY <1>1, <1>2 DEF NoRefs, Image

\* The response of call is sanitized by redaction, never by a reference.
LEMMA CallNoRefs ==
    ASSUME NEW response
    PROVE  NoRefs(SanitizeCallResponse(response))
  <1>1. PICK exact, rest : SanitizeCallResponse(response) =
           Image(response.text,
                 {[at |-> e, by |-> [form |-> "env", id |-> e.raw]] : e \in exact} \cup SanitizeText(rest).swaps)
    BY DEF SanitizeCallResponse
  <1>2. NoRefs(SanitizeText(rest))
    BY RedactNoRefs DEF SanitizeText
  <1> QED BY <1>1, <1>2 DEF NoRefs, Image

\* So is the output of a managed run.
LEMMA OutputNoRefs ==
    ASSUME NEW output
    PROVE  NoRefs(SanitizedOutput(output))
  BY RedactNoRefs DEF SanitizedOutput, SanitizeText, NoRefs, Image

\* A step belongs to the command the process runs.
LEMMA NameOfRun ==
    ASSUME NEW p, RunCommand(p) \/ RunEnvironment(p)
    PROVE  cmd[p].name = "run"
  BY DEF RunCommand, RunEnvironment, RunStarts, RunLoadsPolicy, RunBindsEgress, RunAbandons, RunSpawns, ProxyStops,
       EgressStops, RunCollects, RunCancels, RunDrained, RunReports, AgentExits, HolderExits, OutputLost,
       AgentAsksProxy, ProxyAnswers, EgressAcceptFails, EgressAccepts, EgressHeaderFails, EgressDecides,
       EgressDialFails, EgressTunnels, EgressCloses, Serving, Run, At

\* The same for mask and redact.
LEMMA NameOfMask ==
    ASSUME NEW p
    PROVE  (Mask(p) => cmd[p].name = "mask") /\ (RedactCommand(p) => cmd[p].name = "redact")
  BY DEF Mask, MaskCheckOutput, MaskPrepare, MaskStore, Masked, MaskAudit, RedactCommand, RedactText, At

\* The same for the other commands.
LEMMA NameOfOthers ==
    ASSUME NEW p
    PROVE  /\ ScanCommand(p) => cmd[p].name = "scan"
           /\ DiffCommand(p) => cmd[p].name = "diff-check"
           /\ McpCommand(p) => cmd[p].name = "mcp"
           /\ AuditCommand(p) => cmd[p].name = "audit"
           /\ StatusCommand(p) => cmd[p].name = "status"
           /\ TraceCommand(p) => cmd[p].name = "trace"
           /\ LoadProjectPolicy(p) \/ SaveProjectPolicy(p) => cmd[p].name \in {"allow", "deny"}
           /\ CallCommand(p) => cmd[p].name = "call"
           /\ VaultCommand(p) => cmd[p].name = "vault"
  BY DEF ScanCommand, DiffCommand, AuditCommand, StatusCommand, TraceCommand, LoadProjectPolicy, SaveProjectPolicy,
       ScanBegins, ScanSkips, ScanIoError, ScanDescends, ScanReads, ScanReports, Walking,
       DiffBegins, DiffReads, DiffEnds, DiffReports, McpCommand, McpBegins, McpReads, McpEnds,
       CallCommand, CallPrepare, CallBody, CallUrl, CallSend, CallFails, CallAnswered,
       VaultCommand, PutEnv, ClearVault, BestEffortAudit, ListVault, At

\* The commands that neither store nor write.
LEMMA RefInspect ==
    ASSUME RefInv, NEW p \in Proc, UNCHANGED cmd,
           ScanCommand(p) \/ DiffCommand(p) \/ AuditCommand(p) \/ StatusCommand(p) \/ TraceCommand(p)
             \/ LoadProjectPolicy(p) \/ SaveProjectPolicy(p)
    PROVE  RefInv'
  <1>1. cmd[p].name \notin {"mask", "redact", "call", "vault"}
    BY NameOfOthers
  <1>2. Solo(p) /\ UNCHANGED <<store, out, shown>>
    BY ScanFoot, DiffFoot, SmallFoot, TraceFoot, PolicyFoot DEF RefInv
  <1> QED BY <1>1, <1>2, RefQuiet

\* A process that ends has nothing in hand.
LEMMA RefEnd ==
    ASSUME RefInv, NEW p \in Proc, UNCHANGED cmd, TracedCommand(p) \/ Kill(p)
    PROVE  RefInv'
  <1>1. Solo(p) /\ UNCHANGED <<store, out, shown>>
    BY TraceFoot, KillFoot DEF RefInv
  <1>2. pc'[p] = "done"
    BY ExitIs DEF RefInv, TracedCommand, Kill, Fail
  <1> QED BY <1>1, <1>2, RefQuiet

\* mcp sanitizes by redaction as well, and puts no reference into a message.
LEMMA RefMcp ==
    ASSUME RefInv, NEW p \in Proc, UNCHANGED cmd, McpCommand(p)
    PROVE  RefInv'
  <1>1. cmd[p].name = "mcp"
    BY NameOfOthers
  <1>2. Solo(p) /\ UNCHANGED <<store, out>>
    BY McpFoot DEF RefInv
  <1>3. Grows /\ LocBacked(p)'
    BY <1>1, <1>2 DEF Grows, Stored, store, Solo, LocBacked, At
  <1>4. ASSUME NEW image \in shown'[p] PROVE image \in shown[p] \/ NoRefs(image)
    <2>1. CASE McpReads(p) /\ ~Refuse(p)
      <3>1. PICK done, rest :
               shown' = [shown EXCEPT ![p] = @ \cup {SanitizeText(s.text) : s \in done} \cup {Passed(text) : text \in rest}]
        BY <2>1, Zenon DEF McpReads
      <3>2. \A s : NoRefs(SanitizeText(s.text))
        BY RedactNoRefs DEF SanitizeText
      <3>3. \A text : NoRefs(Passed(text))
        BY DEF NoRefs, Passed, Image
      <3>4. image \in shown[p] \cup {SanitizeText(s.text) : s \in done} \cup {Passed(text) : text \in rest}
        BY <1>4, <3>1 DEF RefInv, FrameInv
      <3> QED BY <3>2, <3>3, <3>4
    <2>2. CASE ~(McpReads(p) /\ ~Refuse(p))
      BY <1>4, <2>2 DEF McpCommand, McpBegins, McpEnds, Refuse
    <2> QED BY <2>1, <2>2
  <1>5. \A image \in shown'[p] : image \in shown[p] \/ Backed(p, image)'
    BY <1>4 DEF NoRefs, Backed
  <1> QED BY <1>2, <1>3, <1>5, RefStep DEF store

\* A run shows the two outputs of the agent and nothing else.
LEMMA RunShows ==
    ASSUME FrameInv, NEW p \in Proc, RunCommand(p) \/ RunEnvironment(p)
    PROVE  \A image \in shown'[p] : image \in shown[p] \/ \E s \in Stream : image = SanitizedOutput(cmd[p].output[s])
  <1>1. CASE RunCollects(p)
    <2>1. PICK printed \in {{}, {"stdout"}, Stream} :
             shown' = [shown EXCEPT ![p] = @ \cup {SanitizedOutput(cmd[p].output[s]) : s \in printed}]
      BY <1>1, Zenon DEF RunCollects
    <2>2. printed \subseteq Stream
      BY DEF Stream
    <2> QED BY <2>1, <2>2 DEF FrameInv
  <1>2. CASE ~RunCollects(p)
    BY <1>2, Zenon DEF RunCommand, RunEnvironment, RunStarts, RunLoadsPolicy, RunBindsEgress, RunAbandons, RunSpawns, ProxyStops,
       EgressStops, RunCancels, RunDrained, RunReports, AgentExits, HolderExits, OutputLost, AgentAsksProxy,
       ProxyAnswers, EgressAcceptFails, EgressAccepts, EgressHeaderFails, EgressDecides, EgressDialFails,
       EgressTunnels, EgressCloses, Upd, Step, Fail
  <1> QED BY <1>1, <1>2

\* A managed run shows its sanitized output.
LEMMA RefRun ==
    ASSUME RefInv, NEW p \in Proc, UNCHANGED cmd, RunCommand(p) \/ RunEnvironment(p)
    PROVE  RefInv'
  <1>1. cmd[p].name = "run"
    BY NameOfRun
  <1>2. Solo(p) /\ UNCHANGED <<store, out>>
    BY RunFoot DEF RefInv
  <1>3. Grows /\ LocBacked(p)'
    BY <1>1, <1>2 DEF Grows, Stored, store, Solo, LocBacked, At
  <1>4. \A image \in shown'[p] : image \in shown[p] \/ NoRefs(image)
    BY RunShows, OutputNoRefs DEF RefInv
  <1>5. \A image \in shown'[p] : image \in shown[p] \/ Backed(p, image)'
    BY <1>4 DEF NoRefs, Backed
  <1> QED BY <1>2, <1>3, <1>5, RefStep DEF store

\* A call shows its sanitized response.
LEMMA RefCall ==
    ASSUME RefInv, NEW p \in Proc, UNCHANGED cmd, CallCommand(p)
    PROVE  RefInv'
  <1>1. cmd[p].name = "call"
    BY NameOfOthers
  <1>2. Solo(p) /\ UNCHANGED <<store, out>>
    BY CallFoot DEF RefInv
  <1>3. Grows
    BY <1>2 DEF Grows, Stored, store, Solo
  <1>4. LocBacked(p)'
    <2>1. CASE CallSend(p)
      <3>1. PICK response \in Responses :
               \/ pc'[p] = "done"
               \/ loc'[p].image = SanitizeCallResponse(response)
        BY <2>1, SetIs, ExitIs DEF CallSend, RefInv
      <3> QED BY <1>1, <1>3, <3>1, CallNoRefs DEF LocBacked, At, Grows
    <2>2. CASE ~CallSend(p)
      <3>1. pc'[p] # "answered"
        BY <2>2, GotoIs, ExitIs DEF RefInv, CallCommand, CallPrepare, CallBody, CallUrl, CallFails, CallAnswered, Fail, RejectCall
      <3> QED BY <1>1, <1>3, <3>1 DEF LocBacked, At, Grows
    <2> QED BY <2>1, <2>2
  <1>5. \A image \in shown'[p] : image \in shown[p] \/ NoRefs(image)
    <2>1. CASE CallAnswered(p)
      BY <1>1, <2>1, ShowIs DEF CallAnswered, Fail, RefInv, LocBacked
    <2>2. CASE ~CallAnswered(p)
      BY <2>2 DEF CallCommand, CallPrepare, CallBody, CallUrl, CallSend, CallFails, Fail, RejectCall
    <2> QED BY <2>1, <2>2
  <1>6. \A image \in shown'[p] : image \in shown[p] \/ Backed(p, image)'
    BY <1>5 DEF NoRefs, Backed
  <1> QED BY <1>2, <1>3, <1>4, <1>6, RefStep DEF store

\* Where the text that is held ready goes.
LEMMA OutputIs ==
    ASSUME FrameInv, NEW p \in Proc, WriteTransformedOutput(p, loc[p].image) \/ FillOutput(p)
    PROVE  /\ \/ pc'[p] = "done"
              \/ pc'[p] = "fill" /\ loc'[p].image = loc[p].image
           /\ shown' = shown \/ shown'[p] = shown[p] \cup {loc[p].image}
           /\ \/ out' = out
              \/ out'.by = p /\ (out'.image = loc[p].image \/ (out'.image.swaps = {} /\ out'.image.text = {}))
  <1>1. CASE WriteStdout(p, loc[p].image)
    BY <1>1, ExitIs, ShowIs DEF WriteStdout, FrameInv
  <1>2. CASE ReplaceOutput(p, loc[p].image)
    BY <1>2, ExitIs DEF ReplaceOutput, FrameInv
  <1>3. CASE CreateOutput(p, loc[p].image)
    BY <1>3, SetIs, GotoIs DEF CreateOutput, FrameInv, Image
  <1>4. CASE OutputFails(p)
    BY <1>4, ExitIs DEF OutputFails, Fail, FrameInv
  <1>5. CASE FillOutput(p)
    BY <1>5, ExitIs DEF FillOutput, FrameInv
  <1> QED BY <1>1, <1>2, <1>3, <1>4, <1>5 DEF WriteTransformedOutput

\* mask and redact write what they have.
LEMMA RefOutput ==
    ASSUME RefInv, NEW p \in Proc, UNCHANGED cmd, cmd[p].name \in {"mask", "redact"},
           (pc[p] = "write" /\ WriteTransformedOutput(p, loc[p].image)) \/ FillOutput(p)
    PROVE  RefInv'
  <1>1. Solo(p) /\ UNCHANGED store
    BY OutputFoot DEF RefInv
  <1>2. Grows
    BY <1>1 DEF Grows, Stored, store, Solo
  <1>3. pc[p] \in {"write", "fill"} /\ Backed(p, loc[p].image)
    BY NoRefsBacked DEF RefInv, LocBacked, FillOutput
  <1>4. /\ \/ pc'[p] = "done"
           \/ pc'[p] = "fill" /\ loc'[p].image = loc[p].image
        /\ shown' = shown \/ shown'[p] = shown[p] \cup {loc[p].image}
        /\ \/ out' = out
           \/ out'.by = p /\ (out'.image = loc[p].image \/ out'.image.swaps = {})
    BY OutputIs DEF RefInv
  <1>5. LocBacked(p)'
    BY <1>1, <1>2, <1>3, <1>4 DEF RefInv, LocBacked, At, Backed, NoRefs, Grows, Fits
  <1>6. \A image \in shown'[p] : image \in shown[p] \/ Backed(p, image)'
    BY <1>2, <1>3, <1>4, BackedStays
  <1>7. out' = out \/ Backed(out.by, out.image)'
    BY <1>2, <1>3, <1>4 DEF Backed, Grows, Fits
  <1> QED BY <1>1, <1>2, <1>5, <1>6, <1>7, RefStep DEF store

\* The trace of a transformation leaves the image in hand.
LEMMA RefTransformTrace ==
    ASSUME RefInv, NEW p \in Proc, UNCHANGED cmd, NEW found, TransformTrace(p, found)
    PROVE  RefInv'
  <1>1. Solo(p) /\ UNCHANGED <<loc, store, out, shown>>
    BY TransformFoot DEF RefInv
  <1>2. Grows
    BY <1>1 DEF Grows, Stored, store, Solo
  <1>3. pc[p] = "transformed" /\ pc'[p] \in {"write", "done"}
    BY GotoIs, ExitIs DEF TransformTrace, Fail, RefInv
  <1>4. LocBacked(p)'
    BY <1>1, <1>2, <1>3 DEF RefInv, LocBacked, At, Backed, NoRefs, Grows, Fits
  <1> QED BY <1>1, <1>2, <1>4, RefStep DEF store

\* redact has no reference in hand.
LEMMA RefRedact ==
    ASSUME RefInv, NEW p \in Proc, UNCHANGED cmd, RedactCommand(p)
    PROVE  RefInv'
  <1>1. CASE RedactText(p)
    <2>1. Solo(p) /\ UNCHANGED <<store, out, shown>>
      BY <1>1, SetIs, GotoIs, FailSolo DEF RedactText, RefInv, FrameInv, Solo
    <2>2. Grows
      BY <2>1 DEF Grows, Stored, store, Solo
    <2>3. pc'[p] = "done" \/ NoRefs(loc'[p].image)
      BY <1>1, SetIs, ExitIs, RedactNoRefs DEF RedactText, Fail, RefInv
    <2>4. LocBacked(p)'
      BY <1>1, <2>2, <2>3 DEF RedactText, LocBacked, At, NoRefs, Grows
    <2> QED BY <2>1, <2>2, <2>4, RefStep DEF store
  <1> QED BY <1>1, RefTransformTrace, RefOutput DEF RedactCommand, At

\* A store loses sight of no record, and has its own.
LEMMA RecordStored ==
    ASSUME NEW ref, StoreRecord(ref)
    PROVE  Stored \subseteq Stored' /\ ref \in Stored'
  BY DEF StoreRecord, Stored

\* A put of mask gives a record for the very bytes and kind of the finding it replaces.
LEMMA RefMaskStore ==
    ASSUME RefInv, NEW p \in Proc, UNCHANGED cmd, MaskStore(p)
    PROVE  RefInv'
  <1>1. Solo(p) /\ UNCHANGED <<audit, out, shown>>
    BY SetIs, GotoIs, ExitIs DEF MaskStore, RefInv, FrameInv, Solo
  <1> DEFINE f == First(loc[p].todo)
             ref == IF Known(p, f) # {} THEN CHOOSE r \in Known(p, f) : TRUE
                    ELSE Ref(p, MaskSafeRefKind(f.kind), f.raw)
  <1>2. Stored \subseteq Stored'
    BY RecordStored DEF MaskStore, Stored
  <1>3. Grows
    BY <1>1, <1>2 DEF Grows, Stored, Solo
  <1>4. ref.raw = f.raw /\ ref.kind = MaskSafeRefKind(f.kind) /\ (Known(p, f) # {} => ref \in Stored)
    <2>1. CASE Known(p, f) = {}
      BY <2>1 DEF Ref
    <2>2. CASE Known(p, f) # {}
      <3>1. ref \in Known(p, f)
        BY <2>2
      <3>2. Collected(loc[p].swaps)
        BY DEF RefInv, LocBacked, MaskStore
      <3> HIDE DEF ref
      <3> QED BY <3>1, <3>2 DEF Known, RefsIn, Collected
    <2> QED BY <2>1, <2>2
  <1>5. \/ pc'[p] = "done"
        \/ /\ pc'[p] = "store" /\ loc'[p].swaps = loc[p].swaps \cup {RefSwap(f, ref)}
           /\ Known(p, f) # {} \/ ref \in Stored'
    BY RecordStored, SetIs, GotoIs, ExitIs DEF MaskStore, RefInv
  <1>6. LocBacked(p)'
    <2> HIDE DEF f, ref
    <2>1. cmd[p].name = "mask" /\ Collected(loc[p].swaps)
      BY DEF RefInv, LocBacked, MaskStore, At
    <2>2. CASE pc'[p] = "done"
      BY <2>2 DEF LocBacked, At
    <2>3. CASE pc'[p] # "done"
      <3>1. Collected(loc[p].swaps)'
        BY <1>3, <1>4, <1>5, <2>1, <2>3 DEF Collected, Fits, RefSwap, Grows, Stored
      <3> QED BY <1>3, <1>5, <2>1, <2>3, <3>1 DEF LocBacked, At, Grows
    <2> QED BY <2>2, <2>3
  <1> QED BY <1>1, <1>3, <1>6, RefStep

\* mask goes on to the output only with the event of every reference in the log.
LEMMA RefMask ==
    ASSUME RefInv, NEW p \in Proc, UNCHANGED cmd, Mask(p)
    PROVE  RefInv'
  <1>1. CASE MaskCheckOutput(p) \/ MaskPrepare(p) \/ Masked(p)
    <2>1. Solo(p) /\ UNCHANGED <<store, out, shown>>
      BY <1>1, SetIs, GotoIs, FailSolo DEF MaskCheckOutput, MaskPrepare, Masked, RefInv, FrameInv, Solo
    <2>2. Grows /\ cmd[p].name = "mask"
      BY <1>1, <2>1 DEF Grows, Stored, store, Solo, MaskCheckOutput, MaskPrepare, Masked, At
    <2>3. LocBacked(p)'
      <3>1. CASE MaskCheckOutput(p)
        BY <2>2, <3>1, GotoIs, ExitIs DEF MaskCheckOutput, Fail, RefInv, LocBacked, At, Grows
      <3>2. CASE MaskPrepare(p)
        BY <2>2, <3>2, SetIs, GotoIs, ExitIs DEF MaskPrepare, Fail, RefInv, LocBacked, At, Grows, Collected
      <3>3. CASE Masked(p)
        BY <2>2, <3>3, SetIs, GotoIs DEF Masked, Image, RefInv, LocBacked, At, Grows, Collected, Fits
      <3> QED BY <1>1, <3>1, <3>2, <3>3
    <2> QED BY <2>1, <2>2, <2>3, RefStep DEF store
  <1>2. CASE MaskAudit(p)
    <2>1. Solo(p) /\ UNCHANGED <<loc, vault, cleared, out, shown>>
      BY <1>2, GotoIs, FailSolo DEF MaskAudit, RefInv, FrameInv, Solo, store
    <2>2. audit \subseteq audit' /\ cmd[p].name = "mask" /\ Collected(loc[p].image.swaps)
      BY <1>2 DEF MaskAudit, Fail, store, RefInv, LocBacked, At
    <2>3. Grows
      BY <2>1, <2>2 DEF Grows, Stored, Solo
    <2>4. LocBacked(p)'
      <3>1. \/ pc'[p] = "done" \/ pc' = pc
            \/ pc'[p] = "transformed" /\ Unaudited(p) = {}
        BY <1>2, GotoIs, ExitIs DEF MaskAudit, Fail, RefInv
      <3>2. Unaudited(p) = {} => Backed(p, loc[p].image)
        BY <2>2 DEF Unaudited, Backed, Collected
      <3>3. pc[p] = "audit"
        BY <1>2 DEF MaskAudit, At
      <3> QED BY <2>1, <2>2, <2>3, <3>1, <3>2, <3>3 DEF LocBacked, At, Grows, Backed, Collected, Fits
    <2>5. \A e \in audit' : e \in audit \/ (e.action = "Store" => e.ref \in Stored')
      BY <1>2, <2>1, <2>2 DEF MaskAudit, Fail, store, Unaudited, Collected, StoreEvent, Stored
    <2> QED BY <2>1, <2>3, <2>4, <2>5, RefStep
  <1> QED BY <1>1, <1>2, RefMaskStore, RefTransformTrace, RefOutput DEF Mask, At

\* put shows the reference it stored, and clear keeps what it removed accounted for.
LEMMA RefVault ==
    ASSUME RefInv, NEW p \in Proc, UNCHANGED cmd, VaultCommand(p)
    PROVE  RefInv'
  <1>1. Solo(p) /\ UNCHANGED out
    BY VaultFoot DEF RefInv
  <1>2. cmd[p].name = "vault"
    BY NameOfOthers
  <1>3. Stored \subseteq Stored' /\ audit \subseteq audit'
    BY RecordStored DEF VaultCommand, PutEnv, ClearVault, BestEffortAudit, ListVault, Refuse, store, Stored
  <1>4. Grows
    BY <1>1, <1>3 DEF Grows, Solo
  <1>5. LocBacked(p)'
    <2>1. \/ pc'[p] \in {"trace", "done"}
          \/ loc'[p].event.action = "Store" => loc'[p].event.ref \in Stored'
      <3>1. CASE PutEnv(p)
        BY <3>1, RecordStored, SetIs, FinishFrame DEF PutEnv, RefInv, StoreEvent
      <3>2. CASE ClearVault(p)
        BY <3>2, SetIs, FinishFrame DEF ClearVault, Refuse, RefInv
      <3>3. CASE BestEffortAudit(p) \/ ListVault(p)
        BY <3>3, FinishFrame DEF BestEffortAudit, ListVault, Refuse, RefInv
      <3> QED BY <3>1, <3>2, <3>3 DEF VaultCommand
    <2> QED BY <1>2, <1>4, <2>1 DEF LocBacked, At, Grows
  <1>6. \A image \in shown'[p] : image \in shown[p] \/ \A swap \in image.swaps : swap.by.id \in Stored'
    <2>1. ASSUME NEW refs, NEW swap \in Printed(p, refs).swaps PROVE swap.by.id \in refs
      BY <2>1 DEF Printed, Image
    <2>2. shown' = shown \/ \E refs : refs \subseteq Stored' /\ shown'[p] = shown[p] \cup {Printed(p, refs)}
      BY RecordStored, ShowIs DEF VaultCommand, PutEnv, ClearVault, BestEffortAudit, ListVault, Refuse, store, Stored, RefInv
    <2> QED BY <2>1, <2>2
  <1>7. \A image \in shown'[p] : image \in shown[p] \/ Backed(p, image)'
    BY <1>2, <1>4, <1>6 DEF Backed, Grows
  <1>8. \A e \in audit' : e \in audit \/ (e.action = "Store" => e.ref \in Stored')
    BY <1>3 DEF VaultCommand, PutEnv, ClearVault, BestEffortAudit, ListVault, Refuse, store, RefInv, LocBacked
  <1> QED BY <1>1, <1>4, <1>5, <1>7, <1>8, RefStep

\* Nothing is shown, written or in hand at the start.
LEMMA RefInit == Init => RefInv
  BY DEF Init, NoFile, Prior, Image, RefInv, FrameInv, LocBacked, At, Backed

\* Every reference a command printed or wrote is the vault's reference for what it
\* stands for, with its event if mask handed it out, and no event names a
\* reference that was never stored.
THEOREM ReferencesBacked == Spec => []RefsBacked
  <1>1. RefInv /\ [Next]_vars => RefInv'
    <2> SUFFICES ASSUME RefInv, [Next]_vars PROVE RefInv'
      OBVIOUS
    <2>1. CASE UNCHANGED vars
      BY <2>1 DEF vars, RefInv, FrameInv, LocBacked, At, Backed, Collected, Fits, Stored
    <2>2. ASSUME NEW p \in Proc, Command(p) \/ RunEnvironment(p) \/ Kill(p), UNCHANGED cmd PROVE RefInv'
      BY <2>2, RefMask, RefRedact, RefVault, RefInspect, RefEnd, RefMcp, RefRun, RefCall DEF Command
    <2> QED BY <2>1, <2>2 DEF Next, Ended
  <1>2. RefInv => RefsBacked
    BY DEF RefInv, RefsBacked, Images, Backed, Fits, Stored
  <1> QED BY <1>1, <1>2, RefInit, PTL DEF Spec

-----------------------------------------------------------------------------
(* No file is clobbered *)

\* Who fills the output file found it absent and created it.
FillInv ==
    /\ FrameInv
    /\ \A p \in Proc : cmd[p].name \in {"mask", "redact"} /\ pc[p] = "fill" /\ out.by = p => out.state = "empty"

\* What NeverClobbers says of one step.
OutputKept ==
    out' # out =>
       \/ out.state = "absent" /\ out'.state = "empty"
       \/ cmd[out'.by].force /\ out'.state = "whole"
       \/ out.state = "empty" /\ out'.by = out.by

\* A step that leaves the file alone and does not come to fill it.
LEMMA OutputQuiet ==
    ASSUME FillInv, NEW p \in Proc, Solo(p), UNCHANGED out,
           cmd[p].name \notin {"mask", "redact"} \/ pc'[p] # "fill"
    PROVE  FillInv' /\ OutputKept
  BY DEF FillInv, Solo, OutputKept

\* create_new finds the file absent, and only its creator fills it; a rename needs --force.
LEMMA OutputWritten ==
    ASSUME FillInv, NEW p \in Proc, UNCHANGED cmd, NEW image, cmd[p].name \in {"mask", "redact"},
           WriteTransformedOutput(p, image) \/ FillOutput(p)
    PROVE  FillInv' /\ OutputKept
  <1>1. Solo(p)
    BY OutputFoot DEF FillInv
  <1>2. CASE WriteStdout(p, image) \/ OutputFails(p)
    BY <1>1, <1>2, OutputQuiet, ExitIs DEF WriteStdout, OutputFails, Fail, FillInv
  <1>3. CASE ReplaceOutput(p, image)
    <2>1. out'.by = p /\ out'.state = "whole" /\ cmd[p].force /\ pc'[p] = "done"
      BY <1>3, ExitIs DEF ReplaceOutput, FillInv
    <2> QED BY <1>1, <2>1 DEF FillInv, Solo, OutputKept
  <1>4. CASE CreateOutput(p, image)
    <2>1. out'.by = p /\ out'.state = "empty" /\ out.state = "absent"
      BY <1>4 DEF CreateOutput
    <2> QED BY <1>1, <2>1 DEF FillInv, Solo, OutputKept
  <1>5. CASE FillOutput(p)
    <2>1. pc[p] = "fill" /\ pc'[p] = "done" /\ (out' = out \/ (out.by = p /\ out'.by = p))
      BY <1>5, ExitIs DEF FillOutput, FillInv
    <2> QED BY <1>1, <2>1 DEF FillInv, Solo, OutputKept
  <1> QED BY <1>2, <1>3, <1>4, <1>5 DEF WriteTransformedOutput

\* The other steps of mask and redact leave the file alone.
LEMMA OutputMask ==
    ASSUME FillInv, NEW p \in Proc, UNCHANGED cmd, Mask(p) \/ RedactCommand(p)
    PROVE  FillInv' /\ OutputKept
  <1>1. CASE MaskCheckOutput(p) \/ MaskPrepare(p) \/ Masked(p) \/ MaskAudit(p) \/ RedactText(p)
    <2>1. Solo(p)
      BY MaskFoot, RedactFoot DEF FillInv
    <2>2. UNCHANGED out
      BY <1>1 DEF MaskCheckOutput, MaskPrepare, Masked, MaskAudit, RedactText, Fail
    <2>3. pc'[p] # "fill"
      BY <1>1, GotoIs, ExitIs DEF MaskCheckOutput, MaskPrepare, Masked, MaskAudit, RedactText, Fail, FillInv, At
    <2> QED BY <2>1, <2>2, <2>3, OutputQuiet
  <1>2. CASE MaskStore(p)
    <2>1. Solo(p)
      BY MaskFoot, RedactFoot DEF FillInv
    <2>2. out' = out /\ pc'[p] \in {"store", "done"}
      BY <1>2, GotoIs, ExitIs DEF MaskStore, FillInv
    <2> QED BY <2>1, <2>2, OutputQuiet
  <1>3. ASSUME NEW found, TransformTrace(p, found) PROVE FillInv' /\ OutputKept
    BY <1>3, TransformFoot, GotoIs, ExitIs, OutputQuiet DEF TransformTrace, Fail, FillInv
  <1> QED BY <1>1, <1>2, <1>3, OutputWritten DEF Mask, RedactCommand, At

\* The commands that do not write a file.
LEMMA OutputOther ==
    ASSUME FillInv, NEW p \in Proc, UNCHANGED cmd,
           Command(p) \/ RunEnvironment(p) \/ Kill(p), ~Mask(p), ~RedactCommand(p)
    PROVE  FillInv' /\ OutputKept
  <1>1. Solo(p) /\ UNCHANGED out
    BY VaultFoot, SmallFoot, TraceFoot, PolicyFoot, CallFoot, RunFoot, ScanFoot, DiffFoot, McpFoot, KillFoot DEF Command, FillInv
  <1>2. \/ cmd[p].name \notin {"mask", "redact"}
        \/ pc'[p] # "fill"
    <2>1. CASE Kill(p) \/ TracedCommand(p)
      BY <2>1, ExitIs DEF Kill, TracedCommand, Fail, FillInv
    <2>2. CASE RunCommand(p) \/ RunEnvironment(p)
      BY <2>2, NameOfRun
    <2>3. CASE ~(Kill(p) \/ TracedCommand(p) \/ RunCommand(p) \/ RunEnvironment(p))
      BY <2>3, NameOfOthers DEF Command
    <2> QED BY <2>1, <2>2, <2>3
  <1> QED BY <1>1, <1>2, OutputQuiet

\* Without --force mask and redact touch no file that was there before them.
THEOREM NothingClobbered == Spec => NeverClobbers
  <1>1. Init => FillInv
    BY DEF Init, FillInv, FrameInv
  <1>2. FillInv /\ [Next]_vars => FillInv' /\ [OutputKept]_vars
    <2> SUFFICES ASSUME FillInv, [Next]_vars PROVE FillInv' /\ OutputKept
      OBVIOUS
    <2>1. CASE UNCHANGED vars
      BY <2>1 DEF vars, FillInv, FrameInv, OutputKept
    <2>2. ASSUME NEW p \in Proc, Command(p) \/ RunEnvironment(p) \/ Kill(p), UNCHANGED cmd
          PROVE  FillInv' /\ OutputKept
      BY <2>2, OutputMask, OutputOther
    <2> QED BY <2>1, <2>2 DEF Next, Ended
  <1>3. [OutputKept]_vars =>
           [out' # out =>
               \/ out.state = "absent" /\ out'.state = "empty"
               \/ cmd[out'.by].force /\ out'.state = "whole"
               \/ out.state = "empty" /\ out'.by = out.by]_vars
    BY DEF OutputKept
  <1> QED BY <1>1, <1>2, <1>3, PTL DEF Spec, NeverClobbers

-----------------------------------------------------------------------------
(* Hosts are reached by leave of the user *)

ChangesPolicy(p) == cmd[p].name \in {"allow", "deny"}

\* No domain is on both sides of a policy, and every allowed one was asked for.
Sound(policy) == policy.allow \cap policy.deny = {} /\ policy.allow \subseteq ack.asked

\* The file, and what the user was told about it.
NetInv ==
    /\ DOMAIN ack = {"standing", "asked", "busy", "disputed"}
    /\ ack.busy = {p \in Proc : ChangesPolicy(p) /\ pc[p] = "save"}
    /\ Sound(netpol) /\ ack.standing \subseteq netpol.deny
    /\ ack.busy \cap ack.disputed # {} => ack.standing = {}
    /\ \A p \in Proc : ChangesPolicy(p) /\ pc[p] = "start" => p \notin ack.disputed

\* A change that nobody disputes is alone, and the policy it will save is the file.
SaveInv(p) ==
    ChangesPolicy(p) /\ pc[p] = "save" =>
       /\ Sound(loc[p].policy)
       /\ cmd[p].name = "allow" => loc[p].domain \in ack.asked
       /\ p \notin ack.disputed =>
             /\ ack.busy = {p} /\ loc[p].policy = netpol
             /\ cmd[p].name = "allow" => loc[p].domain \notin ack.standing

\* What a call or a run has loaded, and the hosts it has reached by it.
ReaderInv(r) ==
    /\ r.policy.allow \subseteq ack.asked /\ r.standing \subseteq r.policy.deny
    /\ \A host \in r.reached : Decision(r.policy, host) = "Allow"

\* A call reaches its host only at send, by the policy it has loaded.
CallInv(p) ==
    cmd[p].name = "call" =>
       /\ pc[p] \in {"start", "body", "url"} => "reached" \notin DOMAIN loc[p]
       /\ "reached" \in DOMAIN loc[p] => ReaderInv(loc[p])
       /\ pc[p] = "send" =>
             /\ DOMAIN loc[p] = {"policy", "standing", "reached"}
             /\ Decision(loc[p].policy, cmd[p].host) = "Allow"

\* The record of a managed run and of its connections.
RunFields == {"policy", "standing", "reached", "proxy", "egress", "inflight", "agent", "holders", "code",
              "sinkFailed", "vouched", "conn"}
RunShape(r) ==
    /\ DOMAIN r = RunFields /\ DOMAIN r.conn = Conn
    /\ \A c \in Conn : DOMAIN r.conn[c] = {"state", "host", "traced"}

\* The states of a connection whose record is due.
Due == {"tunnel", "answered"}

\* A tunnel is dialled by the policy of the run; a record that is due is written or the sink has
\* failed, and it had not when the run vouched for a connection.
GuardInv(p, r) ==
    /\ \A c \in Conn : r.conn[c].state = "dial" => Decision(r.policy, r.conn[c].host) = "Allow"
    /\ cmd[p].trace /\ ~r.sinkFailed => \A c \in Conn : r.conn[c].state \in Due => r.conn[c].traced
    /\ \A c \in r.vouched :
          c \in Conn /\ r.conn[c].state \in Due /\ (cmd[p].trace => r.conn[c].traced)
\* A run that has not loaded its policy has no egress proxy and no connection.
Unused(r) == r.egress = "off" /\ r.reached = {} /\ \A c \in Conn : r.conn[c].state = "none"

\* A managed run has its record from its start to its end, and reaches hosts by the policy it loaded.
RunInv(p) ==
    cmd[p].name = "run" =>
       /\ pc[p] \notin {"start", "done"} => RunShape(loc[p])
       /\ "reached" \in DOMAIN loc[p] => RunShape(loc[p]) /\ ReaderInv(loc[p]) /\ GuardInv(p, loc[p])
       /\ pc[p] = "policy" => Unused(loc[p])
       /\ pc[p] = "start" => "holders" \notin DOMAIN loc[p]

\* The inductive invariant: the file, the changes under way, and who has loaded it.
EgressInv ==
    /\ FrameInv /\ NetInv
    /\ \A p \in Proc : SaveInv(p) /\ CallInv(p) /\ RunInv(p)

\* What another process has loaded is not touched by what the user asks for meanwhile.
LEMMA LoadedStays ==
    ASSUME NEW p, NEW q \in Proc, q # p, Solo(p), CallInv(q), RunInv(q), ack.asked \subseteq ack'.asked
    PROVE  CallInv(q)' /\ RunInv(q)'
  BY DEF Solo, CallInv, RunInv, ReaderInv, RunShape, GuardInv, Unused

\* A step that leaves the file alone.
LEMMA EgressStep ==
    ASSUME EgressInv, NEW p \in Proc, Solo(p), UNCHANGED net, CallInv(p)', RunInv(p)',
           ChangesPolicy(p) => pc[p] # "save" /\ pc'[p] \notin {"start", "save"}
    PROVE  EgressInv'
  <1>1. FrameInv' /\ cmd' = cmd /\ ack' = ack /\ netpol' = netpol
    BY DEF Solo, net
  <1>2. NetInv'
    <2>1. {q \in Proc : ChangesPolicy(q) /\ pc[q] = "save"}' = {q \in Proc : ChangesPolicy(q) /\ pc[q] = "save"}
      BY <1>1 DEF Solo, ChangesPolicy
    <2> QED BY <1>1, <2>1 DEF EgressInv, NetInv, Sound, Solo, ChangesPolicy
  <1>3. ASSUME NEW q \in Proc PROVE SaveInv(q)' /\ CallInv(q)' /\ RunInv(q)'
    <2>1. CASE q = p
      BY <1>1, <2>1 DEF SaveInv, ChangesPolicy
    <2>2. CASE q # p
      <3>1. CallInv(q)' /\ RunInv(q)'
        BY <1>1, <2>2, LoadedStays DEF EgressInv
      <3>2. SaveInv(q)'
        BY <1>1, <2>2 DEF EgressInv, SaveInv, ChangesPolicy, Sound, Solo
      <3> QED BY <3>1, <3>2
    <2> QED BY <2>1, <2>2
  <1> QED BY <1>1, <1>2, <1>3 DEF EgressInv

\* A step of a command that never loads the policy.
LEMMA EgressQuiet ==
    ASSUME EgressInv, NEW p \in Proc, Solo(p), UNCHANGED net,
           cmd[p].name \notin {"allow", "deny", "call", "run"}
    PROVE  EgressInv'
  <1>1. CallInv(p)' /\ RunInv(p)' /\ ~ChangesPolicy(p)
    BY DEF CallInv, RunInv, ChangesPolicy, Solo
  <1> QED BY <1>1, EgressStep

\* allow and deny read the file ...
LEMMA EgressLoad ==
    ASSUME EgressInv, NEW p \in Proc, UNCHANGED cmd, LoadProjectPolicy(p)
    PROVE  EgressInv'
  <1>1. Solo(p) /\ ChangesPolicy(p) /\ pc[p] = "start" /\ p \notin ack.busy /\ p \notin ack.disputed
    BY PolicyFoot DEF EgressInv, NetInv, LoadProjectPolicy, ChangesPolicy
  <1>2. CASE Refuse(p)
    <2>1. ack' = ack /\ netpol' = netpol /\ cmd' = cmd /\ pc'[p] \in {"trace", "done"}
      BY <1>2, FinishFrame DEF Refuse, net, EgressInv
    <2>2. CallInv(p)' /\ RunInv(p)'
      BY <1>1, <2>1 DEF CallInv, RunInv, ChangesPolicy
    <2> QED BY <1>1, <2>1, <2>2, EgressStep DEF net
  <1>3. CASE ~Refuse(p)
    <2> DEFINE domain == NormalizePolicyDomain(cmd[p].domain)
    <2>1. /\ loc'[p] = [policy |-> netpol, domain |-> domain]
          /\ BeginsPolicyChange(p, domain) /\ pc'[p] = "save" /\ netpol' = netpol /\ cmd' = cmd
      BY <1>3, SetIs, GotoIs DEF LoadProjectPolicy, EgressInv
    <2> HIDE DEF domain
    <2>2. /\ ack'.busy = ack.busy \cup {p}
          /\ ack'.asked = IF cmd[p].name = "allow" THEN ack.asked \cup {domain} ELSE ack.asked
          /\ DOMAIN ack' = {"standing", "asked", "busy", "disputed"}
          /\ ack'.disputed = IF ack.busy # {} THEN ack.disputed \cup ack.busy \cup {p} ELSE ack.disputed
          /\ ack'.standing = IF ack.busy # {} THEN {}
                             ELSE IF cmd[p].name = "allow" THEN ack.standing \ {domain} ELSE ack.standing
      BY <2>1 DEF BeginsPolicyChange
    <2>3. ack'.busy = {q \in Proc : ChangesPolicy(q) /\ pc[q] = "save"}'
      BY <1>1, <2>1, <2>2 DEF EgressInv, NetInv, Solo, ChangesPolicy
    <2>4. NetInv'
      <3>1. Sound(netpol)' /\ ack'.standing \subseteq netpol'.deny
        BY <2>1, <2>2 DEF EgressInv, NetInv, Sound
      <3>2. ack'.busy \cap ack'.disputed # {} => ack'.standing = {}
        BY <1>1, <2>2
      <3>3. \A q \in Proc : ChangesPolicy(q)' /\ pc'[q] = "start" => q \notin ack'.disputed
        BY <1>1, <2>1, <2>2 DEF EgressInv, NetInv, Solo, ChangesPolicy
      <3> QED BY <2>2, <2>3, <3>1, <3>2, <3>3 DEF NetInv
    <2>5. ASSUME NEW q \in Proc PROVE SaveInv(q)' /\ CallInv(q)' /\ RunInv(q)'
      <3>1. CASE q = p
        <4>1. CallInv(q)' /\ RunInv(q)'
          BY <1>1, <2>1, <3>1 DEF CallInv, RunInv, ChangesPolicy
        <4>2. Sound(netpol)'
          BY <2>4 DEF NetInv
        <4>3. SaveInv(q)'
          BY <1>1, <2>1, <2>2, <3>1, <4>2 DEF SaveInv, Sound
        <4> QED BY <4>1, <4>3
      <3>2. CASE q # p
        <4>1. ack.asked \subseteq ack'.asked
          BY <2>2
        <4>2. CallInv(q)' /\ RunInv(q)'
          BY <1>1, <3>2, <4>1, LoadedStays DEF EgressInv
        <4>3. ChangesPolicy(q) /\ pc[q] = "save" => q \in ack.busy
          BY DEF EgressInv, NetInv
        <4>4. SaveInv(q)'
          BY <1>1, <2>1, <2>2, <3>2, <4>1, <4>3 DEF EgressInv, SaveInv, ChangesPolicy, Sound, Solo
        <4> QED BY <4>2, <4>4
      <3> QED BY <3>1, <3>2
    <2> QED BY <1>1, <2>4, <2>5 DEF EgressInv, Solo
  <1> QED BY <1>2, <1>3

\* ... and write it back.
LEMMA EgressSave ==
    ASSUME EgressInv, NEW p \in Proc, UNCHANGED cmd, SaveProjectPolicy(p)
    PROVE  EgressInv'
  <1>1. Solo(p) /\ ChangesPolicy(p) /\ pc[p] = "save" /\ p \in ack.busy /\ cmd' = cmd
    BY PolicyFoot DEF EgressInv, NetInv, SaveProjectPolicy, ChangesPolicy
  <1>2. pc'[p] \in {"trace", "done"}
    BY FinishFrame DEF SaveProjectPolicy, EgressInv
  <1>3. PICK saved \in BOOLEAN :
           /\ EndsPolicyChange(p, saved)
           /\ IF saved THEN netpol' = Changed(loc[p].policy, cmd[p].name, loc[p].domain) ELSE netpol' = netpol
    BY DEF SaveProjectPolicy
  <1>4. /\ ack'.busy = ack.busy \ {p} /\ ack'.asked = ack.asked /\ ack'.disputed = ack.disputed
        /\ DOMAIN ack' = {"standing", "asked", "busy", "disputed"}
        /\ ack'.standing = IF saved /\ cmd[p].name = "deny" /\ p \notin ack.disputed
                           THEN ack.standing \cup {loc[p].domain} ELSE ack.standing
    BY <1>3 DEF EndsPolicyChange, EgressInv, NetInv
  <1>5. ack'.busy = {q \in Proc : ChangesPolicy(q) /\ pc[q] = "save"}'
    BY <1>1, <1>2, <1>4 DEF EgressInv, NetInv, Solo, ChangesPolicy
  <1>6. SaveInv(p) /\ Sound(loc[p].policy)
    BY <1>1 DEF EgressInv, SaveInv
  <1>7. Sound(netpol)'
    BY <1>1, <1>3, <1>4, <1>6 DEF EgressInv, NetInv, SaveInv, Sound, Changed, ChangesPolicy
  <1>8. ack'.standing \subseteq netpol'.deny
    <2>1. CASE p \in ack.disputed
      BY <1>1, <1>4, <2>1 DEF EgressInv, NetInv
    <2>2. CASE p \notin ack.disputed
      BY <1>1, <1>3, <1>4, <1>6, <2>2 DEF EgressInv, NetInv, SaveInv, Changed, ChangesPolicy
    <2> QED BY <2>1, <2>2
  <1>9. ack'.busy \cap ack'.disputed # {} => ack'.standing = {}
    BY <1>1, <1>4, <1>6 DEF EgressInv, NetInv, SaveInv
  <1>10. \A q \in Proc : ChangesPolicy(q)' /\ pc'[q] = "start" => q \notin ack'.disputed
    BY <1>1, <1>2, <1>4 DEF EgressInv, NetInv, Solo, ChangesPolicy
  <1>11. NetInv'
    BY <1>4, <1>5, <1>7, <1>8, <1>9, <1>10 DEF NetInv
  <1>12. ASSUME NEW q \in Proc PROVE SaveInv(q)' /\ CallInv(q)' /\ RunInv(q)'
    <2>1. CASE q = p
      BY <1>1, <1>2, <2>1 DEF SaveInv, CallInv, RunInv, ChangesPolicy
    <2>2. CASE q # p
      <3>1. CallInv(q)' /\ RunInv(q)'
        BY <1>1, <1>4, <2>2, LoadedStays DEF EgressInv
      <3>2. ChangesPolicy(q) /\ pc[q] = "save" => q \in ack.disputed
        BY <1>1, <2>2 DEF EgressInv, SaveInv
      <3>3. SaveInv(q)'
        BY <1>1, <1>4, <2>2, <3>2 DEF EgressInv, SaveInv, ChangesPolicy, Sound, Solo
      <3> QED BY <3>1, <3>3
    <2> QED BY <2>1, <2>2
  <1> QED BY <1>1, <1>11, <1>12 DEF EgressInv, Solo

\* A process that is killed no longer changes the policy.
LEMMA EgressKill ==
    ASSUME EgressInv, NEW p \in Proc, UNCHANGED cmd, Kill(p)
    PROVE  EgressInv'
  <1>1. Solo(p) /\ UNCHANGED <<loc, netpol>> /\ cmd' = cmd /\ pc'[p] = "done"
    BY KillFoot, ExitIs DEF Kill, EgressInv
  <1>2. /\ ack'.busy = ack.busy \ {p} /\ ack'.asked = ack.asked /\ ack'.disputed = ack.disputed
        /\ ack'.standing = ack.standing /\ DOMAIN ack' = {"standing", "asked", "busy", "disputed"}
    BY DEF Kill, EgressInv, NetInv
  <1>3. ack'.busy = {q \in Proc : ChangesPolicy(q) /\ pc[q] = "save"}'
    BY <1>1, <1>2 DEF EgressInv, NetInv, Solo, ChangesPolicy
  <1>4. NetInv'
    BY <1>1, <1>2, <1>3 DEF EgressInv, NetInv, Sound, Solo, ChangesPolicy
  <1>5. ASSUME NEW q \in Proc PROVE SaveInv(q)' /\ CallInv(q)' /\ RunInv(q)'
    <2>1. CASE q = p
      <3>1. CallInv(q)' /\ SaveInv(q)'
        BY <1>1, <1>2, <2>1 DEF EgressInv, CallInv, SaveInv, ReaderInv
      <3>2. RunInv(q)'
        BY <1>1, <1>2, <2>1 DEF EgressInv, RunInv, ReaderInv, RunShape, GuardInv
      <3> QED BY <3>1, <3>2
    <2>2. CASE q # p
      <3>1. CallInv(q)' /\ RunInv(q)'
        BY <1>1, <1>2, <2>2, LoadedStays DEF EgressInv
      <3>2. ChangesPolicy(q) /\ pc[q] = "save" => q \in ack.busy
        BY DEF EgressInv, NetInv
      <3>3. SaveInv(q)'
        BY <1>1, <1>2, <2>2, <3>2 DEF EgressInv, SaveInv, ChangesPolicy, Sound, Solo
      <3> QED BY <3>1, <3>3
    <2> QED BY <2>1, <2>2
  <1> QED BY <1>1, <1>4, <1>5 DEF EgressInv, Solo

\* A brokered call reaches the host its policy allowed.
LEMMA EgressCall ==
    ASSUME EgressInv, NEW p \in Proc, UNCHANGED cmd, CallCommand(p)
    PROVE  EgressInv'
  <1>1. Solo(p) /\ UNCHANGED net /\ cmd' = cmd /\ ack' = ack /\ cmd[p].name = "call" /\ FrameInv /\ CallInv(p)
    BY CallFoot, NameOfOthers DEF EgressInv, net
  <1>2. CallInv(p)'
    <2>1. CASE UNCHANGED loc /\ pc'[p] \notin {"send", "start"} /\ (pc'[p] \in {"body", "url"} => pc[p] \in {"start", "body"})
      BY <1>1, <2>1 DEF CallInv, ReaderInv
    <2>2. CASE CallPrepare(p) \/ CallBody(p) \/ CallAnswered(p)
      BY <1>1, <2>1, <2>2, GotoIs, ExitIs DEF CallPrepare, CallBody, CallAnswered, RejectCall, Fail, At
    <2>3. CASE CallUrl(p)
      <3>1. CASE UNCHANGED loc /\ pc'[p] = "done"
        BY <2>1, <3>1
      <3>2. CASE loc'[p] = Loaded /\ pc'[p] = "send" /\ Decision(netpol, cmd[p].host) = "Allow"
        BY <1>1, <3>2 DEF CallInv, ReaderInv, Loaded, EgressInv, NetInv, Sound
      <3> QED BY <1>1, <2>3, <3>1, <3>2, SetIs, GotoIs, ExitIs DEF CallUrl, RejectCall, Fail
    <2>4. CASE CallSend(p) \/ CallFails(p)
      <3>1. pc[p] = "send" /\ DOMAIN loc[p] = {"policy", "standing", "reached"} /\ ReaderInv(loc[p])
               /\ Decision(loc[p].policy, cmd[p].host) = "Allow"
        BY <1>1, <2>4 DEF CallInv, CallSend, CallFails, At
      <3>2. /\ pc'[p] \in {"done", "answered"}
            /\ loc'[p].policy = loc[p].policy /\ loc'[p].standing = loc[p].standing /\ loc'[p].reached = {cmd[p].host}
        <4>1. CASE Set(p, [loc[p] EXCEPT !.reached = {cmd[p].host}]) /\ Exit(p, Failure)
          BY <1>1, <3>1, <4>1, SetIs, ExitIs
        <4>2. CASE /\ Goto(p, "answered")
                   /\ \E ok, image : Set(p, [policy |-> loc[p].policy, standing |-> loc[p].standing,
                                            reached |-> {cmd[p].host}, ok |-> ok, image |-> image])
          BY <1>1, <4>2, SetIs, GotoIs
        <4> QED BY <2>4, <4>1, <4>2, Zenon DEF CallSend, CallFails
      <3> QED BY <1>1, <3>1, <3>2 DEF CallInv, ReaderInv
    <2> QED BY <2>2, <2>3, <2>4 DEF CallCommand
  <1> QED BY <1>1, <1>2, EgressStep DEF RunInv, ChangesPolicy

\* A step of a run that has started.
LEMMA EgressRunStep ==
    ASSUME EgressInv, NEW p \in Proc, Solo(p), UNCHANGED net, cmd[p].name = "run", pc[p] \notin {"start", "done"},
           RunShape(loc[p])', ReaderInv(loc[p])', GuardInv(p, loc[p])', pc'[p] = "policy" => Unused(loc[p])',
           pc'[p] # "start"
    PROVE  EgressInv'
  <1>1. CallInv(p)' /\ RunInv(p)' /\ ~ChangesPolicy(p)
    BY DEF CallInv, RunInv, ChangesPolicy, Solo
  <1> QED BY <1>1, EgressStep

\* What a run that has started knows.
LEMMA RunKnows ==
    ASSUME EgressInv, NEW p \in Proc, cmd[p].name = "run", pc[p] \notin {"start", "done"}
    PROVE  RunShape(loc[p]) /\ ReaderInv(loc[p]) /\ GuardInv(p, loc[p]) /\ (pc[p] = "policy" => Unused(loc[p]))
  BY DEF EgressInv, RunInv, RunShape, RunFields

\* The connections, the policy and the sink of a run are as they were.
SameGuard(r, s) ==
    /\ DOMAIN s = RunFields
    /\ s.policy = r.policy /\ s.standing = r.standing /\ s.reached = r.reached
    /\ s.conn = r.conn /\ s.sinkFailed = r.sinkFailed /\ s.vouched = r.vouched

\* A step that leaves them alone.
LEMMA EgressRunPlain ==
    ASSUME EgressInv, NEW p \in Proc, Solo(p), UNCHANGED net, cmd[p].name = "run", pc[p] \notin {"start", "done"},
           SameGuard(loc[p], loc'[p]), pc'[p] # "start",
           pc'[p] = "policy" => pc[p] = "policy" /\ loc'[p].egress = "off"
    PROVE  EgressInv'
  <1>1. RunShape(loc[p]) /\ ReaderInv(loc[p]) /\ GuardInv(p, loc[p]) /\ (pc[p] = "policy" => Unused(loc[p]))
    BY RunKnows
  <1>2. ack' = ack /\ cmd' = cmd
    BY DEF Solo, net
  <1>3. RunShape(loc[p])' /\ ReaderInv(loc[p])'
    BY <1>1, <1>2 DEF RunShape, ReaderInv, SameGuard
  <1>4. GuardInv(p, loc[p])' /\ (pc'[p] = "policy" => Unused(loc[p])')
    BY <1>1, <1>2 DEF GuardInv, Unused, SameGuard
  <1> QED BY <1>3, <1>4, EgressRunStep

\* A run that ends or gives up keeps what it knew.
LEMMA EgressRunEnds ==
    ASSUME EgressInv, NEW p \in Proc, Solo(p), UNCHANGED net, cmd[p].name = "run", UNCHANGED loc,
           pc'[p] = "done" \/ (pc'[p] \notin {"start", "policy"} /\ pc[p] \notin {"start", "done"})
    PROVE  EgressInv'
  <1>1. ack' = ack /\ cmd' = cmd
    BY DEF Solo, net
  <1>2. RunInv(p)'
    BY <1>1 DEF EgressInv, RunInv, RunShape, ReaderInv, GuardInv
  <1> QED BY <1>1, <1>2, EgressStep DEF CallInv, ChangesPolicy

\* Starting, loading the policy and asking the sink.
LEMMA EgressRunTurns ==
    ASSUME EgressInv, NEW p \in Proc, UNCHANGED cmd, RunStarts(p) \/ RunLoadsPolicy(p) \/ RunDrained(p)
    PROVE  EgressInv'
  <1>1. /\ Solo(p) /\ UNCHANGED net /\ cmd' = cmd /\ ack' = ack /\ netpol' = netpol
        /\ cmd[p].name = "run" /\ FrameInv
    BY RunFoot, NameOfRun DEF EgressInv, net, RunCommand
  <1>2. CASE Fail(p)
    BY <1>1, <1>2, FailSolo, ExitIs, EgressRunEnds DEF Fail
  <1>3. CASE RunStarts(p) /\ ~Fail(p)
    <2>1. loc'[p] = [RunState EXCEPT !.proxy = "on"] /\ pc'[p] = "policy"
      BY <1>1, <1>3, StepSolo DEF RunStarts
    <2> DEFINE r == [RunState EXCEPT !.proxy = "on"]
    <2>2. /\ DOMAIN r = RunFields /\ r.policy = EmptyPolicy /\ r.standing = {} /\ r.reached = {} /\ r.egress = "off"
          /\ r.conn = [c \in Conn |-> Idle] /\ r.vouched = {}
      BY DEF RunState, RunFields
    <2> HIDE DEF r
    <2>3. RunShape(r) /\ ReaderInv(r)' /\ GuardInv(p, r)' /\ Unused(r)
      BY <2>2 DEF RunShape, ReaderInv, GuardInv, Unused, EmptyPolicy, Idle, Due
    <2>4. RunInv(p)'
      BY <1>1, <2>1, <2>3 DEF RunInv, RunShape, ReaderInv, GuardInv, Unused, r
    <2> QED BY <1>1, <2>4, EgressStep DEF CallInv, ChangesPolicy
  <1>4. CASE RunLoadsPolicy(p)
    <2>1. pc[p] = "policy"
      BY <1>4 DEF RunLoadsPolicy, Run, At
    <2>2. RunShape(loc[p]) /\ ReaderInv(loc[p]) /\ GuardInv(p, loc[p]) /\ Unused(loc[p])
      BY <1>1, <2>1, RunKnows
    <2>3. CASE Step(p, [loc[p] EXCEPT !.policy = netpol, !.standing = ack.standing], "egress")
      <3> DEFINE r == [loc[p] EXCEPT !.policy = netpol, !.standing = ack.standing]
      <3>1. loc'[p] = r /\ pc'[p] = "egress"
        BY <1>1, <2>3, StepSolo
      <3>2. /\ DOMAIN r = RunFields /\ r.policy = netpol /\ r.standing = ack.standing /\ r.reached = {}
            /\ r.conn = loc[p].conn /\ r.sinkFailed = loc[p].sinkFailed /\ r.vouched = loc[p].vouched
        BY <2>2 DEF RunShape, RunFields, Unused
      <3> HIDE DEF r
      <3>3. RunShape(loc[p])' /\ GuardInv(p, loc[p])'
        BY <1>1, <2>2, <3>1, <3>2 DEF RunShape, GuardInv, Unused
      <3>4. ReaderInv(loc[p])'
        BY <1>1, <3>1, <3>2 DEF ReaderInv, EgressInv, NetInv, Sound
      <3> QED BY <1>1, <2>1, <3>1, <3>3, <3>4, EgressRunStep
    <2>4. CASE Step(p, [loc[p] EXCEPT !.proxy = "cancelled"], "abandon")
      <3> DEFINE r == [loc[p] EXCEPT !.proxy = "cancelled"]
      <3>1. loc'[p] = r /\ pc'[p] = "abandon"
        BY <1>1, <2>4, StepSolo
      <3>2. SameGuard(loc[p], r)
        BY <2>2 DEF RunShape, RunFields, SameGuard
      <3> HIDE DEF r
      <3> QED BY <1>1, <2>1, <3>1, <3>2, EgressRunPlain
    <2> QED BY <1>4, <2>3, <2>4 DEF RunLoadsPolicy
  <1>5. CASE RunDrained(p) /\ ~Fail(p)
    <2>1. pc[p] = "drain" /\ ~loc[p].sinkFailed
      BY <1>5 DEF RunDrained, Run, At
    <2>2. RunShape(loc[p]) /\ ReaderInv(loc[p]) /\ GuardInv(p, loc[p])
      BY <1>1, <2>1, RunKnows
    <2> DEFINE r == [loc[p] EXCEPT !.vouched = Answered(p)]
    <2>3. loc'[p] = r /\ pc'[p] = "session"
      BY <1>1, <1>5, <2>1, StepSolo DEF RunDrained
    <2>4. /\ DOMAIN r = RunFields /\ r.policy = loc[p].policy /\ r.standing = loc[p].standing
          /\ r.reached = loc[p].reached /\ r.conn = loc[p].conn
          /\ r.sinkFailed = loc[p].sinkFailed /\ r.vouched = Answered(p)
      BY <2>2 DEF RunShape, RunFields
    <2> HIDE DEF r
    <2>5. RunShape(loc[p])' /\ ReaderInv(loc[p])'
      BY <1>1, <2>2, <2>3, <2>4 DEF RunShape, ReaderInv
    <2>6. GuardInv(p, loc[p])'
      BY <1>1, <2>1, <2>2, <2>3, <2>4 DEF GuardInv, Answered, Due
    <2> QED BY <1>1, <2>1, <2>3, <2>5, <2>6, EgressRunStep
  <1> QED BY <1>2, <1>3, <1>4, <1>5

\* The other steps of the command itself and of the agent.
LEMMA EgressRunRest ==
    ASSUME EgressInv, NEW p \in Proc, UNCHANGED cmd,
           \/ RunBindsEgress(p) \/ RunAbandons(p) \/ RunSpawns(p) \/ ProxyStops(p) \/ EgressStops(p)
           \/ RunCollects(p) \/ RunCancels(p) \/ RunReports(p) \/ AgentExits(p) \/ HolderExits(p)
           \/ OutputLost(p) \/ AgentAsksProxy(p) \/ ProxyAnswers(p) \/ EgressAcceptFails(p)
    PROVE  EgressInv'
  <1>1. /\ Solo(p) /\ UNCHANGED net /\ cmd[p].name = "run" /\ FrameInv
    BY RunFoot, NameOfRun DEF EgressInv, RunCommand, RunEnvironment
  <1>2. CASE Fail(p)
    BY <1>1, <1>2, FailSolo, ExitIs, EgressRunEnds DEF Fail
  <1>3. CASE RunReports(p) /\ UNCHANGED loc
    BY <1>1, <1>3, ExitIs, EgressRunEnds DEF RunReports, Run, At, Fail
  <1>5. ASSUME pc[p] \notin {"start", "done"}, SameGuard(loc[p], loc'[p]), pc'[p] # "start",
               pc'[p] = "policy" => pc[p] = "policy" /\ loc'[p].egress \in {"off", loc[p].egress}
        PROVE  EgressInv'
    BY <1>1, <1>5, RunKnows, EgressRunPlain DEF Unused
  <1>6. pc[p] \notin {"start", "done"} => DOMAIN loc[p] = RunFields
    BY <1>1, RunKnows DEF RunShape
  <1>7. ASSUME NEW v, NEW label, Step(p, v, label), SameGuard(loc[p], v), pc[p] \notin {"start", "done"},
               label \notin {"start", "policy"}
        PROVE  EgressInv'
    BY <1>1, <1>5, <1>7, StepSolo
  <1>8. ASSUME NEW v, Upd(p, v), SameGuard(loc[p], v), v.egress \in {"off", loc[p].egress},
               pc[p] \notin {"start", "done"}
        PROVE  EgressInv'
    BY <1>1, <1>5, <1>8, UpdSolo
  <1>9. CASE RunBindsEgress(p) \/ RunSpawns(p) \/ RunCancels(p) \/ OutputLost(p)
    <2>1. pc[p] \in {"egress", "spawn", "cancel", "wait"}
      BY <1>9 DEF RunBindsEgress, RunSpawns, RunCancels, OutputLost, Run, At
    <2>2. /\ SameGuard(loc[p], [loc[p] EXCEPT !.egress = "on"])
          /\ SameGuard(loc[p], [loc[p] EXCEPT !.proxy = "cancelled"])
          /\ SameGuard(loc[p], [loc[p] EXCEPT !.agent = "alive"])
          /\ SameGuard(loc[p], [loc[p] EXCEPT !.agent = "unstarted"])
          /\ SameGuard(loc[p], [loc[p] EXCEPT !.code = Failure])
          /\ SameGuard(loc[p], [loc[p] EXCEPT !.proxy = "cancelled", !.egress = "cancelled"])
      BY <1>6, <2>1 DEF SameGuard, RunFields
    <2> QED BY <1>7, <1>9, <2>1, <2>2 DEF RunBindsEgress, RunSpawns, RunCancels, OutputLost
  <1>10. CASE ProxyStops(p) \/ EgressStops(p) \/ AgentAsksProxy(p) \/ ProxyAnswers(p) \/ EgressAcceptFails(p)
              \/ HolderExits(p)
    <2>1. pc[p] \notin {"start", "done"}
      BY <1>1, <1>10 DEF ProxyStops, EgressStops, AgentAsksProxy, ProxyAnswers, EgressAcceptFails, HolderExits,
           Run, At, EgressInv, RunInv
    <2>2. ASSUME NEW v, v \in {[loc[p] EXCEPT !.proxy = "off"], [loc[p] EXCEPT !.egress = "off"],
                               [loc[p] EXCEPT !.inflight = TRUE], [loc[p] EXCEPT !.inflight = FALSE]}
                              \cup {[loc[p] EXCEPT !.holders = @ \ closed] : closed \in SUBSET loc[p].holders}
          PROVE  SameGuard(loc[p], v) /\ v.egress \in {"off", loc[p].egress}
      BY <1>6, <2>1, <2>2 DEF SameGuard, RunFields
    <2> QED BY <1>8, <1>10, <2>1, <2>2 DEF ProxyStops, EgressStops, AgentAsksProxy, ProxyAnswers, EgressAcceptFails,
              HolderExits
  <1>11. CASE AgentExits(p)
    <2>1. pc[p] = "wait"
      BY <1>11 DEF AgentExits, Run, At
    <2>2. PICK holders, code : Upd(p, [loc[p] EXCEPT !.agent = "gone", !.holders = holders, !.code = code])
      BY <1>11 DEF AgentExits
    <2> DEFINE v == [loc[p] EXCEPT !.agent = "gone", !.holders = holders, !.code = code]
    <2>3. SameGuard(loc[p], v) /\ v.egress = loc[p].egress
      BY <1>6, <2>1 DEF SameGuard, RunFields
    <2> QED BY <1>8, <2>1, <2>2, <2>3
  <1>12. CASE RunCollects(p)
    <2>1. PICK code : Set(p, [loc[p] EXCEPT !.code = code])
      BY <1>12 DEF RunCollects
    <2>2. pc[p] = "wait" /\ pc'[p] = "cancel"
      BY <1>1, <1>12, GotoIs DEF RunCollects, Run, At
    <2> DEFINE v == [loc[p] EXCEPT !.code = code]
    <2>3. SameGuard(loc[p], v)
      BY <1>6, <2>2 DEF SameGuard, RunFields
    <2>4. loc'[p] = v
      BY <1>1, <2>1, SetIs
    <2> QED BY <1>5, <2>2, <2>3, <2>4
  <1>13. RunAbandons(p) => Fail(p)
    BY DEF RunAbandons
  <1>14. RunReports(p) => UNCHANGED loc
    BY DEF RunReports, Fail
  <1> QED BY <1>2, <1>3, <1>9, <1>10, <1>11, <1>12, <1>13, <1>14

\* A step on one connection, which ends up as the record x.
SameBut(r, s, c, x) ==
    /\ DOMAIN s = RunFields /\ DOMAIN s.conn = Conn
    /\ s.policy = r.policy /\ s.standing = r.standing /\ s.vouched = r.vouched
    /\ s.conn[c] = x /\ \A d \in Conn : d # c => s.conn[d] = r.conn[d]

\* It does what the guard owes: nothing is dialled or reached but by the policy, and no record is lost.
Serves(p, c, x, reached) ==
    /\ SameBut(loc[p], loc'[p], c, x) /\ DOMAIN x = {"state", "host", "traced"}
    /\ loc'[p].reached = loc[p].reached \cup reached /\ (loc[p].sinkFailed => loc'[p].sinkFailed)
    /\ \A host \in reached : Decision(loc[p].policy, host) = "Allow"
    /\ x.state = "dial" => Decision(loc[p].policy, x.host) = "Allow"
    /\ cmd[p].trace /\ ~loc'[p].sinkFailed /\ x.state \in Due => x.traced
    /\ loc[p].conn[c].state \in Due => x.state \in Due /\ x.traced = loc[p].conn[c].traced

\* Such a step keeps the invariant.
LEMMA EgressConn ==
    ASSUME EgressInv, NEW p \in Proc, Solo(p), UNCHANGED <<pc, net>>, cmd[p].name = "run",
           NEW c \in Conn, pc[p] \notin {"start", "done"}, loc[p].conn[c].state # "none" \/ loc[p].egress = "on",
           NEW x, NEW reached, Serves(p, c, x, reached)
    PROVE  EgressInv'
  <1>1. RunShape(loc[p]) /\ ReaderInv(loc[p]) /\ GuardInv(p, loc[p]) /\ pc[p] # "policy"
    BY RunKnows DEF Unused
  <1>2. ack' = ack /\ cmd' = cmd /\ pc' = pc
    BY DEF Solo, net
  <1>3. RunShape(loc[p])' /\ ReaderInv(loc[p])'
    BY <1>1, <1>2 DEF RunShape, ReaderInv, SameBut, Serves
  <1>4. GuardInv(p, loc[p])'
    BY <1>1, <1>2 DEF GuardInv, SameBut, Serves
  <1> QED BY <1>1, <1>2, <1>3, <1>4, EgressRunStep

\* emit_egress_trace: the record is written, or the sink has failed.
LEMMA EgressEmits ==
    ASSUME EgressInv, NEW p \in Proc, UNCHANGED <<cmd, pc, exit, net, shown>>, cmd[p].name = "run",
           NEW c \in Conn, pc[p] \notin {"start", "done"}, loc[p].conn[c].state \in {"header", "dial"},
           NEW state \in Due, NEW outcome, NEW issue, NEW reached,
           EmitEgressTrace(p, c, state, outcome, issue, reached),
           \A host \in reached : Decision(loc[p].policy, host) = "Allow"
    PROVE  EgressInv'
  <1>1. RunShape(loc[p])
    BY RunKnows
  <1>2. Solo(p)
    BY EmitSolo DEF EgressInv
  <1>3. PICK b \in BOOLEAN :
           Set(p, [loc[p] EXCEPT !.conn[c] = [state |-> state, host |-> <<>>, traced |-> b], !.reached = @ \cup reached,
                                 !.sinkFailed = @ \/ (cmd[p].trace /\ ~b)])
    BY Zenon DEF EmitEgressTrace
  <1> DEFINE x == [state |-> state, host |-> <<>>, traced |-> b]
             s == [loc[p] EXCEPT !.conn[c] = x, !.reached = @ \cup reached, !.sinkFailed = @ \/ (cmd[p].trace /\ ~b)]
  <1>4. loc'[p] = s
    BY <1>3, SetIs DEF EgressInv
  <1>5. DOMAIN x = {"state", "host", "traced"} /\ x.state = state /\ x.traced = b
    OBVIOUS
  <1> HIDE DEF x
  <1>6. /\ SameBut(loc[p], s, c, x) /\ s.reached = loc[p].reached \cup reached
        /\ s.sinkFailed = (loc[p].sinkFailed \/ (cmd[p].trace /\ ~b))
    BY <1>1 DEF SameBut, RunShape, RunFields
  <1> HIDE DEF s
  <1>7. /\ loc[p].sinkFailed => s.sinkFailed
        /\ cmd[p].trace /\ ~s.sinkFailed => b
    BY <1>6
  <1>8. /\ loc[p].conn[c].state # "none" /\ loc[p].conn[c].state \notin Due /\ x.state # "dial"
        /\ cmd[p].trace /\ ~s.sinkFailed /\ x.state \in Due => x.traced
    BY <1>5, <1>7 DEF Due
  <1>9. Serves(p, c, x, reached)
    BY <1>4, <1>5, <1>6, <1>7, <1>8 DEF Serves
  <1> QED BY <1>2, <1>8, <1>9, EgressConn

\* The egress guard.
LEMMA EgressGuard ==
    ASSUME EgressInv, NEW p \in Proc, UNCHANGED cmd, NEW c \in Conn,
           \/ EgressAccepts(p, c) \/ EgressHeaderFails(p, c) \/ EgressDecides(p, c)
           \/ EgressDialFails(p, c) \/ EgressTunnels(p, c) \/ EgressCloses(p, c)
    PROVE  EgressInv'
  <1>1. /\ Solo(p) /\ UNCHANGED net /\ cmd[p].name = "run" /\ FrameInv
    BY RunFoot, NameOfRun DEF EgressInv, RunEnvironment
  <1>2. pc[p] \notin {"start", "done"}
    BY DEF EgressAccepts, EgressHeaderFails, EgressDecides, EgressDialFails, EgressTunnels, EgressCloses, Serving
  <1>3. RunShape(loc[p]) /\ GuardInv(p, loc[p])
    BY <1>1, <1>2, RunKnows
  <1>4. ASSUME NEW state, Upd(p, [loc[p] EXCEPT !.conn[c].state = state]), state # "dial",
               loc[p].conn[c].state # "none" \/ loc[p].egress = "on",
               state \in Due => loc[p].conn[c].state \in Due, loc[p].conn[c].state \in Due => state \in Due
        PROVE  EgressInv'
    <2> DEFINE x == [loc[p].conn[c] EXCEPT !.state = state]
               s == [loc[p] EXCEPT !.conn[c].state = state]
    <2>1. loc'[p] = s /\ UNCHANGED pc
      BY <1>1, <1>4, UpdSolo
    <2>2. DOMAIN x = {"state", "host", "traced"} /\ x.state = state /\ x.traced = loc[p].conn[c].traced
      BY <1>3 DEF RunShape
    <2>3. SameBut(loc[p], s, c, x) /\ s.reached = loc[p].reached /\ s.sinkFailed = loc[p].sinkFailed
      BY <1>3 DEF SameBut, RunShape, RunFields
    <2> HIDE DEF x, s
    <2>4. cmd[p].trace /\ ~s.sinkFailed /\ x.state \in Due => x.traced
      BY <1>3, <1>4, <2>2, <2>3 DEF GuardInv
    <2>5. s.reached = loc[p].reached \cup {}
      BY <2>3
    <2>6. Serves(p, c, x, {}) /\ UNCHANGED <<pc, net>>
      BY <1>1, <1>4, <2>1, <2>2, <2>3, <2>4, <2>5 DEF Serves
    <2> QED BY <1>1, <1>2, <1>4, <2>6, EgressConn
  <1>5. CASE EgressAccepts(p, c) \/ EgressHeaderFails(p, c) \/ EgressCloses(p, c)
    BY <1>4, <1>5 DEF EgressAccepts, EgressHeaderFails, EgressCloses, Serving, Due
  <1>6. CASE EgressDialFails(p, c)
    BY <1>1, <1>2, <1>6, EgressEmits DEF EgressDialFails, Serving, Due
  <1>7. CASE EgressTunnels(p, c)
    BY <1>1, <1>2, <1>3, <1>7, EgressEmits DEF EgressTunnels, Serving, Due, GuardInv
  <1>8. CASE EgressDecides(p, c)
    <2>1. UNCHANGED <<pc, exit, net, shown>> /\ loc[p].conn[c].state = "header"
      BY <1>8 DEF EgressDecides, Serving
    <2>2. CASE EmitEgressTrace(p, c, "answered", "Rejected", "RouteNotAllowed", {})
      BY <1>1, <1>2, <2>1, <2>2, EgressEmits DEF Due
    <2>3. CASE \E host \in Hosts : Decision(loc[p].policy, host) = "Allow"
                  /\ Set(p, [loc[p] EXCEPT !.conn[c] = [@ EXCEPT !.state = "dial", !.host = host]])
      <3>1. PICK host \in Hosts : Decision(loc[p].policy, host) = "Allow"
                  /\ Set(p, [loc[p] EXCEPT !.conn[c] = [@ EXCEPT !.state = "dial", !.host = host]])
        BY <2>3
      <3> DEFINE x == [loc[p].conn[c] EXCEPT !.state = "dial", !.host = host]
                 s == [loc[p] EXCEPT !.conn[c] = [@ EXCEPT !.state = "dial", !.host = host]]
      <3>2. loc'[p] = s
        BY <1>1, <3>1, SetIs
      <3>3. DOMAIN x = {"state", "host", "traced"} /\ x.state = "dial" /\ x.host = host
        BY <1>3 DEF RunShape
      <3>4. SameBut(loc[p], s, c, x) /\ s.reached = loc[p].reached \cup {} /\ s.sinkFailed = loc[p].sinkFailed
        BY <1>3 DEF SameBut, RunShape, RunFields
      <3> HIDE DEF x, s
      <3>5. Serves(p, c, x, {}) /\ UNCHANGED <<pc, net>> /\ loc[p].conn[c].state # "none"
        BY <1>1, <2>1, <3>1, <3>2, <3>3, <3>4 DEF Serves, Due
      <3> QED BY <1>1, <1>2, <3>5, EgressConn
    <2> QED BY <1>8, <2>2, <2>3, Zenon DEF EgressDecides
  <1> QED BY <1>5, <1>6, <1>7, <1>8

\* Every step of a process.
LEMMA EgressCommand ==
    ASSUME EgressInv, NEW p \in Proc, UNCHANGED cmd, Command(p) \/ RunEnvironment(p) \/ Kill(p)
    PROVE  EgressInv'
  <1>1. CASE Mask(p) \/ RedactCommand(p)
    <2>1. cmd[p].name \in {"mask", "redact"}
      BY <1>1, NameOfMask
    <2> QED BY <1>1, <2>1, MaskFoot, RedactFoot, EgressQuiet DEF EgressInv
  <1>2. CASE \/ VaultCommand(p) \/ AuditCommand(p) \/ TraceCommand(p) \/ StatusCommand(p)
             \/ ScanCommand(p) \/ DiffCommand(p) \/ McpCommand(p)
    <2>1. cmd[p].name \in {"vault", "audit", "trace", "status", "scan", "diff-check", "mcp"}
      BY <1>2, NameOfOthers
    <2>2. Solo(p) /\ UNCHANGED net
      BY <1>2, VaultFoot, SmallFoot, TraceFoot, ScanFoot, DiffFoot, McpFoot DEF EgressInv
    <2> QED BY <2>1, <2>2, EgressQuiet
  <1>3. CASE TracedCommand(p)
    <2>1. Solo(p) /\ UNCHANGED net
      BY <1>3, TraceFoot DEF EgressInv
    <2>2. cmd' = cmd /\ cmd[p].name \in Traced /\ pc[p] = "trace" /\ pc'[p] = "done"
      BY <1>3, ExitIs DEF TracedCommand, Fail, EgressInv
    <2>3. CallInv(p)' /\ RunInv(p)'
      BY <2>2 DEF CallInv, RunInv, Traced
    <2> QED BY <2>1, <2>2, <2>3, EgressStep
  <1>4. CASE RunCommand(p) \/ RunEnvironment(p)
    BY <1>4, EgressRunTurns, EgressRunRest, EgressGuard DEF RunCommand, RunEnvironment
  <1> QED BY <1>1, <1>2, <1>3, <1>4, EgressLoad, EgressSave, EgressCall, EgressKill DEF Command

\* At the start nothing is asked for and no policy is loaded.
LEMMA EgressInit == Init => EgressInv
  <1> SUFFICES ASSUME Init PROVE EgressInv
    OBVIOUS
  <1>1. FrameInv
    BY DEF Init, FrameInv
  <1>2. \A p \in Proc : pc[p] \in {"start", "done"} /\ DOMAIN loc[p] = {"code"}
    BY DEF Init
  <1>3. NetInv
    BY <1>2 DEF Init, NetInv, Sound, EmptyPolicy
  <1>4. ASSUME NEW p \in Proc PROVE SaveInv(p) /\ CallInv(p) /\ RunInv(p)
    BY <1>2 DEF SaveInv, CallInv, RunInv
  <1> QED BY <1>1, <1>3, <1>4 DEF EgressInv

\* EgressInv is inductive.
LEMMA EgressInvariance == Spec => []EgressInv
  <1>1. EgressInv /\ [Next]_vars => EgressInv'
    <2> SUFFICES ASSUME EgressInv, [Next]_vars PROVE EgressInv'
      OBVIOUS
    <2>1. CASE UNCHANGED vars
      BY <2>1 DEF vars, EgressInv, FrameInv, NetInv, Sound, SaveInv, CallInv, RunInv, ReaderInv, RunShape, GuardInv,
           Unused, ChangesPolicy
    <2> QED BY <2>1, EgressCommand DEF Next, Ended
  <1> QED BY <1>1, EgressInit, PTL DEF Spec

\* Whatever the interleaving of allow, deny, call and run, a host is reached only by leave of the
\* user and of the denies that stood when the policy was read.
THEOREM EgressSafe == Spec => []EgressJustified
  <1>1. EgressInv => EgressJustified
    <2> SUFFICES ASSUME EgressInv PROVE EgressJustified
      OBVIOUS
    <2>1. ack.standing \subseteq netpol.deny /\ netpol.allow \cap netpol.deny = {}
      BY DEF EgressInv, NetInv, Sound
    <2>2. ASSUME NEW p \in Proc, cmd[p].name \in {"call", "run"}, "reached" \in DOMAIN loc[p],
                 NEW host \in loc[p].reached
          PROVE  /\ ~Covered(host, Providers)
                 /\ Covered(host, DefaultAllowed \cup ack.asked)
                 /\ ~Covered(host, loc[p].standing)
      <3>1. ReaderInv(loc[p])
        BY <2>2 DEF EgressInv, CallInv, RunInv
      <3>2. Decision(loc[p].policy, host) = "Allow"
        BY <3>1 DEF ReaderInv
      <3> QED BY <3>1, <3>2 DEF ReaderInv, Decision, Covered
    <2> QED BY <2>1, <2>2 DEF EgressJustified
  <1> QED BY <1>1, EgressInvariance, PTL

-----------------------------------------------------------------------------
(* Success is recorded *)

Good == {Success, FoundSecrets, Incomplete}
\* A command asked to be traced, other than trace itself; whether its record is in the file, or was and a
\* trace clear removed it.
Owes(p) == cmd[p].trace /\ cmd[p].name # "trace"
InTraces(p) == \E t \in traces : t.by = p /\ t.route = cmd[p].name
Recorded(p) == TracesCleared \/ InTraces(p)

\* mask and redact record before they write.
Writes(p) == cmd[p].name \in {"mask", "redact"} /\ pc[p] \in {"write", "fill"}

\* The inductive invariant: a good exit has its record, and so has what is about to be written.
RecordInv ==
    /\ FrameInv
    /\ \A p \in Proc : pc[p] # "done" => exit[p] = Running
    /\ \A p \in Proc : Owes(p) /\ (exit[p] \in Good \/ Writes(p)) => Recorded(p)
    /\ \A p \in Proc : cmd[p].name = "run" /\ exit[p] = Success => "reached" \in DOMAIN loc[p]

\* A process that has ended takes no step.
LEMMA Live ==
    ASSUME NEW p, Command(p) \/ RunEnvironment(p) \/ Kill(p)
    PROVE  pc[p] # "done"
  <1>1. CASE Mask(p) \/ RedactCommand(p)
    BY <1>1 DEF Mask, RedactCommand, MaskCheckOutput, MaskPrepare, MaskStore, Masked, MaskAudit, RedactText,
         TransformTrace, FillOutput, At
  <1>2. CASE \/ VaultCommand(p) \/ AuditCommand(p) \/ TraceCommand(p) \/ LoadProjectPolicy(p)
             \/ SaveProjectPolicy(p) \/ StatusCommand(p) \/ CallCommand(p) \/ TracedCommand(p) \/ Kill(p)
    BY <1>2 DEF VaultCommand, PutEnv, ClearVault, BestEffortAudit, ListVault, AuditCommand, TraceCommand,
         LoadProjectPolicy, SaveProjectPolicy, StatusCommand, CallCommand, CallPrepare, CallBody, CallUrl,
         CallSend, CallFails, CallAnswered, TracedCommand, Kill, At
  <1>3. CASE ScanCommand(p) \/ DiffCommand(p) \/ McpCommand(p)
    BY <1>3 DEF ScanCommand, ScanBegins, ScanSkips, ScanIoError, ScanDescends, ScanReads, ScanReports, Walking,
         DiffCommand, DiffBegins, DiffReads, DiffEnds, DiffReports, McpCommand, McpBegins, McpReads, McpEnds, At
  <1>4. CASE RunCommand(p) \/ RunEnvironment(p)
    BY <1>4 DEF RunCommand, RunEnvironment, RunStarts, RunLoadsPolicy, RunBindsEgress, RunAbandons, RunSpawns,
         ProxyStops, EgressStops, RunCollects, RunCancels, RunDrained, RunReports, AgentExits, HolderExits,
         OutputLost, AgentAsksProxy, ProxyAnswers, EgressAcceptFails, EgressAccepts, EgressHeaderFails, EgressDecides,
         EgressDialFails, EgressTunnels, EgressCloses, Serving, Run, At
  <1> QED BY <1>1, <1>2, <1>3, <1>4 DEF Command

\* What a step owes: a process goes on or ends, the traces grow but by trace clear, and a good end
\* or the way to the output has its record.
Accounts(p) ==
    /\ pc'[p] # "done" => exit'[p] = exit[p]
    /\ traces \subseteq traces' \/ (cmd[p].name = "trace" /\ cmd[p].sub = "clear" /\ exit'[p] = Success)
    /\ Owes(p) /\ (exit'[p] \in Good \/ Writes(p)') => Recorded(p) \/ InTraces(p)'
    /\ cmd[p].name = "run" /\ exit'[p] = Success => "reached" \in DOMAIN loc'[p]

\* A step that accounts for its own process keeps the records of the others.
LEMMA RecordStep ==
    ASSUME RecordInv, NEW p \in Proc, Solo(p), pc[p] # "done", Accounts(p)
    PROVE  RecordInv'
  <1>1. FrameInv' /\ cmd' = cmd
    BY DEF Solo
  <1>2. \A q \in Proc : pc'[q] # "done" => exit'[q] = Running
    BY DEF RecordInv, Solo, Accounts
  <1>3. TracesCleared => TracesCleared'
    BY <1>1 DEF TracesCleared, RecordInv, Solo, Success, Running
  <1>4. ASSUME NEW q \in Proc, Recorded(q) PROVE Recorded(q)'
    BY <1>1, <1>3, <1>4 DEF Recorded, InTraces, TracesCleared, Accounts
  <1>5. ASSUME NEW q \in Proc, Owes(q)', exit'[q] \in Good \/ Writes(q)' PROVE Recorded(q)'
    <2>1. CASE q = p
      BY <1>1, <1>4, <1>5, <2>1 DEF Accounts, Owes, Recorded
    <2>2. CASE q # p
      <3>1. Owes(q) /\ (exit[q] \in Good \/ Writes(q))
        BY <1>1, <1>5, <2>2 DEF Owes, Writes, Solo
      <3> QED BY <1>4, <3>1 DEF RecordInv
    <2> QED BY <2>1, <2>2
  <1>6. \A q \in Proc : cmd'[q].name = "run" /\ exit'[q] = Success => "reached" \in DOMAIN loc'[q]
    BY <1>1 DEF RecordInv, Accounts, Solo
  <1> QED BY <1>1, <1>2, <1>5, <1>6 DEF RecordInv, Good

\* A step that does not end the command, of a command that writes no file.
LEMMA RecordGoesOn ==
    ASSUME RecordInv, NEW p \in Proc, Solo(p), pc[p] # "done", exit' = exit, traces \subseteq traces',
           cmd[p].name \notin {"mask", "redact"}
    PROVE  RecordInv'
  <1>1. exit[p] = Running
    BY DEF RecordInv
  <1>2. Accounts(p)
    BY <1>1 DEF Accounts, Writes, Solo, Good, Running, Success, FoundSecrets, Incomplete
  <1> QED BY <1>2, RecordStep

\* A step that fails.
LEMMA RecordFails ==
    ASSUME RecordInv, NEW p \in Proc, Solo(p), pc[p] # "done", pc'[p] = "done", exit'[p] \in {Failure, Killed},
           traces \subseteq traces'
    PROVE  RecordInv'
  <1>1. Accounts(p)
    BY DEF Accounts, Writes, Good, Failure, Killed, Success, FoundSecrets, Incomplete
  <1> QED BY <1>1, RecordStep

\* The end of a command that goes through traced_command.
LEMMA RecordFinish ==
    ASSUME RecordInv, NEW p \in Proc, Solo(p), pc[p] # "done", cmd[p].name \in Traced,
           NEW code, Finish(p, code), UNCHANGED traces
    PROVE  RecordInv'
  <1>1. exit[p] = Running /\ FrameInv /\ cmd' = cmd
    BY DEF RecordInv, Solo
  <1>2. \/ pc'[p] = "trace" /\ exit' = exit
        \/ ~cmd[p].trace /\ pc'[p] = "done"
    BY <1>1, FinishIs
  <1>3. Accounts(p)
    BY <1>1, <1>2 DEF Accounts, Owes, Writes, Traced, Good, Running, Success, FoundSecrets, Incomplete
  <1> QED BY <1>3, RecordStep

\* A step that ends the command with its record, whatever the exit code.
LEMMA RecordEnds ==
    ASSUME RecordInv, NEW p \in Proc, Solo(p), pc[p] # "done", pc'[p] = "done", traces \subseteq traces',
           cmd[p].trace => Recorded(p) \/ InTraces(p)', cmd[p].name = "run" => "reached" \in DOMAIN loc'[p]
    PROVE  RecordInv'
  <1>1. Accounts(p)
    BY DEF Accounts, Writes, Owes
  <1> QED BY <1>1, RecordStep

\* A record under the name of the command is its record.
LEMMA AppendIs ==
    ASSUME NEW p, NEW route, NEW coverage, NEW outcome, NEW issue, NEW swaps,
           AppendTrace(p, route, coverage, outcome, issue, swaps), UNCHANGED cmd
    PROVE  traces \subseteq traces' /\ (route = cmd[p].name => InTraces(p)')
  <1> DEFINE t == [by |-> p, route |-> route, coverage |-> coverage, outcome |-> outcome,
                   issue |-> issue, swaps |-> swaps]
  <1>1. traces' = traces \cup {t} /\ t.by = p /\ t.route = route
    BY DEF AppendTrace
  <1> HIDE DEF t
  <1> QED BY <1>1 DEF InTraces

\* The commands that end through traced_command.
LEMMA RecordTraced ==
    ASSUME RecordInv, NEW p \in Proc, UNCHANGED cmd,
           \/ VaultCommand(p) \/ AuditCommand(p) \/ StatusCommand(p) \/ LoadProjectPolicy(p)
           \/ SaveProjectPolicy(p) \/ DiffCommand(p) \/ McpCommand(p) \/ TracedCommand(p)
    PROVE  RecordInv'
  <1>1. pc[p] # "done" /\ FrameInv /\ cmd' = cmd
    BY Live DEF Command, RecordInv
  <1>2. CASE TracedCommand(p)
    <2>1. Solo(p) /\ UNCHANGED loc /\ cmd[p].name \in Traced /\ pc'[p] = "done"
      BY <1>1, <1>2, TraceFoot, ExitIs DEF TracedCommand, Fail
    <2>2. CASE Fail(p)
      BY <1>1, <2>1, <2>2, ExitIs, RecordFails DEF Fail
    <2>3. CASE ~Fail(p)
      <3>1. traces \subseteq traces' /\ InTraces(p)'
        BY <1>1, <1>2, <2>3, AppendIs DEF TracedCommand
      <3> QED BY <1>1, <2>1, <3>1, RecordEnds DEF Traced
    <2> QED BY <2>2, <2>3
  <1>3. CASE ~TracedCommand(p)
    <2>1. cmd[p].name \in Traced
      BY <1>3, NameOfOthers DEF Traced
    <2>2. Solo(p) /\ UNCHANGED traces
      BY <1>1, <1>3, VaultFoot, SmallFoot, PolicyFoot, DiffFoot, McpFoot
    <2>3. (\E label : Goto(p, label)) \/ UNCHANGED exit \/ (\E code : Finish(p, code))
      BY <1>3, Zenon DEF VaultCommand, PutEnv, ClearVault, BestEffortAudit, ListVault, AuditCommand, StatusCommand,
           LoadProjectPolicy, SaveProjectPolicy, DiffCommand, DiffBegins, DiffReads, DiffEnds, DiffReports,
           McpCommand, McpBegins, McpReads, McpEnds, Refuse
    <2>4. CASE UNCHANGED exit
      BY <1>1, <2>1, <2>2, <2>4, RecordGoesOn DEF Traced
    <2> QED BY <1>1, <2>1, <2>2, <2>3, <2>4, RecordFinish DEF Goto
  <1> QED BY <1>2, <1>3

\* mask and redact.
LEMMA RecordMask ==
    ASSUME RecordInv, NEW p \in Proc, UNCHANGED cmd, Mask(p) \/ RedactCommand(p)
    PROVE  RecordInv'
  <1>1. /\ pc[p] # "done" /\ FrameInv /\ cmd' = cmd /\ Solo(p) /\ cmd[p].name \in {"mask", "redact"}
        /\ exit[p] = Running
    BY Live, MaskFoot, RedactFoot, NameOfMask DEF Command, RecordInv
  <1>2. CASE TransformTrace(p, Detect(cmd[p].text))
    <2>1. CASE Fail(p)
      BY <1>1, <2>1, ExitIs, RecordFails DEF Fail
    <2>2. CASE ~Fail(p)
      <3>1. exit' = exit /\ traces \subseteq traces' /\ (cmd[p].trace => InTraces(p)')
        BY <1>1, <1>2, <2>2, AppendIs, GotoIs DEF TransformTrace
      <3>2. Accounts(p)
        BY <1>1, <3>1 DEF Accounts, Owes
      <3> QED BY <1>1, <3>2, RecordStep
    <2> QED BY <2>1, <2>2
  <1>3. CASE pc[p] = "fill" \/ (pc[p] = "write" /\ WriteTransformedOutput(p, loc[p].image))
    <2>1. CASE Fail(p)
      BY <1>1, <2>1, ExitIs, RecordFails DEF Fail
    <2>2. CASE ~Fail(p)
      <3>1. UNCHANGED traces /\ (pc'[p] # "done" => exit' = exit)
        BY <1>1, <1>3, <2>2, ExitIs, GotoIs DEF Mask, RedactCommand, MaskCheckOutput, MaskPrepare, MaskStore, Masked,
             MaskAudit, RedactText, TransformTrace, FillOutput, At, WriteTransformedOutput, WriteStdout,
             ReplaceOutput, CreateOutput, OutputFails
      <3>2. Owes(p) => Recorded(p)
        BY <1>1, <1>3 DEF RecordInv, Writes
      <3>3. Accounts(p)
        BY <1>1, <3>1, <3>2 DEF Accounts
      <3> QED BY <1>1, <3>3, RecordStep
    <2> QED BY <2>1, <2>2
  <1>4. CASE MaskCheckOutput(p) \/ MaskPrepare(p) \/ MaskStore(p) \/ Masked(p) \/ MaskAudit(p) \/ RedactText(p)
    <2>1. UNCHANGED traces /\ pc[p] \notin {"write", "fill"}
      BY <1>4 DEF MaskCheckOutput, MaskPrepare, MaskStore, Masked, MaskAudit, RedactText, Fail, At
    <2>2. \/ pc'[p] = "done" /\ exit'[p] = Failure
          \/ pc'[p] \notin {"write", "fill"} /\ exit' = exit
      BY <1>1, <1>4, <2>1, ExitIs, GotoIs DEF MaskCheckOutput, MaskPrepare, MaskStore, Masked, MaskAudit, RedactText, Fail
    <2>3. CASE pc'[p] = "done" /\ exit'[p] = Failure
      BY <1>1, <2>1, <2>3, RecordFails
    <2>4. CASE pc'[p] \notin {"write", "fill"} /\ exit' = exit
      <3>1. Accounts(p)
        BY <1>1, <2>1, <2>4 DEF Accounts, Writes, Good, Running, Success, FoundSecrets, Incomplete
      <3> QED BY <1>1, <3>1, RecordStep
    <2> QED BY <2>2, <2>3, <2>4
  <1> QED BY <1>2, <1>3, <1>4 DEF Mask, RedactCommand, FillOutput, At

\* trace, call and scan.
LEMMA RecordOwn ==
    ASSUME RecordInv, NEW p \in Proc, UNCHANGED cmd, TraceCommand(p) \/ CallCommand(p) \/ ScanCommand(p)
    PROVE  RecordInv'
  <1>1. /\ pc[p] # "done" /\ FrameInv /\ cmd' = cmd /\ Solo(p) /\ cmd[p].name \in {"trace", "call", "scan"}
        /\ exit[p] = Running
    BY Live, TraceFoot, CallFoot, ScanFoot, NameOfOthers DEF Command, RecordInv
  <1>2. CASE Fail(p)
    BY <1>1, <1>2, ExitIs, RecordFails DEF Fail
  <1>3. CASE TraceCommand(p) /\ ~Fail(p)
    <2>1. pc'[p] = "done" /\ exit'[p] = Success /\ cmd[p].name = "trace"
          /\ (traces \subseteq traces' \/ cmd[p].sub = "clear")
      BY <1>1, <1>3, ExitIs DEF TraceCommand, At
    <2>2. Accounts(p)
      BY <2>1 DEF Accounts, Owes
    <2> QED BY <1>1, <2>2, RecordStep
  <1>4. CASE CallAnswered(p) /\ ~Fail(p)
    <2>1. pc'[p] = "done" /\ cmd[p].name = "call" /\ traces \subseteq traces' /\ (cmd[p].trace => InTraces(p)')
      BY <1>1, <1>4, ExitIs, AppendIs DEF CallAnswered, At
    <2> QED BY <1>1, <2>1, RecordEnds
  <1>5. CASE ScanReports(p) /\ ~Fail(p)
    <2>1. pc'[p] = "done" /\ cmd[p].name = "scan" /\ traces \subseteq traces' /\ (cmd[p].trace => InTraces(p)')
      BY <1>1, <1>5, ExitIs, AppendIs DEF ScanReports, At
    <2> QED BY <1>1, <2>1, RecordEnds
  <1>6. ASSUME NEW issue, RejectCall(p, issue) PROVE RecordInv'
    <2>1. pc'[p] = "done" /\ exit'[p] = Failure /\ traces \subseteq traces'
      BY <1>1, <1>6, ExitIs, AppendIs DEF RejectCall
    <2> QED BY <1>1, <2>1, RecordFails
  <1>7. CASE UNCHANGED <<exit, traces>>
    BY <1>1, <1>7, RecordGoesOn
  <1>8. CASE Exit(p, Failure) /\ UNCHANGED traces
    BY <1>1, <1>8, ExitIs, RecordFails
  <1>9. CASE CallPrepare(p) \/ CallBody(p) \/ CallUrl(p) \/ CallSend(p) \/ CallFails(p)
    <2>1. Fail(p) \/ (\E issue : RejectCall(p, issue)) \/ UNCHANGED <<exit, traces>>
            \/ (Exit(p, Failure) /\ UNCHANGED traces)
      BY <1>9 DEF CallPrepare, CallBody, CallUrl, CallSend, CallFails, Goto
    <2> QED BY <1>2, <1>6, <1>7, <1>8, <2>1
  <1>10. CASE ScanBegins(p) \/ ScanSkips(p) \/ ScanIoError(p) \/ ScanDescends(p) \/ ScanReads(p)
    <2>1. Fail(p) \/ UNCHANGED <<exit, traces>>
      BY <1>10 DEF ScanBegins, ScanSkips, ScanIoError, ScanDescends, ScanReads, Walk, Goto
    <2> QED BY <1>2, <1>7, <2>1
  <1> QED BY <1>2, <1>3, <1>4, <1>5, <1>9, <1>10 DEF CallCommand, ScanCommand

\* run: only the last step of a run that was set up ends it well.
LEMMA RecordRun ==
    ASSUME RecordInv, EgressInv, NEW p \in Proc, UNCHANGED cmd, RunCommand(p) \/ RunEnvironment(p)
    PROVE  RecordInv'
  <1>1. /\ pc[p] # "done" /\ FrameInv /\ cmd' = cmd /\ Solo(p) /\ cmd[p].name = "run" /\ exit[p] = Running
    BY Live, RunFoot, NameOfRun DEF Command, RecordInv
  <1>2. CASE Fail(p)
    BY <1>1, <1>2, ExitIs, RecordFails DEF Fail
  <1>3. CASE RunReports(p) /\ ~Fail(p)
    <2>1. pc[p] = "session" /\ UNCHANGED loc
      BY <1>3 DEF RunReports, Run, At
    <2>2. "reached" \in DOMAIN loc'[p]
      BY <1>1, <2>1, RunKnows DEF RunShape, RunFields
    <2>3. pc'[p] = "done" /\ traces \subseteq traces' /\ (cmd[p].trace => InTraces(p)')
      BY <1>1, <1>3, ExitIs, AppendIs DEF RunReports
    <2> QED BY <1>1, <2>2, <2>3, RecordEnds
  <1>4. CASE exit' = exit /\ traces \subseteq traces'
    BY <1>1, <1>4, RecordGoesOn
  <1>5. CASE ~RunReports(p) /\ RunCommand(p)
    <2>1. Fail(p) \/ (exit' = exit /\ traces' = traces)
      BY <1>5, Zenon DEF RunCommand, RunStarts, RunLoadsPolicy, RunBindsEgress, RunAbandons, RunSpawns, ProxyStops,
           EgressStops, RunCollects, RunCancels, RunDrained, Step, Upd, Goto
    <2> QED BY <1>2, <1>4, <2>1
  <1>6. ASSUME NEW c, NEW state, NEW outcome, NEW issue, NEW reached,
               EmitEgressTrace(p, c, state, outcome, issue, reached)
        PROVE  traces \subseteq traces'
    <2>1. UNCHANGED traces \/ \E coverage : AppendTrace(p, "egress", coverage, outcome, issue, {})
      BY <1>6, Zenon DEF EmitEgressTrace
    <2> QED BY <1>1, <2>1, AppendIs
  <1>7. CASE RunEnvironment(p)
    <2>1. \/ exit' = exit /\ traces' = traces
          \/ exit' = exit /\ \E c, state, outcome, issue, reached :
                                EmitEgressTrace(p, c, state, outcome, issue, reached)
      BY <1>7, Zenon DEF RunEnvironment, AgentExits, HolderExits, OutputLost, AgentAsksProxy, ProxyAnswers,
           EgressAcceptFails, EgressAccepts, EgressHeaderFails, EgressDecides, EgressDialFails, EgressTunnels,
           EgressCloses, Upd, Step, Goto
    <2> QED BY <1>4, <1>6, <2>1
  <1> QED BY <1>2, <1>3, <1>5, <1>7

\* No process has ended at the start.
LEMMA RecordInit == Init => RecordInv
  <1> SUFFICES ASSUME Init PROVE RecordInv
    OBVIOUS
  <1>1. FrameInv
    BY DEF Init, FrameInv
  <1>2. ASSUME NEW p \in Proc PROVE exit[p] = Running /\ pc[p] \in {"start", "done"}
    BY DEF Init
  <1> QED BY <1>1, <1>2 DEF RecordInv, Writes, Good, Running, Success, FoundSecrets, Incomplete

\* With --trace a command that does not fail has left its record, and a run the records of every
\* tunnel it vouched for.
THEOREM SuccessIsRecorded == Spec => []SuccessRecorded
  <1>1. RecordInv /\ EgressInv /\ [Next]_vars => RecordInv'
    <2> SUFFICES ASSUME RecordInv, EgressInv, [Next]_vars PROVE RecordInv'
      OBVIOUS
    <2>1. CASE UNCHANGED vars
      BY <2>1 DEF vars, RecordInv, FrameInv, Owes, Writes, Recorded, InTraces, TracesCleared
    <2>2. ASSUME NEW p \in Proc, Command(p) \/ RunEnvironment(p) \/ Kill(p), UNCHANGED cmd
          PROVE  RecordInv'
      <3>1. CASE Kill(p)
        BY <2>2, <3>1, KillFoot, ExitIs, RecordFails DEF Kill, RecordInv
      <3> QED BY <2>2, <3>1, RecordTraced, RecordMask, RecordOwn, RecordRun DEF Command
    <2> QED BY <2>1, <2>2 DEF Next, Ended
  <1>2. RecordInv /\ EgressInv => SuccessRecorded
    <2> SUFFICES ASSUME RecordInv, EgressInv PROVE SuccessRecorded
      OBVIOUS
    <2>1. ASSUME NEW p \in Proc, exit[p] \in Good, cmd[p].trace, cmd[p].name # "trace"
          PROVE  TracesCleared \/ \E t \in traces : t.by = p /\ t.route = cmd[p].name
      BY <2>1 DEF RecordInv, Owes, Recorded, InTraces
    <2>2. ASSUME NEW p \in Proc, cmd[p].name = "run", exit[p] = Success, cmd[p].trace, NEW c \in loc[p].vouched
          PROVE  loc[p].conn[c].traced
      <3>1. GuardInv(p, loc[p])
        BY <2>2 DEF RecordInv, EgressInv, RunInv
      <3> QED BY <2>2, <3>1 DEF GuardInv
    <2> QED BY <2>1, <2>2 DEF SuccessRecorded, Good
  <1> QED BY <1>1, <1>2, RecordInit, EgressInvariance, PTL DEF Spec

-----------------------------------------------------------------------------
(* No value stands whole in what a command writes *)

\* Among finite sets there is one with no smaller one: what stands in for induction.
LEMMA LeastSet ==
    ASSUME NEW S, IsFiniteSet(S), NEW B, B \subseteq SUBSET S, B # {}
    PROVE  \E F \in B : \A G \in B : G \subseteq F => G = F
  <1>1. IsWellFoundedOn(StrictSubsetOrdering(S), SUBSET S)
    BY FS_StrictSubsetOrderingWellFounded, FS_FiniteSubsetsOfFinite
  <1>2. PICK F \in B : \A G \in B : <<G, F>> \notin StrictSubsetOrdering(S)
    BY <1>1, WFMin
  <1>3. ASSUME NEW G \in B, G \subseteq F PROVE G = F
    <2>1. <<G, F>> \in (SUBSET S) \X (SUBSET S) /\ <<G, F>>[1] = G /\ <<G, F>>[2] = F
      OBVIOUS
    <2>2. <<G, F>> \notin StrictSubsetOrdering(S)
      BY <1>2
    <2> QED BY <1>3, <2>1, <2>2 DEF StrictSubsetOrdering
  <1> QED BY <1>3

\* A finite set has an element that comes before no other, in any strict order.
LEMMA LastOf ==
    ASSUME NEW S, IsFiniteSet(S), S # {}, NEW R, \A x \in S : <<x, x>> \notin R,
           \A x, y, z \in S : <<x, y>> \in R /\ <<y, z>> \in R => <<x, z>> \in R
    PROVE  \E x \in S : \A y \in S : <<x, y>> \notin R
  <1> DEFINE B == {F \in SUBSET S : F # {} /\ \A x \in F : \E y \in F : <<x, y>> \in R}
  <1>1. \A F : F \in B <=> F \subseteq S /\ F # {} /\ \A x \in F : \E y \in F : <<x, y>> \in R
    OBVIOUS
  <1> HIDE DEF B
  <1> SUFFICES ASSUME S \in B PROVE FALSE
    BY <1>1
  <1>2. PICK F \in B : \A G \in B : G \subseteq F => G = F
    <2>1. B \subseteq SUBSET S /\ B # {}
      BY <1>1
    <2> QED BY <2>1, LeastSet
  <1>3. PICK x \in F : TRUE
    BY <1>1, <1>2
  <1>4. F \ {x} \notin B /\ F \ {x} \subseteq S
    BY <1>1, <1>2, <1>3
  <1>5. CASE F \ {x} = {}
    <2>1. x \in S /\ \E y \in F : <<x, y>> \in R
      BY <1>1, <1>2, <1>3
    <2>2. \A y \in F : y = x
      BY <1>5
    <2> QED BY <2>1, <2>2
  <1>6. CASE F \ {x} # {}
    <2>1. PICK y \in F \ {x} : \A z \in F \ {x} : <<y, z>> \notin R
      BY <1>1, <1>4, <1>6
    <2>2. PICK z \in F : <<x, z>> \in R
      BY <1>1, <1>2, <1>3
    <2>3. PICK w \in F : <<y, w>> \in R
      BY <1>1, <1>2, <2>1
    <2>4. w = x /\ z # x /\ x \in S /\ y \in S /\ z \in S
      BY <1>1, <1>2, <1>3, <2>1, <2>2, <2>3
    <2> QED BY <2>1, <2>2, <2>3, <2>4
  <1> QED BY <1>5, <1>6

\* The selection of resolve_overlaps as an equation: a finding is selected iff no selected one that
\* comes before it overlaps it.
Greedy(found, selected) ==
    \A f \in found : f \in selected <=> \A g \in selected : Before(g, f) => ~Overlaps(g, f)

\* The selection of resolve_overlaps exists.
LEMMA GreedyExists ==
    ASSUME NEW found, IsFiniteSet(found), \A f \in found : ~Before(f, f),
           \A f, g, h \in found : Before(f, g) /\ Before(g, h) => Before(f, h)
    PROVE  \E selected \in SUBSET found : Greedy(found, selected)
  <1> DEFINE B == {F \in SUBSET found : ~\E selected \in SUBSET F : Greedy(F, selected)}
             R == {ss \in found \X found : Before(ss[1], ss[2])}
  <1>0. \A F : F \in B <=> F \subseteq found /\ ~\E selected \in SUBSET F : Greedy(F, selected)
    OBVIOUS
  <1> HIDE DEF B
  <1> SUFFICES ASSUME found \in B PROVE FALSE
    BY <1>0
  <1>1. PICK F \in B : \A G \in B : G \subseteq F => G = F
    <2>1. B \subseteq SUBSET found /\ B # {}
      BY <1>0
    <2> QED BY <2>1, LeastSet
  <1>2. \A f, g \in found : <<f, g>> \in R <=> Before(f, g)
    OBVIOUS
  <1> HIDE DEF R
  <1>3. F # {}
    BY <1>0, <1>1 DEF Greedy
  <1>4. PICK x \in F : \A y \in F : <<x, y>> \notin R
    <2>1. IsFiniteSet(F)
      BY <1>0, <1>1, FS_Subset
    <2>2. (\A f \in F : <<f, f>> \notin R) /\ \A f, g, h \in F : <<f, g>> \in R /\ <<g, h>> \in R => <<f, h>> \in R
      BY <1>0, <1>1, <1>2
    <2> QED BY <1>3, <2>1, <2>2, LastOf
  <1>5. \A y \in F : ~Before(x, y)
    BY <1>0, <1>1, <1>2, <1>4
  <1>6. PICK selected \in SUBSET (F \ {x}) : Greedy(F \ {x}, selected)
    <2>1. F \ {x} \subseteq found /\ F \ {x} \notin B
      BY <1>0, <1>1, <1>4
    <2> QED BY <1>0, <2>1
  <1>7. CASE \A g \in selected : Before(g, x) => ~Overlaps(g, x)
    <2>1. Greedy(F, selected \cup {x})
      BY <1>4, <1>5, <1>6, <1>7 DEF Greedy
    <2> QED BY <1>0, <1>1, <1>4, <1>6, <2>1
  <1>8. CASE ~(\A g \in selected : Before(g, x) => ~Overlaps(g, x))
    <2>1. Greedy(F, selected)
      BY <1>4, <1>5, <1>6, <1>8 DEF Greedy
    <2> QED BY <1>0, <1>1, <1>4, <1>6, <2>1
  <1> QED BY <1>7, <1>8

\* What the detectors report of one site, if anything.
Reports(s, f) ==
    \/ /\ s.form = "pattern" /\ Length(s) >= s.min /\ ~(s.kind = "PemPrivateKey" /\ s.cut)
       /\ f = Finding(s, s.kind, IF s.kind = "BearerToken" THEN High ELSE Certain)
    \/ /\ s.form = "url" /\ s.valid /\ ~s.cut /\ Length(s) > 0
       /\ f = Finding(s, "CredentialUrl", Certain)
    \/ /\ s.form \in {"email", "phone"} /\ s.valid /\ Length(s) >= s.min
       /\ f = Finding(s, IF s.form = "email" THEN "EmailAddress" ELSE "PhoneNumber", High)
    \/ /\ s.form = "assignment" /\ s.kind \in DOMAIN Classes /\ HasValueSpan(s)
       /\ Length(s) <= MaxContextLength /\ Length(s) >= MinimumContextLength(Classes[s.kind][1]) /\ s.valid
       /\ f = Finding(s, Classes[s.kind][1], Classes[s.kind][2])

\* The candidates are what the detectors report of the sites, one by one.
LEMMA CandidatesAre ==
    ASSUME NEW text, NEW f
    PROVE  f \in Candidates(text) <=> \E s \in text : Reports(s, f)
  <1>1. f \in KnownFormats(text) <=>
           \E s \in text : /\ s.form = "pattern" /\ Length(s) >= s.min /\ ~(s.kind = "PemPrivateKey" /\ s.cut)
                           /\ f = Finding(s, s.kind, IF s.kind = "BearerToken" THEN High ELSE Certain)
    BY Zenon DEF KnownFormats
  <1>2. f \in CredentialUrls(text) <=>
           \E s \in text : /\ s.form = "url" /\ s.valid /\ ~s.cut /\ Length(s) > 0
                           /\ f = Finding(s, "CredentialUrl", Certain)
    BY Zenon DEF CredentialUrls
  <1>3. f \in EmailsAndPhones(text) <=>
           \E s \in text : /\ s.form \in {"email", "phone"} /\ s.valid /\ Length(s) >= s.min
                           /\ f = Finding(s, IF s.form = "email" THEN "EmailAddress" ELSE "PhoneNumber", High)
    BY Zenon DEF EmailsAndPhones
  <1>4. f \in ContextualDetector(text) <=>
           \E s \in text : /\ s.form = "assignment" /\ s.kind \in DOMAIN Classes /\ HasValueSpan(s)
                           /\ Length(s) <= MaxContextLength
                           /\ Length(s) >= MinimumContextLength(Classes[s.kind][1]) /\ s.valid
                           /\ f = Finding(s, Classes[s.kind][1], Classes[s.kind][2])
    BY Zenon DEF ContextualDetector
  <1> QED BY <1>1, <1>2, <1>3, <1>4, Zenon DEF Candidates, Reports

\* The kinds of the catalogue.
Kinds == {SecretKind[n] : n \in DOMAIN SecretKind}

\* A finding has the span of its site, which is not empty.
LEMMA ReportShape ==
    ASSUME NEW text, IsText(text), NEW s \in text, NEW f, Reports(s, f)
    PROVE  /\ f.from = s.from /\ f.to = s.to /\ f.from \in Nat /\ f.to \in Nat /\ f.from < f.to
           /\ f.confidence \in 1 .. 3 /\ KindRank(f.kind) \in 1 .. 17
  <1>1. s.from \in Nat /\ s.to \in Nat /\ s.min \in Nat \ {0} /\ (s.form = "pattern" => s.kind \in Kinds)
    BY DEF IsText, Kinds
  <1>2. ASSUME NEW kind \in Kinds PROVE KindRank(kind) \in 1 .. 17
    <2>1. DOMAIN SecretKind = 1 .. 17
      BY DEF SecretKind
    <2>2. \E n \in DOMAIN SecretKind : SecretKind[n] = kind
      BY <1>2 DEF Kinds
    <2>3. KindRank(kind) \in DOMAIN SecretKind
      BY <2>2, Zenon DEF KindRank
    <2> QED BY <2>1, <2>3
  <1>3. {"CredentialUrl", "EmailAddress", "PhoneNumber", "AwsSecretAccessKey", "Password", "ApiKey", "Token"} \subseteq Kinds
    BY DEF Kinds, SecretKind
  <1>4. PICK kind \in Kinds, confidence \in 1 .. 3 : f = Finding(s, kind, confidence)
    BY <1>1, <1>3 DEF Reports, Classes, High, Certain, Contextual
  <1>5. s.from < s.to
    BY <1>1 DEF Reports, Length, HasValueSpan
  <1> QED BY <1>1, <1>2, <1>4, <1>5 DEF Finding

\* The sort key is a strict order.
LEMMA BeforeOrder ==
    ASSUME NEW text, IsText(text)
    PROVE  /\ \A f \in Candidates(text) : ~Before(f, f)
           /\ \A f, g, h \in Candidates(text) : Before(f, g) /\ Before(g, h) => Before(f, h)
  <1>1. \A f \in Candidates(text) :
            f.from \in Nat /\ f.to \in Nat /\ f.confidence \in 1 .. 3 /\ KindRank(f.kind) \in 1 .. 17
    BY CandidatesAre, ReportShape
  <1> QED BY <1>1 DEF Before, Length

\* A text has finitely many candidates, at most one of each site.
LEMMA CandidatesFinite ==
    ASSUME NEW text, IsText(text)
    PROVE  IsFiniteSet(Candidates(text))
  <1>1. ASSUME NEW s, NEW f, NEW g, Reports(s, f), Reports(s, g) PROVE f = g
    BY <1>1 DEF Reports
  <1> DEFINE S == {s \in text : \E f : Reports(s, f)}
             M == [s \in S |-> CHOOSE f : Reports(s, f)]
  <1>2. IsFiniteSet(S)
    BY FS_Subset DEF IsText
  <1>3. \A s \in S : s \in text /\ Reports(s, M[s])
    OBVIOUS
  <1>4. M \in [S -> Candidates(text)]
    BY <1>3, CandidatesAre
  <1>5. \A f \in Candidates(text) : \E s \in S : M[s] = f
    BY <1>1, <1>3, CandidatesAre
  <1>6. M \in Surjection(S, Candidates(text))
    BY <1>4, <1>5, Zenon DEF Surjection
  <1> QED BY <1>2, <1>6, FS_Surjection

\* Every value the detectors report is replaced, or overlaps one that is.
LEMMA DetectCovers ==
    ASSUME NEW text, IsText(text)
    PROVE  \A f \in Candidates(text) : \E g \in Detect(text) : Overlaps(f, g)
  <1> DEFINE found == Candidates(text)
             selected == Detect(text)
  <1>1. selected \in SUBSET found /\ Greedy(found, selected)
    <2>1. \E sel \in SUBSET found : Greedy(found, sel)
      BY BeforeOrder, CandidatesFinite, GreedyExists
    <2>2. selected = CHOOSE sel \in SUBSET found : Greedy(found, sel)
      BY Zenon DEF Detect, ResolveOverlaps, Greedy
    <2> QED BY <2>1, <2>2, Zenon
  <1>2. \A f \in found : f.from \in Nat /\ f.to \in Nat /\ f.from < f.to
    BY CandidatesAre, ReportShape
  <1> HIDE DEF found, selected
  <1>3. ASSUME NEW f \in found PROVE \E g \in selected : Overlaps(f, g)
    BY <1>1, <1>2 DEF Greedy, Overlaps
  <1> QED BY <1>3 DEF found, selected

\* Nothing of the text that must not leave stands whole in the image.
Clean(p, image) == image.passed \/ \A f \in Sensitive(p, image.text) : ~Survives(f, image)

\* Who has no exact values to answer for.
LEMMA CleanImage ==
    ASSUME NEW p, NEW image, IsText(image.text),
           NoneExact(image.text) \/ (cmd[p].name = "mcp" /\ cmd[p].direction = "to-agent"),
           \A g \in Detect(image.text) : \E swap \in image.swaps : swap.at = g
    PROVE  Clean(p, image)
  <1>1. \A f \in Sensitive(p, image.text) : f \in Candidates(image.text)
    BY DEF Sensitive, NoneExact
  <1> QED BY <1>1, DetectCovers DEF Clean, Survives

\* Redaction replaces every finding of the text.
LEMMA RedactIs ==
    ASSUME NEW text, NEW mode
    PROVE  /\ Redact(text, mode).text = text
           /\ \A g \in Detect(text) : \E swap \in Redact(text, mode).swaps : swap.at = g
  <1>1. PICK catalog : Redact(text, mode) =
                       Image(text, {[at |-> f, by |-> Replacement(f, mode, catalog)] : f \in Detect(text)})
    BY DEF Redact
  <1>2. /\ Redact(text, mode).text = text
        /\ Redact(text, mode).swaps = {[at |-> f, by |-> Replacement(f, mode, catalog)] : f \in Detect(text)}
    BY <1>1 DEF Image
  <1>3. ASSUME NEW g \in Detect(text) PROVE \E swap \in Redact(text, mode).swaps : swap.at = g
    <2>1. [at |-> g, by |-> Replacement(g, mode, catalog)] \in Redact(text, mode).swaps
      BY <1>2
    <2> QED BY <2>1
  <1> QED BY <1>2, <1>3

\* So a redacted text has no sensitive value whole.
LEMMA RedactClean ==
    ASSUME NEW p, NEW text, NEW mode, IsText(text),
           NoneExact(text) \/ (cmd[p].name = "mcp" /\ cmd[p].direction = "to-agent")
    PROVE  Clean(p, Redact(text, mode))
  BY RedactIs, CleanImage

\* An image of nothing.
LEMMA EmptyClean ==
    ASSUME NEW p, NEW image, image.text = {}
    PROVE  Clean(p, image)
  <1>1. Candidates({}) = {}
    BY DEF Candidates, KnownFormats, CredentialUrls, EmailsAndPhones, ContextualDetector
  <1> QED BY <1>1 DEF Clean, Sensitive

\* sanitize_call_response takes the injected secret out first.
LEMMA CallClean ==
    ASSUME NEW p, NEW response, IsText(response.text)
    PROVE  Clean(p, SanitizeCallResponse(response))
  <1> DEFINE text == response.text
             exact == {s \in text : s.form = "exact"}
             rest == {s \in text : \A e \in exact : ~Overlaps(s, e)}
             image == SanitizeCallResponse(response)
  <1>1. /\ image.text = text
        /\ image.swaps = {[at |-> e, by |-> [form |-> "env", id |-> e.raw]] : e \in exact} \cup SanitizeText(rest).swaps
    BY DEF SanitizeCallResponse, Image
  <1>2. /\ \A e \in exact : \E swap \in image.swaps : swap.at = e
        /\ \A g \in Detect(rest) : \E swap \in image.swaps : swap.at = g
    <2>1. ASSUME NEW e \in exact PROVE \E swap \in image.swaps : swap.at = e
      <3>1. [at |-> e, by |-> [form |-> "env", id |-> e.raw]] \in image.swaps
        BY <1>1
      <3> QED BY <3>1
    <2>2. SanitizeText(rest).swaps \subseteq image.swaps
      BY <1>1
    <2>3. \A r : \A g \in Detect(r) : \E swap \in SanitizeText(r).swaps : swap.at = g
      BY RedactIs DEF SanitizeText
    <2>4. \A g \in Detect(rest) : \E swap \in SanitizeText(rest).swaps : swap.at = g
      BY <2>3
    <2> HIDE DEF rest, image
    <2>5. \A g \in Detect(rest) : \E swap \in image.swaps : swap.at = g
      BY <2>2, <2>4
    <2> QED BY <2>1, <2>5 DEF rest, image
  <1>3. IsText(rest)
    BY FS_Subset DEF IsText
  <1> HIDE DEF image
  <1>4. ASSUME NEW f \in Candidates(text) PROVE ~Survives(f, image)
    <2>1. PICK s \in text : Reports(s, f)
      BY CandidatesAre
    <2>2. f.from = s.from /\ f.to = s.to
      BY <2>1, ReportShape
    <2>3. CASE s \in rest
      <3>1. f \in Candidates(rest)
        BY <2>1, <2>3, CandidatesAre
      <3> QED BY <1>2, <1>3, <3>1, DetectCovers DEF Survives
    <2>4. CASE s \notin rest
      BY <1>2, <2>2, <2>4 DEF Overlaps, Survives
    <2> QED BY <2>3, <2>4
  <1>5. ASSUME NEW e \in exact PROVE ~Survives(e, image)
    <2>1. Overlaps(e, e)
      BY DEF Overlaps, IsText
    <2> QED BY <1>2, <2>1 DEF Survives
  <1> QED BY <1>1, <1>4, <1>5 DEF Clean, Sensitive, image

\* The agent's output, cut or not.
LEMMA OutputClean ==
    ASSUME NEW p, NEW output, IsText(output.text), NoneExact(output.text)
    PROVE  Clean(p, SanitizedOutput(output))
  <1>1. CASE output.length <= OutputLimit
    BY <1>1, RedactClean DEF SanitizedOutput, SanitizeText
  <1>2. CASE ~(output.length <= OutputLimit)
    <2> DEFINE n == OutputLimit - CutMargin
               front == Truncate(output.text, n)
               image == SanitizedOutput(output)
    <2>1. n \in Nat
      BY CutAssumption
    <2>2. image.text = output.text /\ image.end = n /\ image.swaps = SanitizeText(front).swaps
      BY <1>2 DEF SanitizedOutput, Image
    <2> HIDE DEF image, n
    <2>3. \A s \in output.text : s.from < n /\ s.to <= n => s \in front
      BY DEF Truncate
    <2>4. IsText(front)
      <3> DEFINE S == {s \in output.text : s.from < n}
                 M == [s \in S |-> IF s.to <= n THEN s ELSE [s EXCEPT !.to = n, !.cut = TRUE]]
      <3>1. IsFiniteSet(S)
        BY FS_Subset DEF IsText
      <3>2. front = {M[s] : s \in S}
        BY Zenon DEF Truncate
      <3>3. M \in Surjection(S, front)
        BY <3>2 DEF Surjection
      <3>4. IsFiniteSet(front)
        BY <3>1, <3>3, FS_Surjection
      <3>5. ASSUME NEW s \in S, NEW cut, cut = [s EXCEPT !.to = n, !.cut = TRUE]
            PROVE  /\ DOMAIN cut = DOMAIN s /\ cut.to = n /\ cut.from = s.from /\ cut.min = s.min
                   /\ cut.form = s.form /\ cut.kind = s.kind
        BY <3>5 DEF IsText
      <3>6. ASSUME NEW x \in front
            PROVE  /\ DOMAIN x = {"form", "kind", "from", "to", "raw", "min", "valid", "quote", "env", "cut"}
                   /\ x.from \in Nat /\ x.to \in Nat /\ x.min \in Nat \ {0}
                   /\ x.form = "pattern" => \E k \in DOMAIN SecretKind : SecretKind[k] = x.kind
                   /\ x.form = "exact" => x.from < x.to
        <4>1. PICK s \in S : x = s \/ x = [s EXCEPT !.to = n, !.cut = TRUE]
          BY <3>2
        <4>2. s \in output.text /\ s.from < n
          OBVIOUS
        <4> HIDE DEF S, M
        <4>3. CASE x = s
          BY <4>2, <4>3 DEF IsText
        <4>4. CASE x = [s EXCEPT !.to = n, !.cut = TRUE]
          BY <2>1, <3>5, <4>2, <4>4 DEF IsText
        <4> QED BY <4>1, <4>3, <4>4
      <3> QED BY <3>4, <3>6, Zenon DEF IsText
    <2> HIDE DEF front
    <2>5. ASSUME NEW f \in Candidates(output.text), f.to <= n PROVE ~Survives(f, image)
      <3>1. PICK s \in output.text : Reports(s, f)
        BY CandidatesAre
      <3>2. s.from < s.to /\ s.to <= n /\ s.from \in Nat /\ s.to \in Nat
        BY <2>5, <3>1, ReportShape
      <3>3. f \in Candidates(front)
        BY <2>1, <2>3, <3>1, <3>2, CandidatesAre
      <3>4. PICK g \in Detect(front) : Overlaps(f, g)
        BY <2>4, <3>3, DetectCovers
      <3> QED BY <2>2, <3>4, RedactIs DEF SanitizeText, Survives
    <2>6. \A f \in Candidates(output.text) : ~Survives(f, image)
      BY <2>2, <2>5 DEF Survives
    <2> QED BY <2>2, <2>6 DEF Clean, Sensitive, NoneExact, image
  <1> QED BY <1>1, <1>2

\* What a command holds ready to write: mask still has every finding or its replacement.
LocClean(p) ==
    /\ At(p, "mask", "store") =>
          \A f \in Detect(cmd[p].text) : f \in loc[p].todo \/ \E swap \in loc[p].swaps : swap.at = f
    /\ cmd[p].name = "mask" /\ pc[p] \in {"audit", "transformed", "write", "fill"} => Clean(p, loc[p].image)
    /\ cmd[p].name = "redact" /\ pc[p] \in {"transformed", "write", "fill"} => Clean(p, loc[p].image)
    /\ At(p, "call", "answered") => Clean(p, loc[p].image)

\* The inductive invariant: images in hand, shown and written are clean.
WholeInv ==
    /\ FrameInv /\ cmd \in Scenarios
    /\ \A p \in Proc : LocClean(p) /\ \A image \in shown[p] : Clean(p, image)
    /\ \A p \in Proc : out.by = p => Clean(p, out.image)

\* Commands do not change, and so neither does what an image has to answer for.
LEMMA CleanStays ==
    ASSUME NEW p, NEW image, UNCHANGED cmd
    PROVE  Clean(p, image)' <=> Clean(p, image)
  BY DEF Clean, Sensitive

\* A step of p has to answer for what p has, shows and writes.
LEMMA WholeStep ==
    ASSUME WholeInv, NEW p \in Proc, Solo(p), LocClean(p)',
           \A image \in shown'[p] : image \in shown[p] \/ Clean(p, image),
           out' = out \/ (out'.by = p /\ Clean(p, out'.image))
    PROVE  WholeInv'
  <1>1. FrameInv' /\ cmd' = cmd /\ (cmd \in Scenarios)'
    BY DEF Solo, WholeInv
  <1>2. ASSUME NEW q \in Proc PROVE LocClean(q)'
    <2>1. CASE q # p
      <3>1. LocClean(q) /\ pc'[q] = pc[q] /\ loc'[q] = loc[q]
        BY <2>1 DEF WholeInv, Solo
      <3>2. Clean(q, loc[q].image) => Clean(q, loc[q].image)'
        BY <1>1, <3>1 DEF Clean, Sensitive
      <3> QED BY <1>1, <3>1, <3>2 DEF LocClean, At
    <2> QED BY <2>1
  <1>3. ASSUME NEW q \in Proc, NEW image \in shown'[q] PROVE Clean(q, image)'
    <2>1. Clean(q, image)
      BY <1>3 DEF WholeInv, Solo
    <2> QED BY <1>1, <2>1, CleanStays
  <1>4. ASSUME NEW q \in Proc, out'.by = q PROVE Clean(q, out.image)'
    <2>1. Clean(q, out'.image)
      BY <1>4 DEF WholeInv
    <2> QED BY <1>1, <2>1 DEF Clean, Sensitive
  <1> QED BY <1>1, <1>2, <1>3, <1>4 DEF WholeInv

\* Most steps do not touch what the invariant is about.
LEMMA WholeQuiet ==
    ASSUME WholeInv, NEW p \in Proc, Solo(p), UNCHANGED <<out, shown>>,
           cmd[p].name \notin {"mask", "redact", "call"} \/ pc'[p] \in {"done", "trace"}
    PROVE  WholeInv'
  <1>1. LocClean(p)'
    BY DEF LocClean, At, Solo
  <1> QED BY <1>1, WholeStep

\* The commands that print nothing of a text, the ends and a kill.
LEMMA WholeInspect ==
    ASSUME WholeInv, NEW p \in Proc, UNCHANGED cmd,
           \/ ScanCommand(p) \/ DiffCommand(p) \/ AuditCommand(p) \/ StatusCommand(p) \/ TraceCommand(p)
           \/ LoadProjectPolicy(p) \/ SaveProjectPolicy(p) \/ TracedCommand(p) \/ Kill(p)
    PROVE  WholeInv'
  <1>1. CASE TracedCommand(p) \/ Kill(p)
    <2>1. Solo(p) /\ UNCHANGED <<out, shown>>
      BY <1>1, TraceFoot, KillFoot DEF WholeInv
    <2>2. pc'[p] = "done"
      BY <1>1, ExitIs DEF WholeInv, TracedCommand, Kill, Fail
    <2> QED BY <2>1, <2>2, WholeQuiet
  <1>2. CASE ~(TracedCommand(p) \/ Kill(p))
    <2>1. cmd[p].name \notin {"mask", "redact", "call"}
      BY <1>2, NameOfOthers
    <2>2. Solo(p) /\ UNCHANGED <<out, shown>>
      BY <1>2, ScanFoot, DiffFoot, SmallFoot, TraceFoot, PolicyFoot DEF WholeInv
    <2> QED BY <2>1, <2>2, WholeQuiet
  <1> QED BY <1>1, <1>2

\* vault prints references and no text.
LEMMA WholeVault ==
    ASSUME WholeInv, NEW p \in Proc, UNCHANGED cmd, VaultCommand(p)
    PROVE  WholeInv'
  <1>1. Solo(p) /\ UNCHANGED out
    BY VaultFoot DEF WholeInv
  <1>2. cmd[p].name = "vault"
    BY NameOfOthers
  <1>3. shown' = shown \/ \E refs : shown'[p] = shown[p] \cup {Printed(p, refs)}
    BY ShowIs DEF VaultCommand, PutEnv, ClearVault, BestEffortAudit, ListVault, Refuse, WholeInv
  <1>4. \A refs : Clean(p, Printed(p, refs))
    <2>1. \A refs : Printed(p, refs).text = {}
      BY DEF Printed, Image
    <2> QED BY <2>1, EmptyClean
  <1>5. LocClean(p)'
    BY <1>1, <1>2 DEF LocClean, At, Solo
  <1> QED BY <1>1, <1>3, <1>4, <1>5, WholeStep

\* run prints the agent's output through the detectors.
LEMMA WholeRun ==
    ASSUME WholeInv, NEW p \in Proc, UNCHANGED cmd, RunCommand(p) \/ RunEnvironment(p)
    PROVE  WholeInv'
  <1>1. cmd[p].name = "run"
    BY NameOfRun
  <1>2. Solo(p) /\ UNCHANGED out
    BY RunFoot DEF WholeInv
  <1>3. \A image \in shown'[p] : image \in shown[p] \/ \E s \in Stream : image = SanitizedOutput(cmd[p].output[s])
    BY RunShows DEF WholeInv
  <1>4. ASSUME NEW s \in Stream PROVE Clean(p, SanitizedOutput(cmd[p].output[s]))
    <2>1. IsText(cmd[p].output[s].text) /\ NoneExact(cmd[p].output[s].text)
      BY <1>1, TextsAssumption DEF WholeInv
    <2> QED BY <2>1, OutputClean
  <1>5. LocClean(p)'
    BY <1>1, <1>2 DEF LocClean, At, Solo
  <1> QED BY <1>2, <1>3, <1>4, <1>5, WholeStep

\* mcp prints what it sanitized and passes the rest on.
LEMMA WholeMcp ==
    ASSUME WholeInv, NEW p \in Proc, UNCHANGED cmd, McpCommand(p)
    PROVE  WholeInv'
  <1>1. cmd[p].name = "mcp"
    BY NameOfOthers
  <1>2. Solo(p) /\ UNCHANGED out
    BY McpFoot DEF WholeInv
  <1>3. LocClean(p)'
    BY <1>1, <1>2 DEF LocClean, At, Solo
  <1>4. ASSUME NEW image \in shown'[p] PROVE image \in shown[p] \/ Clean(p, image)
    <2>1. CASE McpReads(p) /\ ~Refuse(p)
      <3> DEFINE Done(m) == SanitizedStrings(m, cmd[p].direction)
      <3>1. PICK m \in Messages :
               /\ m.form = "blank" \/ ~RejectedMessage(m, cmd[p].direction)
               /\ shown' = [shown EXCEPT ![p] = @ \cup {SanitizeText(s.text) : s \in Done(m)}
                               \cup {Passed(text) : text \in m.keys \cup {s.text : s \in m.strings \ Done(m)}}]
        BY <2>1, Zenon DEF McpReads
      <3>2. \/ image \in shown[p]
            \/ \E s \in Done(m) : image = SanitizeText(s.text)
            \/ \E text : image = Passed(text)
        BY <1>4, <3>1 DEF WholeInv, FrameInv
      <3>3. ASSUME NEW s \in Done(m) PROVE Clean(p, SanitizeText(s.text))
        <4>1. s \in m.strings /\ IsText(s.text)
          BY TextsAssumption DEF SanitizedStrings
        <4>2. CASE cmd[p].direction = "to-agent"
          BY <1>1, <4>1, <4>2, RedactClean DEF SanitizeText
        <4>3. CASE cmd[p].direction # "to-agent"
          <5>1. m.method = "tools/call" /\ s.place = "arguments"
            BY <4>3 DEF SanitizedStrings
          <5>2. m.form # "blank"
            BY <4>1, TextsAssumption
          <5>3. CASE s.is = "empty"
            BY <4>1, <5>3, TextsAssumption, RedactIs, EmptyClean DEF SanitizeText
          <5>4. CASE s.is # "empty" /\ cmd[p].direction = "to-server"
            <6>1. ~s.sensitive
              BY <3>1, <4>1, <5>1, <5>2, <5>4 DEF RejectedMessage, RejectedToServer
            <6>2. NoneExact(s.text)
              BY <4>1, <6>1, TextsAssumption
            <6> QED BY <4>1, <6>2, RedactClean DEF SanitizeText
          <5>5. cmd[p].direction = "to-server"
            BY <1>1, <4>3, TextsAssumption DEF WholeInv
          <5> QED BY <5>3, <5>4, <5>5
        <4> QED BY <4>2, <4>3
      <3>4. \A text : Passed(text).passed
        BY DEF Passed, Image
      <3> HIDE DEF Done
      <3>5. \A text : Clean(p, Passed(text))
        BY <3>4 DEF Clean
      <3> QED BY <3>2, <3>3, <3>5
    <2>2. CASE ~(McpReads(p) /\ ~Refuse(p))
      BY <1>4, <2>2 DEF McpCommand, McpBegins, McpEnds, Refuse
    <2> QED BY <2>1, <2>2
  <1> QED BY <1>2, <1>3, <1>4, WholeStep

\* call prints the sanitized response.
LEMMA WholeCall ==
    ASSUME WholeInv, NEW p \in Proc, UNCHANGED cmd, CallCommand(p)
    PROVE  WholeInv'
  <1>1. cmd[p].name = "call"
    BY NameOfOthers
  <1>2. Solo(p) /\ UNCHANGED out /\ cmd' = cmd
    BY CallFoot DEF WholeInv
  <1>3. LocClean(p)'
    <2>1. CASE CallSend(p)
      <3>1. PICK response \in Responses :
               \/ pc'[p] = "done"
               \/ loc'[p].image = SanitizeCallResponse(response)
        BY <2>1, SetIs, ExitIs DEF CallSend, WholeInv
      <3>2. Clean(p, SanitizeCallResponse(response))
        BY CallClean, TextsAssumption
      <3>3. Clean(p, SanitizeCallResponse(response))'
        BY <1>2, <3>2 DEF Clean, Sensitive
      <3> QED BY <1>1, <1>2, <3>1, <3>3 DEF LocClean, At, Clean, Sensitive
    <2>2. CASE ~CallSend(p)
      <3>1. pc'[p] # "answered"
        BY <2>2, GotoIs, ExitIs DEF WholeInv, CallCommand, CallPrepare, CallBody, CallUrl, CallFails, CallAnswered, Fail,
             RejectCall
      <3> QED BY <1>1, <1>2, <3>1 DEF LocClean, At
    <2> QED BY <2>1, <2>2
  <1>4. \A image \in shown'[p] : image \in shown[p] \/ Clean(p, image)
    <2>1. CASE CallAnswered(p)
      BY <1>1, <2>1, ShowIs DEF CallAnswered, Fail, WholeInv, LocClean
    <2>2. CASE ~CallAnswered(p)
      BY <2>2 DEF CallCommand, CallPrepare, CallBody, CallUrl, CallSend, CallFails, Fail, RejectCall
    <2> QED BY <2>1, <2>2
  <1> QED BY <1>2, <1>3, <1>4, WholeStep

\* What mask and redact write is what they hold ready, or nothing yet.
LEMMA WholeOutput ==
    ASSUME WholeInv, NEW p \in Proc, UNCHANGED cmd, cmd[p].name \in {"mask", "redact"},
           (pc[p] = "write" /\ WriteTransformedOutput(p, loc[p].image)) \/ FillOutput(p)
    PROVE  WholeInv'
  <1>1. Solo(p) /\ cmd' = cmd
    BY OutputFoot DEF WholeInv
  <1>2. pc[p] \in {"write", "fill"} /\ Clean(p, loc[p].image)
    BY DEF WholeInv, LocClean, FillOutput
  <1>3. /\ \/ pc'[p] = "done"
           \/ pc'[p] = "fill" /\ loc'[p].image = loc[p].image
        /\ shown' = shown \/ shown'[p] = shown[p] \cup {loc[p].image}
        /\ \/ out' = out
           \/ out'.by = p /\ (out'.image = loc[p].image \/ (out'.image.swaps = {} /\ out'.image.text = {}))
    BY OutputIs DEF WholeInv
  <1>4. LocClean(p)'
    BY <1>1, <1>2, <1>3 DEF LocClean, At, Clean, Sensitive
  <1>5. out' = out \/ (out'.by = p /\ Clean(p, out'.image))
    BY <1>2, <1>3, EmptyClean
  <1> QED BY <1>1, <1>2, <1>3, <1>4, <1>5, WholeStep

\* The record comes in between.
LEMMA WholeTransformTrace ==
    ASSUME WholeInv, NEW p \in Proc, UNCHANGED cmd, NEW found, TransformTrace(p, found)
    PROVE  WholeInv'
  <1>1. Solo(p) /\ UNCHANGED <<loc, out, shown>> /\ cmd' = cmd
    BY TransformFoot DEF WholeInv
  <1>2. pc[p] = "transformed" /\ pc'[p] \in {"write", "done"}
    BY GotoIs, ExitIs DEF TransformTrace, Fail, WholeInv
  <1>3. LocClean(p)'
    BY <1>1, <1>2 DEF WholeInv, LocClean, At, Clean, Sensitive
  <1> QED BY <1>1, <1>3, WholeStep

\* redact replaces every finding at once.
LEMMA WholeRedact ==
    ASSUME WholeInv, NEW p \in Proc, UNCHANGED cmd, RedactCommand(p)
    PROVE  WholeInv'
  <1>1. CASE RedactText(p)
    <2>1. Solo(p) /\ UNCHANGED <<out, shown>> /\ cmd' = cmd /\ cmd[p].name = "redact"
      BY <1>1, SetIs, GotoIs, FailSolo DEF RedactText, WholeInv, FrameInv, Solo, At
    <2>2. pc'[p] = "done" \/ loc'[p].image = Redact(cmd[p].text, cmd[p].mode)
      BY <1>1, SetIs, ExitIs DEF RedactText, Fail, WholeInv
    <2>3. Clean(p, Redact(cmd[p].text, cmd[p].mode))
      BY <2>1, RedactClean, TextsAssumption DEF WholeInv
    <2>4. pc'[p] # "done" => Clean(p, loc[p].image)'
      BY <2>1, <2>2, <2>3 DEF Clean, Sensitive
    <2>5. LocClean(p)'
      BY <2>1, <2>4 DEF LocClean, At
    <2> QED BY <2>1, <2>5, WholeStep
  <1> QED BY <1>1, WholeTransformTrace, WholeOutput DEF RedactCommand, At

\* mask goes from finding to finding.
LEMMA WholeMask ==
    ASSUME WholeInv, NEW p \in Proc, UNCHANGED cmd, Mask(p)
    PROVE  WholeInv'
  <1>1. Solo(p) /\ cmd' = cmd /\ cmd[p].name = "mask" /\ FrameInv
    BY MaskFoot, NameOfMask DEF WholeInv
  <1>2. CASE MaskCheckOutput(p) \/ MaskPrepare(p)
    <2>1. UNCHANGED <<out, shown>>
      BY <1>2 DEF MaskCheckOutput, MaskPrepare, Fail
    <2>2. \/ pc'[p] \in {"input", "done"}
          \/ pc'[p] = "store" /\ loc'[p].todo = Detect(cmd[p].text)
      BY <1>1, <1>2, SetIs, GotoIs, ExitIs DEF MaskCheckOutput, MaskPrepare, Fail
    <2>3. LocClean(p)'
      BY <1>1, <2>2 DEF LocClean, At
    <2> QED BY <1>1, <2>1, <2>3, WholeStep
  <1>3. CASE MaskStore(p)
    <2>1. UNCHANGED <<out, shown>> /\ At(p, "mask", "store")
      BY <1>3 DEF MaskStore
    <2>2. \/ pc'[p] = "done"
          \/ /\ pc'[p] = "store"
             /\ \E f, ref : /\ loc'[p].todo = loc[p].todo \ {f}
                            /\ loc'[p].swaps = loc[p].swaps \cup {RefSwap(f, ref)}
      BY <1>1, <1>3, SetIs, GotoIs, ExitIs DEF MaskStore
    <2>3. \A f, ref : RefSwap(f, ref).at = f
      BY DEF RefSwap
    <2>4. \A f \in Detect(cmd[p].text) : f \in loc[p].todo \/ \E swap \in loc[p].swaps : swap.at = f
      BY <2>1 DEF WholeInv, LocClean
    <2>5. LocClean(p)'
      BY <1>1, <2>2, <2>3, <2>4 DEF LocClean, At
    <2> QED BY <1>1, <2>1, <2>5, WholeStep
  <1>4. CASE Masked(p)
    <2>1. UNCHANGED <<out, shown>> /\ At(p, "mask", "store") /\ loc[p].todo = {}
      BY <1>4 DEF Masked
    <2>2. pc'[p] = "audit" /\ loc'[p].image = Image(cmd[p].text, loc[p].swaps)
      BY <1>1, <1>4, SetIs, GotoIs DEF Masked
    <2>3. \A f \in Detect(cmd[p].text) : \E swap \in loc[p].swaps : swap.at = f
      BY <2>1 DEF WholeInv, LocClean
    <2>4. IsText(cmd[p].text) /\ NoneExact(cmd[p].text)
      BY <1>1, TextsAssumption DEF WholeInv
    <2>5. Clean(p, Image(cmd[p].text, loc[p].swaps))
      BY <2>3, <2>4, CleanImage DEF Image
    <2>6. Clean(p, loc[p].image)'
      BY <1>1, <2>2, <2>5 DEF Clean, Sensitive
    <2>7. LocClean(p)'
      BY <1>1, <2>2, <2>6 DEF LocClean, At
    <2> QED BY <1>1, <2>1, <2>7, WholeStep
  <1>5. CASE MaskAudit(p)
    <2>1. UNCHANGED <<loc, out, shown>> /\ pc[p] = "audit"
      BY <1>5 DEF MaskAudit, Fail, At
    <2>2. pc'[p] \in {"audit", "transformed", "done"}
      BY <1>1, <1>5, <2>1, GotoIs, ExitIs DEF MaskAudit, Fail
    <2>3. LocClean(p)'
      BY <1>1, <2>1, <2>2 DEF WholeInv, LocClean, At, Clean, Sensitive
    <2> QED BY <1>1, <2>1, <2>3, WholeStep
  <1> QED BY <1>2, <1>3, <1>4, <1>5, WholeTransformTrace, WholeOutput DEF Mask, At

\* The only image at the start is what the output file held before, which is no command's.
LEMMA WholeInit == Init => WholeInv
  <1> SUFFICES ASSUME Init PROVE WholeInv
    OBVIOUS
  <1>1. FrameInv /\ cmd \in Scenarios
    BY DEF Init, FrameInv
  <1>2. ASSUME NEW p \in Proc PROVE LocClean(p) /\ shown[p] = {}
    BY DEF Init, LocClean, At
  <1>3. out.image.text = {}
    BY DEF Init, NoFile, Prior, Image
  <1> QED BY <1>1, <1>2, <1>3, EmptyClean DEF WholeInv

\* No value a detector reports, no injected secret and no plain value of a credential field stands
\* whole in anything a command writes, whatever the texts, except in what mcp only passes on: object
\* keys, and what goes to a server outside the arguments of a tool call.
THEOREM NothingLeaksWhole == Spec => []NothingWhole
  <1>1. WholeInv /\ [Next]_vars => WholeInv'
    <2> SUFFICES ASSUME WholeInv, [Next]_vars PROVE WholeInv'
      OBVIOUS
    <2>1. CASE UNCHANGED vars
      BY <2>1 DEF vars, WholeInv, FrameInv, LocClean, At, Clean, Sensitive
    <2>2. ASSUME NEW p \in Proc, Command(p) \/ RunEnvironment(p) \/ Kill(p), UNCHANGED cmd PROVE WholeInv'
      BY <2>2, WholeMask, WholeRedact, WholeVault, WholeInspect, WholeMcp, WholeRun, WholeCall DEF Command
    <2> QED BY <2>1, <2>2 DEF Next, Ended
  <1>2. WholeInv => NothingWhole
    BY DEF WholeInv, NothingWhole, Images, Clean
  <1> QED BY <1>1, <1>2, WholeInit, PTL DEF Spec

-----------------------------------------------------------------------------
(* Clean means clean: diff-check *)

\* The states of the parser of a patch, and of a reader that goes by the counts.
Sections == [open : BOOLEAN, new : BOOLEAN, binary : BOOLEAN, hits : BOOLEAN]
Hunks == [open : BOOLEAN, old : Nat, new : Nat, oldSeen : Nat, newSeen : Nat, hits : BOOLEAN]
Parsers == [section : Sections, hunk : Hunks, sections : BOOLEAN, hits : BOOLEAN, error : BOOLEAN]
Readers == [headed : BOOLEAN, path : BOOLEAN, binary : BOOLEAN, stale : BOOLEAN, combined : BOOLEAN,
            old : Nat, new : Nat, dirty : SUBSET {"hunk", "stale", "combined"}]

\* The open hunk has more lines than its header announced: the next header or the end rejects the patch.
Doomed(s) == s.hunk.open /\ (s.hunk.oldSeen > s.hunk.old \/ s.hunk.newSeen > s.hunk.new)

\* A line was to be reported that the parser does not lose.
Dirty(r) == "hunk" \in r.dirty

\* The parser, which goes by prefixes, is where the counts of the headers say it is, and keeps a binary
\* mark where the reader has a stale one; and what was to be reported is reported, or its hunk or
\* section is still open and will report it.
Agrees(s, r) ==
    /\ r.headed = s.section.open /\ r.path = s.section.new /\ (r.binary \/ r.stale) = s.section.binary
    /\ s.hunk.open => /\ s.section.open
                      /\ r.old = s.hunk.old - s.hunk.oldSeen /\ r.new = s.hunk.new - s.hunk.newSeen
    /\ ~s.hunk.open => r.old = 0 /\ r.new = 0 /\ ~s.section.hits
    /\ Dirty(r) => \/ s.hits
                   \/ s.hunk.open /\ (s.hunk.hits \/ s.section.hits) /\ s.section.new /\ ~s.section.binary

\* The parser is in step, or bound to reject the patch.
Tracks(s, r) == s.error \/ Doomed(s) \/ Agrees(s, r)

\* The lines of a patch.
LEMMA LineIs ==
    ASSUME NEW line \in DiffLines
    PROVE  /\ line.old \in Nat /\ line.new \in Nat /\ line.path \in BOOLEAN
           /\ line.t \in {"hunk", "add", "to", "git", "from", "rename", "malformed", "del", "context", "nonewline",
                          "combined", "binary", "other"}
           /\ line.t = "to" => line.marks = {}
           /\ line.t \in {"rename", "git"} => line.path
  <1>1. ASSUME NEW t, NEW o \in Nat, NEW n \in Nat, NEW m, NEW b \in BOOLEAN, line = Line(t, o, n, m, b)
        PROVE  /\ line.t = t /\ line.old \in Nat /\ line.new \in Nat /\ line.marks = m
               /\ line.path \in BOOLEAN /\ (b => line.path)
    BY <1>1 DEF Line
  <1>2. CASE line \in HunkLines
    <2>1. PICK n \in 0 .. MaxHunkLines, o \in 0 .. MaxHunkLines : line = Line("hunk", o, n, {}, FALSE)
      BY <1>2, Zenon DEF HunkLines
    <2>2. \E b \in BOOLEAN : line = Line("hunk", o, n, {}, b)
      BY <2>1, Zenon
    <2> QED BY <1>1, <2>2, InspectAssumption
  <1>3. CASE line \in FileLines
    <2>1. \/ \E b \in BOOLEAN : line = Line("to", 0, 0, {}, b)
          \/ \E t \in {"git", "from", "rename", "malformed", "combined", "binary", "other"} :
                line = Line(t, 0, 0, {"assigned"}, TRUE)
      BY <1>3, Zenon DEF FileLines
    <2>2. CASE \E b \in BOOLEAN : line = Line("to", 0, 0, {}, b)
      BY <1>1, <2>2
    <2>3. CASE \E t \in {"git", "from", "rename", "malformed", "combined", "binary", "other"} :
                  line = Line(t, 0, 0, {"assigned"}, TRUE)
      BY <1>1, <2>3
    <2> QED BY <2>1, <2>2, <2>3
  <1>4. CASE line \in BodyLines
    <2>1. \/ \E m \in LineMarks : line = Line("add", 0, 0, m, FALSE)
          \/ \E t \in {"del", "context", "nonewline"} : line = Line(t, 0, 0, {"assigned"}, TRUE)
      BY <1>4, Zenon DEF BodyLines
    <2>2. CASE \E m \in LineMarks : line = Line("add", 0, 0, m, FALSE)
      <3>1. \E m \in LineMarks, b \in BOOLEAN : line = Line("add", 0, 0, m, b)
        BY <2>2, Zenon
      <3> QED BY <1>1, <3>1
    <2>3. CASE \E t \in {"del", "context", "nonewline"} : line = Line(t, 0, 0, {"assigned"}, TRUE)
      BY <1>1, <2>3
    <2> QED BY <2>1, <2>2, <2>3
  <1> QED BY <1>2, <1>3, <1>4 DEF DiffLines

\* A header or the end closes the hunk: a hunk with other counts than announced is an error.
LEMMA HunkCloses ==
    ASSUME NEW s \in Parsers
    PROVE  LET h == FinishHunk(s)
           IN  /\ h \in Parsers
               /\ s.error => h.error
               /\ s.hunk.open /\ (s.hunk.oldSeen # s.hunk.old \/ s.hunk.newSeen # s.hunk.new) => h.error
               /\ ~h.error => ~h.hunk.open
               /\ h.section.open = s.section.open /\ h.section.new = s.section.new
               /\ h.section.binary = s.section.binary /\ h.hits = s.hits
               /\ ~h.error => h.section.hits = (s.section.hits \/ (s.hunk.open /\ s.hunk.hits))
  BY DEF FinishHunk, Parsers, Hunks, Sections, NoHunk

\* A new file or the end closes the section, and reports what its hunks have.
LEMMA FileCloses ==
    ASSUME NEW s \in Parsers
    PROVE  LET f == FinishFile(s)
           IN  /\ f \in Parsers /\ f.error = s.error /\ f.hunk = s.hunk
               /\ s.section.open => f.section = NoSection
               /\ f.hits = (s.hits \/ (s.section.open /\ s.section.hits /\ s.section.new /\ ~s.section.binary))
  BY DEF FinishFile, Parsers, Sections, NoSection

\* The rules of detect_builtin report every mark that is to be reported.
LEMMA RiskyDetected ==
    ASSUME NEW marks
    PROVE  DetectBuiltin(marks) # "none" <=> marks \cap Risky # {}
  BY DEF DetectBuiltin, Risky

\* A line leaves a reader.
LEMMA ReaderGoesOn ==
    ASSUME NEW r \in Readers, NEW line, line.old \in Nat, line.new \in Nat, line.path \in BOOLEAN
    PROVE  ReadLine(r, line) \in Readers
  <1>1. CASE line.t = "hunk"
    BY <1>1 DEF ReadLine, Readers
  <1>2. CASE line.t = "git"
    BY <1>2 DEF ReadLine, Readers, NewReader
  <1>3. CASE line.t \notin {"hunk", "git", "combined"} /\ r.old + r.new > 0
    <2> DEFINE old == IF line.t \in {"del", "from", "context"} /\ r.old > 0 THEN r.old - 1 ELSE r.old
               new == IF line.t \in {"add", "to", "context"} /\ r.new > 0 THEN r.new - 1 ELSE r.new
               dirty == IF r.new > 0 /\ Reportable(r, line)
                        THEN r.dirty \cup {IF r.stale THEN "stale" ELSE "hunk"} ELSE r.dirty
    <2>1. ReadLine(r, line) = [r EXCEPT !.old = old, !.new = new, !.dirty = dirty]
      BY <1>3 DEF ReadLine
    <2>2. old \in Nat /\ new \in Nat /\ dirty \in SUBSET {"hunk", "stale", "combined"}
      BY DEF Readers
    <2> HIDE DEF old, new, dirty
    <2> QED BY <2>1, <2>2 DEF Readers
  <1>4. CASE line.t \notin {"hunk", "git", "combined"} /\ ~(r.old + r.new > 0) /\ r.combined /\ Reportable(r, line)
    BY <1>4 DEF ReadLine, Readers
  <1>5. CASE /\ line.t \notin {"hunk", "git", "combined"} /\ ~(r.old + r.new > 0)
             /\ ~(r.combined /\ Reportable(r, line))
    BY <1>5 DEF ReadLine, Readers
  <1>6. CASE line.t = "combined"
    BY <1>6 DEF ReadLine, Readers
  <1> QED BY <1>1, <1>2, <1>3, <1>4, <1>5, <1>6

\* What a line of a hunk does to the hunk.
Pushed(s, line, t) ==
    LET new == line.t \in {"add", "to", "context"}
        old == line.t \in {"del", "from", "context"}
    IN  /\ t \in Parsers
        /\ ~old /\ ~new => t.error
        /\ old \/ new =>
              /\ t.error = s.error /\ t.hits = s.hits /\ t.section = s.section
              /\ t.hunk.open = s.hunk.open /\ t.hunk.old = s.hunk.old /\ t.hunk.new = s.hunk.new
              /\ t.hunk.oldSeen = s.hunk.oldSeen + (IF old THEN 1 ELSE 0)
              /\ t.hunk.newSeen = s.hunk.newSeen + (IF new THEN 1 ELSE 0)
              /\ s.hunk.hits => t.hunk.hits
              /\ line.t \in {"add", "to"} /\ DetectBuiltin(line.marks) # "none" => t.hunk.hits

\* HunkBuilder::push does so.
LEMMA PushKeeps ==
    ASSUME NEW s \in Parsers, NEW line
    PROVE  Pushed(s, line, Push(s, line))
  <1> DEFINE t == Push(s, line)
             Kept == /\ t \in Parsers /\ t.error = s.error /\ t.hits = s.hits /\ t.section = s.section
                     /\ t.hunk.open = s.hunk.open /\ t.hunk.old = s.hunk.old /\ t.hunk.new = s.hunk.new
  <1> SUFFICES Pushed(s, line, t)
    OBVIOUS
  <1>1. s.hunk \in Hunks /\ s.hunk.hits \in BOOLEAN /\ s.hunk.oldSeen \in Nat /\ s.hunk.newSeen \in Nat
    BY DEF Parsers, Hunks
  <1> DEFINE G(o, n, b) == [s EXCEPT !.hunk = [s.hunk EXCEPT !.oldSeen = o, !.newSeen = n, !.hits = b]]
  <1>2. ASSUME NEW o \in Nat, NEW n \in Nat, NEW b \in BOOLEAN
        PROVE  /\ G(o, n, b) \in Parsers
               /\ G(o, n, b).error = s.error /\ G(o, n, b).hits = s.hits /\ G(o, n, b).section = s.section
               /\ G(o, n, b).hunk.open = s.hunk.open /\ G(o, n, b).hunk.old = s.hunk.old
               /\ G(o, n, b).hunk.new = s.hunk.new
               /\ G(o, n, b).hunk.oldSeen = o /\ G(o, n, b).hunk.newSeen = n /\ G(o, n, b).hunk.hits = b
    <2> DEFINE h == [s.hunk EXCEPT !.oldSeen = o, !.newSeen = n, !.hits = b]
               g == [s EXCEPT !.hunk = h]
    <2>1. h \in Hunks
      BY <1>1 DEF Hunks
    <2>2. h.open = s.hunk.open /\ h.old = s.hunk.old /\ h.new = s.hunk.new
      BY <1>1 DEF Hunks
    <2>3. h.oldSeen = o /\ h.newSeen = n /\ h.hits = b
      BY <1>1 DEF Hunks
    <2>4. G(o, n, b) = g
      OBVIOUS
    <2> HIDE DEF h, G
    <2>5. g.hunk = h /\ g \in Parsers /\ g.error = s.error /\ g.hits = s.hits /\ g.section = s.section
      BY <2>1 DEF Parsers
    <2> HIDE DEF g
    <2> QED BY <2>2, <2>3, <2>4, <2>5
  <1>3. CASE line.t \in {"add", "to"}
    <2> DEFINE b == s.hunk.hits \/ DetectBuiltin(line.marks) # "none"
    <2>1. t = G(s.hunk.oldSeen, s.hunk.newSeen + 1, b)
      BY <1>3 DEF Push, Parsers, Hunks
    <2>2. b \in BOOLEAN /\ s.hunk.newSeen + 1 \in Nat /\ (s.hunk.hits => b) /\ (DetectBuiltin(line.marks) # "none" => b)
      BY <1>1
    <2> HIDE DEF b
    <2>3. Kept /\ t.hunk.oldSeen = s.hunk.oldSeen /\ t.hunk.newSeen = s.hunk.newSeen + 1 /\ t.hunk.hits = b
      <3> HIDE DEF t, G
      <3> QED BY <1>1, <1>2, <2>1, <2>2
    <2> HIDE DEF t, G
    <2> QED BY <1>1, <1>3, <2>2, <2>3 DEF Pushed
  <1>4. CASE line.t \in {"del", "from"}
    <2>1. t = G(s.hunk.oldSeen + 1, s.hunk.newSeen, s.hunk.hits)
      BY <1>4 DEF Push, Parsers, Hunks
    <2>2. s.hunk.oldSeen + 1 \in Nat
      BY <1>1
    <2>3. Kept /\ t.hunk.oldSeen = s.hunk.oldSeen + 1 /\ t.hunk.newSeen = s.hunk.newSeen /\ t.hunk.hits = s.hunk.hits
      <3> HIDE DEF t, G
      <3> QED BY <1>1, <1>2, <2>1, <2>2
    <2> HIDE DEF t, G
    <2> QED BY <1>1, <1>4, <2>3 DEF Pushed
  <1>5. CASE line.t = "context"
    <2>1. t = G(s.hunk.oldSeen + 1, s.hunk.newSeen + 1, s.hunk.hits)
      BY <1>5 DEF Push, Parsers, Hunks
    <2>2. s.hunk.oldSeen + 1 \in Nat /\ s.hunk.newSeen + 1 \in Nat
      BY <1>1
    <2>3. Kept /\ t.hunk.oldSeen = s.hunk.oldSeen + 1 /\ t.hunk.newSeen = s.hunk.newSeen + 1
          /\ t.hunk.hits = s.hunk.hits
      <3> HIDE DEF t, G
      <3> QED BY <1>1, <1>2, <2>1, <2>2
    <2> HIDE DEF t, G
    <2> QED BY <1>1, <1>5, <2>3 DEF Pushed
  <1>6. CASE line.t \notin {"add", "to", "del", "from", "context"}
    BY <1>6 DEF Push, Parsers, Pushed
  <1> QED BY <1>3, <1>4, <1>5, <1>6

\* Every line keeps the parser in step with the counts of the headers, or gets the patch rejected.
LEMMA LineTracked ==
    ASSUME NEW s \in Parsers, NEW r \in Readers, NEW line \in DiffLines, ~s.error, Tracks(s, r)
    PROVE  /\ ParseLine(s, line) \in Parsers /\ ReadLine(r, line) \in Readers
           /\ Tracks(ParseLine(s, line), ReadLine(r, line))
  <1> DEFINE t == ParseLine(s, line)
             u == ReadLine(r, line)
  <1> SUFFICES t \in Parsers /\ u \in Readers /\ Tracks(t, u)
    OBVIOUS
  <1>1. u \in Readers
    BY LineIs, ReaderGoesOn
  <1>2. CASE line.t = "git"
    <2> DEFINE h == FinishHunk(s)
               f == FinishFile(h)
    <2>1. h \in Parsers /\ f \in Parsers
      BY HunkCloses, FileCloses
    <2>2. t = IF f.error THEN f ELSE [f EXCEPT !.section = [NoSection EXCEPT !.open = TRUE, !.new = line.path]]
      BY <1>2 DEF ParseLine
    <2>3. u = [NewReader EXCEPT !.headed = TRUE, !.path = line.path, !.dirty = r.dirty]
      BY <1>2 DEF ReadLine
    <2> HIDE DEF t, u, h, f
    <2>4. t \in Parsers
      BY <2>1, <2>2, LineIs DEF Parsers, Sections, NoSection
    <2>5. CASE f.error
      BY <1>1, <2>2, <2>4, <2>5 DEF Tracks
    <2>6. CASE ~f.error
      <3>1. ~h.error /\ f.hunk = h.hunk
        BY <2>1, <2>6, FileCloses DEF f
      <3>2. ~h.hunk.open /\ Agrees(s, r)
        BY <3>1, HunkCloses DEF h, Tracks, Doomed, Parsers, Hunks
      <3>3. Dirty(r) => f.hits
        <4>1. /\ h.section.open = s.section.open /\ h.section.new = s.section.new
              /\ h.section.binary = s.section.binary /\ h.hits = s.hits
              /\ h.section.hits = (s.section.hits \/ (s.hunk.open /\ s.hunk.hits))
          BY <3>1, HunkCloses DEF h
        <4>2. f.hits = (h.hits \/ (h.section.open /\ h.section.hits /\ h.section.new /\ ~h.section.binary))
          BY <2>1, FileCloses DEF f
        <4> QED BY <3>2, <4>1, <4>2 DEF Agrees
      <3>4. t.hits = f.hits /\ t.hunk = f.hunk /\ t.section = [NoSection EXCEPT !.open = TRUE, !.new = line.path]
        BY <2>1, <2>2, <2>6 DEF Parsers
      <3>5. Agrees(t, u)
        <4>1. /\ u.headed = TRUE /\ u.path = line.path /\ u.binary = FALSE /\ u.stale = FALSE
              /\ u.old = 0 /\ u.new = 0 /\ u.dirty = r.dirty
          BY <2>3 DEF NewReader
        <4>2. ~t.hunk.open
          BY <3>1, <3>2, <3>4
        <4>3. t.section.open = TRUE /\ t.section.new = line.path /\ t.section.binary = FALSE /\ t.section.hits = FALSE
          BY <3>4 DEF NoSection
        <4>4. Dirty(u) => t.hits
          BY <3>3, <3>4, <4>1 DEF Dirty
        <4> QED BY <4>1, <4>2, <4>3, <4>4 DEF Agrees
      <3> QED BY <1>1, <2>4, <3>5 DEF Tracks
    <2> QED BY <1>1, <2>4, <2>5, <2>6
  <1>3. CASE line.t \in {"hunk", "malformed"}
    <2> DEFINE h == FinishHunk(s)
    <2>1. h \in Parsers
      BY HunkCloses
    <2>2. t = IF h.error \/ ~h.section.open \/ line.t = "malformed" THEN [h EXCEPT !.error = TRUE]
              ELSE [h EXCEPT !.hunk = [NoHunk EXCEPT !.open = TRUE, !.old = line.old, !.new = line.new]]
      BY <1>3 DEF ParseLine
    <2>3. line.t = "hunk" => u = [r EXCEPT !.old = line.old, !.new = line.new, !.combined = FALSE]
      BY DEF ReadLine
    <2> HIDE DEF t, u, h
    <2>4. t \in Parsers
      BY <2>1, <2>2, LineIs DEF Parsers, Hunks, NoHunk
    <2>5. CASE h.error \/ ~h.section.open \/ line.t = "malformed"
      <3>1. t.error
        BY <2>1, <2>2, <2>5 DEF Parsers
      <3> QED BY <1>1, <2>4, <3>1 DEF Tracks
    <2>6. CASE ~(h.error \/ ~h.section.open \/ line.t = "malformed")
      <3>1. ~h.error /\ h.section.open /\ line.t = "hunk"
        BY <1>3, <2>6
      <3>2. ~h.hunk.open /\ Agrees(s, r)
        BY <3>1, HunkCloses DEF h, Tracks, Doomed, Parsers, Hunks
      <3>3. Dirty(r) => h.hits \/ (h.section.hits /\ h.section.new /\ ~h.section.binary)
        BY <2>1, <3>1, <3>2, HunkCloses DEF h, Agrees
      <3>4. /\ t.hits = h.hits /\ t.section = h.section
            /\ t.hunk = [NoHunk EXCEPT !.open = TRUE, !.old = line.old, !.new = line.new]
        BY <2>1, <2>2, <2>6 DEF Parsers
      <3>5. /\ u.old = line.old /\ u.new = line.new /\ u.headed = r.headed /\ u.path = r.path
            /\ u.binary = r.binary /\ u.stale = r.stale /\ u.dirty = r.dirty
        BY <2>3, <3>1 DEF Readers
      <3>6. /\ h.section.open = s.section.open /\ h.section.new = s.section.new
            /\ h.section.binary = s.section.binary
        BY HunkCloses DEF h
      <3>7. Agrees(t, u)
        BY <3>1, <3>2, <3>3, <3>4, <3>5, <3>6, LineIs DEF Agrees, Dirty, NoHunk
      <3> QED BY <1>1, <2>4, <3>7 DEF Tracks
    <2> QED BY <1>1, <2>4, <2>5, <2>6
  <1>4. CASE line.t \notin {"git", "hunk", "malformed"} /\ s.hunk.open
    <2>1. t = IF line.t = "nonewline" THEN s ELSE Push(s, line)
      BY <1>4 DEF ParseLine
    <2>2. t \in Parsers
      BY <2>1, PushKeeps DEF Pushed
    <2>3. CASE line.t = "nonewline"
      <3>1. t = s
        BY <2>1, <2>3
      <3>2. u = r
        BY <2>3 DEF ReadLine, Reportable, Readers
      <3> QED BY <1>1, <2>2, <3>1, <3>2
    <2>4. CASE line.t \in {"rename", "combined", "binary", "other"}
      <3>1. t.error
        BY <2>1, <2>4, PushKeeps DEF Pushed
      <3> QED BY <1>1, <2>2, <3>1 DEF Tracks
    <2>5. CASE line.t \in {"add", "to", "del", "from", "context"}
      <3> DEFINE new == line.t \in {"add", "to", "context"}
                 old == line.t \in {"del", "from", "context"}
      <3>1. t = Push(s, line)
        BY <2>1, <2>5
      <3>2. /\ t.error = s.error /\ t.hits = s.hits /\ t.section = s.section
            /\ t.hunk.open = s.hunk.open /\ t.hunk.old = s.hunk.old /\ t.hunk.new = s.hunk.new
            /\ t.hunk.oldSeen = s.hunk.oldSeen + (IF old THEN 1 ELSE 0)
            /\ t.hunk.newSeen = s.hunk.newSeen + (IF new THEN 1 ELSE 0)
            /\ s.hunk.hits => t.hunk.hits
            /\ line.t \in {"add", "to"} /\ DetectBuiltin(line.marks) # "none" => t.hunk.hits
        <4>1. Pushed(s, line, t)
          BY <3>1, PushKeeps
        <4> HIDE DEF t
        <4> QED BY <2>5, <4>1 DEF Pushed
      <3>3. /\ s.hunk.old \in Nat /\ s.hunk.new \in Nat /\ s.hunk.oldSeen \in Nat /\ s.hunk.newSeen \in Nat
            /\ r.old \in Nat /\ r.new \in Nat
        BY DEF Parsers, Hunks, Readers
      <3> HIDE DEF t
      <3>4. CASE Doomed(t)
        BY <1>1, <2>2, <3>4 DEF Tracks
      <3>5. CASE ~Doomed(t)
        <4>1. ~Doomed(s) /\ Agrees(s, r)
          BY <3>2, <3>3, <3>5 DEF Doomed, Tracks
        <4>2. r.old = s.hunk.old - s.hunk.oldSeen /\ r.new = s.hunk.new - s.hunk.newSeen
          BY <1>4, <4>1 DEF Agrees
        <4>3. (old => r.old > 0) /\ (new => r.new > 0)
          BY <1>4, <3>2, <3>3, <3>5, <4>2 DEF Doomed
        <4>4. r.old + r.new > 0
          BY <2>5, <3>3, <4>3
        <4>5. /\ u.old = r.old - (IF old THEN 1 ELSE 0) /\ u.new = r.new - (IF new THEN 1 ELSE 0)
              /\ u.headed = r.headed /\ u.path = r.path /\ u.binary = r.binary /\ u.stale = r.stale
              /\ Dirty(u) => Dirty(r) \/ (Reportable(r, line) /\ ~r.stale)
          <5> DEFINE dirty == IF r.new > 0 /\ Reportable(r, line)
                              THEN r.dirty \cup {IF r.stale THEN "stale" ELSE "hunk"} ELSE r.dirty
                     o == IF old /\ r.old > 0 THEN r.old - 1 ELSE r.old
                     n == IF new /\ r.new > 0 THEN r.new - 1 ELSE r.new
          <5>1. u = [r EXCEPT !.old = o, !.new = n, !.dirty = dirty]
            BY <1>4, <2>5, <4>4 DEF ReadLine
          <5>2. o = r.old - (IF old THEN 1 ELSE 0) /\ n = r.new - (IF new THEN 1 ELSE 0)
            BY <3>3, <4>3
          <5>4. "hunk" \in dirty => Dirty(r) \/ (Reportable(r, line) /\ ~r.stale)
            BY DEF Dirty
          <5> HIDE DEF dirty, o, n, u
          <5>3. /\ u.old = o /\ u.new = n /\ u.headed = r.headed /\ u.path = r.path /\ u.binary = r.binary
                /\ u.stale = r.stale /\ u.dirty = dirty
            BY <5>1 DEF Readers
          <5> QED BY <5>2, <5>3, <5>4 DEF Dirty
        <4>6. Dirty(u) => Dirty(r) \/ (line.t = "add" /\ line.marks \cap Risky # {} /\ r.path /\ ~(r.binary \/ r.stale))
          BY <4>5 DEF Reportable
        <4> HIDE DEF u
        <4>7. Dirty(u) => t.hits \/ ((t.hunk.hits \/ t.section.hits) /\ t.section.new /\ ~t.section.binary)
          <5>1. (r.path <=> s.section.new) /\ (r.binary \/ r.stale <=> s.section.binary)
            BY <4>1 DEF Agrees
          <5>2. Dirty(r) => s.hits \/ ((s.hunk.hits \/ s.section.hits) /\ s.section.new /\ ~s.section.binary)
            BY <4>1 DEF Agrees
          <5>3. line.t = "add" /\ line.marks \cap Risky # {} => t.hunk.hits
            BY <3>2, RiskyDetected
          <5> QED BY <3>2, <4>6, <5>1, <5>2, <5>3
        <4>8. u.old = t.hunk.old - t.hunk.oldSeen /\ u.new = t.hunk.new - t.hunk.newSeen
          BY <3>2, <3>3, <4>2, <4>5
        <4>9. Agrees(t, u)
          BY <1>4, <3>2, <4>1, <4>5, <4>7, <4>8 DEF Agrees
        <4> QED BY <1>1, <2>2, <4>9 DEF Tracks
      <3> QED BY <3>4, <3>5
    <2> QED BY <1>4, <2>3, <2>4, <2>5, LineIs
  <1>5. CASE line.t \notin {"git", "hunk", "malformed"} /\ ~s.hunk.open
    <2>1. Agrees(s, r)
      BY <1>5 DEF Tracks, Doomed
    <2>2. r.old + r.new = 0
      BY <1>5, <2>1 DEF Agrees
    <2>3. ASSUME NEW open \in BOOLEAN, NEW new \in BOOLEAN, NEW binary \in BOOLEAN,
                 t = [s EXCEPT !.section = [s.section EXCEPT !.open = open, !.new = new, !.binary = binary]],
                 u.headed = open, u.path = new, (u.binary \/ u.stale) = binary,
                 u.old = r.old, u.new = r.new, Dirty(u) => Dirty(r)
          PROVE  t \in Parsers /\ Tracks(t, u)
      <3> DEFINE k == [s.section EXCEPT !.open = open, !.new = new, !.binary = binary]
      <3>1. s.section \in Sections
        BY DEF Parsers
      <3>2. k \in Sections /\ k.open = open /\ k.new = new /\ k.binary = binary /\ k.hits = s.section.hits
        BY <3>1 DEF Sections
      <3>3. t = [s EXCEPT !.section = k]
        BY <2>3
      <3> HIDE DEF k, t
      <3>4. t \in Parsers /\ t.section = k /\ t.hunk = s.hunk /\ t.hits = s.hits
        BY <3>2, <3>3 DEF Parsers
      <3> HIDE DEF u
      <3>5. Agrees(t, u)
        BY <1>5, <2>1, <2>3, <3>2, <3>4 DEF Agrees
      <3> QED BY <3>4, <3>5 DEF Tracks
    <2>4. /\ s.section.open \in BOOLEAN /\ s.section.new \in BOOLEAN /\ s.section.binary \in BOOLEAN
          /\ r.headed = s.section.open /\ r.path = s.section.new /\ (r.binary \/ r.stale) = s.section.binary
      BY <2>1 DEF Agrees, Parsers, Sections
    <2>5. CASE line.t = "from"
      <3>1. t = [s EXCEPT !.section = [s.section EXCEPT !.open = TRUE, !.new = s.section.new, !.binary = s.section.binary]]
        BY <1>5, <2>2, <2>4, <2>5 DEF ParseLine, Parsers, Sections
      <3>2. /\ u.headed /\ u.path = s.section.new /\ (u.binary \/ u.stale) = s.section.binary
            /\ u.old = r.old /\ u.new = r.new /\ u.dirty = r.dirty
        <4>1. u = [r EXCEPT !.headed = TRUE, !.binary = FALSE, !.stale = r.stale \/ r.binary]
          BY <1>5, <2>2, <2>4, <2>5 DEF ReadLine, Reportable, Readers
        <4> HIDE DEF u
        <4> QED BY <2>4, <4>1 DEF Readers
      <3> HIDE DEF t, u
      <3> QED BY <1>1, <2>3, <2>4, <3>1, <3>2 DEF Dirty
    <2>6. CASE line.t = "to" \/ (line.t = "rename" /\ s.section.open)
      <3>1. line.path \in BOOLEAN /\ (line.t = "rename" => line.path)
        BY LineIs
      <3>2. t = [s EXCEPT !.section = [s.section EXCEPT !.open = TRUE, !.new = line.path, !.binary = s.section.binary]]
        BY <1>5, <2>2, <2>4, <2>6, <3>1 DEF ParseLine, Parsers, Sections
      <3>3. /\ u.headed /\ u.path = line.path /\ (u.binary \/ u.stale) = s.section.binary
            /\ u.old = r.old /\ u.new = r.new /\ u.dirty = r.dirty
        <4>1. CASE line.t = "to"
          <5>1. u = [r EXCEPT !.headed = TRUE, !.path = line.path, !.binary = FALSE, !.stale = r.stale \/ r.binary]
            BY <1>5, <2>2, <2>4, <4>1 DEF ReadLine, Reportable, Readers
          <5> HIDE DEF u
          <5> QED BY <2>4, <3>1, <5>1 DEF Readers
        <4>2. CASE line.t = "rename"
          <5>1. u = [r EXCEPT !.path = line.path] /\ r.headed
            BY <1>5, <2>2, <2>4, <2>6, <4>2 DEF ReadLine, Reportable
          <5> HIDE DEF u
          <5> QED BY <2>4, <3>1, <5>1 DEF Readers
        <4> QED BY <2>6, <4>1, <4>2
      <3> HIDE DEF t, u
      <3> QED BY <1>1, <2>3, <2>4, <3>1, <3>2, <3>3 DEF Dirty
    <2>7. CASE line.t = "binary" /\ s.section.open
      <3>1. t = [s EXCEPT !.section = [s.section EXCEPT !.open = s.section.open, !.new = s.section.new, !.binary = TRUE]]
        BY <1>5, <2>2, <2>4, <2>7 DEF ParseLine, Parsers, Sections
      <3>2. /\ u.headed = s.section.open /\ u.path = s.section.new /\ u.binary
            /\ u.old = r.old /\ u.new = r.new /\ u.dirty = r.dirty
        <4>1. u = [r EXCEPT !.binary = TRUE]
          BY <1>5, <2>2, <2>4, <2>7 DEF ReadLine, Reportable
        <4> HIDE DEF u
        <4> QED BY <2>4, <4>1 DEF Readers
      <3> HIDE DEF t, u
      <3> QED BY <1>1, <2>3, <2>4, <3>1, <3>2 DEF Dirty
    <2>8. CASE line.t \notin {"from", "to"} /\ ~(line.t \in {"rename", "binary"} /\ s.section.open)
      <3>1. t = s
        BY <1>5, <2>1, <2>2, <2>8 DEF ParseLine, Agrees
      <3>2. \/ u = r
            \/ u = [r EXCEPT !.dirty = @ \cup {"combined"}]
            \/ u = [r EXCEPT !.old = 0, !.new = 0, !.combined = TRUE]
        <4>1. CASE line.t = "combined"
          BY <4>1 DEF ReadLine
        <4>2. CASE line.t # "combined" /\ r.combined /\ Reportable(r, line)
          BY <1>5, <2>2, <4>2 DEF ReadLine
        <4>3. CASE line.t # "combined" /\ ~(r.combined /\ Reportable(r, line))
          BY <1>5, <2>2, <2>4, <2>8, <4>3 DEF ReadLine
        <4> QED BY <4>1, <4>2, <4>3
      <3>3. /\ u.headed = r.headed /\ u.path = r.path /\ u.binary = r.binary /\ u.stale = r.stale
            /\ u.old = r.old /\ u.new = r.new /\ (Dirty(u) => Dirty(r))
        <4>1. r.old = 0 /\ r.new = 0
          BY <1>5, <2>1 DEF Agrees
        <4> HIDE DEF u
        <4> QED BY <3>2, <4>1 DEF Readers, Dirty
      <3>4. Agrees(s, u)
        BY <2>1, <3>3 DEF Agrees
      <3> QED BY <1>1, <3>1, <3>4 DEF Tracks
    <2> QED BY <2>5, <2>6, <2>7, <2>8
  <1> QED BY <1>2, <1>3, <1>4, <1>5

\* diff-check reads in step with the headers, and reports what it was to report.
DiffInv(p) ==
    cmd[p].name = "diff-check" =>
       /\ pc[p] # "done" => exit[p] = Running
       /\ pc[p] = "read" =>
             loc[p].parser \in Parsers /\ loc[p].reader \in Readers /\ Tracks(loc[p].parser, loc[p].reader)
       /\ pc[p] = "report" => loc[p].reader \in Readers
       /\ pc[p] = "report" => loc[p].parser.error \/ (Dirty(loc[p].reader) => loc[p].parser.hits)
       /\ pc[p] = "trace" => "reader" \notin DOMAIN loc[p]
       /\ exit[p] = Success /\ "reader" \in DOMAIN loc[p] => ~Dirty(loc[p].reader) /\ loc[p].reader \in Readers

\* The end of the patch closes what is open, and with it reports or rejects.
LEMMA PatchEnds ==
    ASSUME NEW s \in Parsers, NEW r \in Readers, Tracks(s, r)
    PROVE  FinishFile(FinishHunk(s)).error \/ (Dirty(r) => FinishFile(FinishHunk(s)).hits)
  <1> DEFINE h == FinishHunk(s)
             f == FinishFile(h)
  <1>1. h \in Parsers
    BY HunkCloses
  <1>2. f.error = h.error /\ f.hits = (h.hits \/ (h.section.open /\ h.section.hits /\ h.section.new /\ ~h.section.binary))
    BY <1>1, FileCloses
  <1> HIDE DEF f
  <1>3. SUFFICES ASSUME ~h.error PROVE Dirty(r) => f.hits
    BY <1>2 DEF f
  <1>4. Agrees(s, r)
    BY <1>3, HunkCloses DEF Tracks, Doomed, Parsers, Hunks
  <1>5. /\ h.section.open = s.section.open /\ h.section.new = s.section.new
        /\ h.section.binary = s.section.binary /\ h.hits = s.hits
        /\ h.section.hits = (s.section.hits \/ (s.hunk.open /\ s.hunk.hits))
    BY <1>3, HunkCloses
  <1> HIDE DEF h
  <1> QED BY <1>2, <1>4, <1>5 DEF Agrees

\* The steps of diff-check.
LEMMA DiffStep ==
    ASSUME FrameInv, NEW p \in Proc, DiffInv(p), UNCHANGED cmd, DiffCommand(p)
    PROVE  DiffInv(p)'
  <1>1. cmd[p].name = "diff-check" /\ FrameInv'
    BY NameOfOthers, DiffFoot DEF Solo
  <1>2. CASE Refuse(p)
    <2>1. pc[p] # "done" /\ exit[p] = Running
      BY <1>1, Live DEF Command, DiffInv
    <2>2. \/ pc'[p] = "trace" /\ exit' = exit /\ loc'[p] = [code |-> Failure]
          \/ pc'[p] = "done" /\ exit'[p] = Failure
      BY <1>2, FinishIs DEF Refuse
    <2>3. "reader" \notin DOMAIN [code |-> Failure]
      OBVIOUS
    <2> QED BY <1>1, <2>1, <2>2, <2>3 DEF DiffInv, Running, Success, Failure
  <1>3. CASE DiffBegins(p) /\ ~Refuse(p)
    <2>1. /\ loc'[p] = [parser |-> NewParser, reader |-> NewReader, lines |-> 0]
          /\ pc'[p] = "read" /\ exit' = exit /\ pc[p] = "start"
      BY <1>3, SetIs, GotoIs DEF DiffBegins, At
    <2>2. NewParser \in Parsers /\ NewReader \in Readers /\ Tracks(NewParser, NewReader)
      BY DEF NewParser, NewReader, NoHunk, NoSection, Parsers, Hunks, Sections, Readers, Tracks, Agrees, Dirty
    <2> QED BY <1>1, <2>1, <2>2 DEF DiffInv, Running, Success
  <1>4. CASE DiffReads(p)
    <2>1. pc[p] = "read" /\ ~loc[p].parser.error /\ pc' = pc /\ exit' = exit
      BY <1>4 DEF DiffReads, At
    <2>2. PICK line \in DiffLines :
             Set(p, [parser |-> ParseLine(loc[p].parser, line), reader |-> ReadLine(loc[p].reader, line),
                     lines |-> loc[p].lines + 1])
      BY <1>4 DEF DiffReads
    <2>3. loc'[p].parser = ParseLine(loc[p].parser, line) /\ loc'[p].reader = ReadLine(loc[p].reader, line)
      BY <2>2, SetIs
    <2>4. /\ loc[p].parser \in Parsers /\ loc[p].reader \in Readers /\ Tracks(loc[p].parser, loc[p].reader)
          /\ exit[p] = Running
      BY <1>1, <2>1 DEF DiffInv
    <2>5. loc'[p].parser \in Parsers /\ loc'[p].reader \in Readers /\ Tracks(loc'[p].parser, loc'[p].reader)
      BY <2>1, <2>3, <2>4, LineTracked
    <2> QED BY <1>1, <2>1, <2>4, <2>5 DEF DiffInv, Running, Success
  <1>5. CASE DiffEnds(p)
    <2>1. pc[p] = "read" /\ pc'[p] = "report" /\ exit' = exit
      BY <1>5, GotoIs DEF DiffEnds, At
    <2>2. loc'[p].parser = FinishFile(FinishHunk(loc[p].parser)) /\ loc'[p].reader = loc[p].reader
      BY <1>5, SetIs DEF DiffEnds
    <2>3. /\ loc[p].parser \in Parsers /\ loc[p].reader \in Readers /\ Tracks(loc[p].parser, loc[p].reader)
          /\ exit[p] = Running
      BY <1>1, <2>1 DEF DiffInv
    <2>4. loc'[p].parser.error \/ (Dirty(loc'[p].reader) => loc'[p].parser.hits)
      BY <2>2, <2>3, PatchEnds
    <2> QED BY <1>1, <2>1, <2>2, <2>3, <2>4 DEF DiffInv, Running, Success
  <1>6. CASE DiffReports(p) /\ ~Refuse(p)
    <2>1. /\ pc[p] = "report" /\ ~loc[p].parser.error
          /\ Finish(p, IF loc[p].parser.hits THEN FoundSecrets ELSE Success)
      BY <1>6 DEF DiffReports, At
    <2>2. exit[p] = Running /\ (Dirty(loc[p].reader) => loc[p].parser.hits) /\ loc[p].reader \in Readers
      BY <1>1, <2>1 DEF DiffInv
    <2> DEFINE code == IF loc[p].parser.hits THEN FoundSecrets ELSE Success
    <2>3. \/ pc'[p] = "trace" /\ exit' = exit /\ loc'[p] = [code |-> code]
          \/ pc'[p] = "done" /\ exit'[p] = code /\ loc' = loc
      BY <2>1, FinishIs
    <2>4. "reader" \notin DOMAIN [code |-> code]
      OBVIOUS
    <2>5. code = Success => ~Dirty(loc[p].reader)
      BY <2>2 DEF FoundSecrets, Success
    <2> HIDE DEF code
    <2> QED BY <1>1, <2>1, <2>2, <2>3, <2>4, <2>5 DEF DiffInv, Running, Success
  <1> QED BY <1>2, <1>3, <1>4, <1>5, <1>6 DEF DiffCommand

-----------------------------------------------------------------------------
(* Clean means clean: scan *)

\* The record of a walk, and what makes the scan incomplete.
Walks == {"stack", "considered", "bytes", "hits", "tooLarge", "ioErrors", "limit"}
Partial(s) == s.tooLarge \/ s.ioErrors \/ s.limit

\* A file was read and has no finding, or the scan has one to report.
FileSettled(s, node) ==
    node.kind = "file" /\ ~node.ignored /\ ~node.binary => Candidates(node.text) = {} \/ s.hits # {}

\* An entry is on the stack.
Waits(s, node, depth) == \E k \in DOMAIN s.stack : s.stack[k] = [node |-> node, depth |-> depth]

\* Every path from the root is cut by the stack or ends at a file that is settled.
Cut(tree, s, depth, path) ==
    (\E n \in 0 .. depth : Waits(s, path[n], n)) \/ FileSettled(s, tree[path[depth]])
Entries(tree) == [node : DOMAIN tree, depth : Nat]
Covers(tree, s) ==
    /\ s.stack \in Seq(Entries(tree))
    /\ \A depth \in 0 .. MaxDepth : \A path \in [0 .. depth -> DOMAIN tree] :
          Leads(tree, depth, path) => Cut(tree, s, depth, path)

\* What is left to show of a step that takes the top off the stack: the paths through the top.
TopCut(tree, s, t) ==
    LET top == s.stack[Len(s.stack)]
    IN  \A depth \in 0 .. MaxDepth : \A path \in [0 .. depth -> DOMAIN tree] :
           \A n \in 0 .. depth :
              Leads(tree, depth, path) /\ path[n] = top.node /\ n = top.depth => Cut(tree, t, depth, path)

\* A walk is incomplete or covers the tree; and so a success is justified.
ScanInv(p) ==
    cmd[p].name = "scan" =>
       /\ pc[p] # "done" => exit[p] = Running
       /\ pc[p] = "walk" =>
             /\ DOMAIN loc[p] = Walks
             /\ Partial(loc[p]) \/ Covers(cmd[p].tree, loc[p])
       /\ exit[p] = Success =>
             \A n \in InScope(cmd[p].tree) : ~cmd[p].tree[n].binary => Candidates(cmd[p].tree[n].text) = {}

\* No findings, no candidates.
LEMMA NothingDetected ==
    ASSUME NEW text, IsText(text), Detect(text) = {}
    PROVE  Candidates(text) = {}
  BY DetectCovers

\* A step keeps what waits below the top and what it has found.
Pops(tree, s, t) ==
    /\ s.stack # <<>> /\ t.stack \in Seq(Entries(tree))
    /\ \A k \in 1 .. Len(s.stack) - 1 : \E j \in DOMAIN t.stack : t.stack[j] = s.stack[k]
    /\ s.hits # {} => t.hits # {}

\* So a step need only answer for the paths through the entry it took off.
LEMMA PopCovers ==
    ASSUME NEW tree, NEW s, NEW t, Covers(tree, s), Pops(tree, s, t), TopCut(tree, s, t)
    PROVE  Covers(tree, t)
  <1> SUFFICES ASSUME NEW depth \in 0 .. MaxDepth, NEW path \in [0 .. depth -> DOMAIN tree],
                      Leads(tree, depth, path)
               PROVE  Cut(tree, t, depth, path)
    BY DEF Covers, Pops
  <1>1. CASE FileSettled(s, tree[path[depth]])
    BY <1>1 DEF FileSettled, Cut, Pops
  <1>2. CASE \E n \in 0 .. depth : Waits(s, path[n], n)
    <2>1. PICK n \in 0 .. depth, k \in DOMAIN s.stack : s.stack[k] = [node |-> path[n], depth |-> n]
      BY <1>2 DEF Waits
    <2>2. Len(s.stack) \in Nat /\ DOMAIN s.stack = 1 .. Len(s.stack)
      BY DEF Covers
    <2>3. CASE k = Len(s.stack)
      <3>1. path[n] = s.stack[Len(s.stack)].node /\ n = s.stack[Len(s.stack)].depth
        BY <2>1, <2>3
      <3> QED BY <3>1 DEF TopCut
    <2>4. CASE k # Len(s.stack)
      <3>1. Waits(t, path[n], n)
        BY <2>1, <2>2, <2>4 DEF Pops, Waits
      <3> QED BY <3>1 DEF Cut
    <2> QED BY <2>3, <2>4
  <1> QED BY <1>1, <1>2 DEF Covers, Cut

\* An entry that is skipped: no path goes on below it, and it is no file to look at.
LEMMA SkipCuts ==
    ASSUME NEW tree, NEW s, NEW t, Covers(tree, s), s.stack # <<>>,
           LET top == s.stack[Len(s.stack)]
           IN  \/ tree[top.node].ignored
               \/ tree[top.node].kind \in {"link", "other"}
               \/ tree[top.node].kind = "dir" /\ top.depth >= MaxDepth
    PROVE  TopCut(tree, s, t)
  <1> DEFINE top == s.stack[Len(s.stack)]
  <1> SUFFICES ASSUME NEW depth \in 0 .. MaxDepth, NEW path \in [0 .. depth -> DOMAIN tree], NEW n \in 0 .. depth,
                      Leads(tree, depth, path), path[n] = top.node, n = top.depth
               PROVE  Cut(tree, t, depth, path)
    BY DEF TopCut
  <1>1. CASE n < depth
    <2>1. n + 1 \in 1 .. depth /\ (n + 1) - 1 = n /\ n < MaxDepth
      BY <1>1, InspectAssumption
    <2>2. tree[path[n]].kind = "dir" /\ ~tree[path[n]].ignored
      BY <2>1 DEF Leads
    <2> QED BY <2>1, <2>2, InspectAssumption
  <1>2. CASE n = depth
    BY <1>2 DEF Cut, FileSettled
  <1> QED BY <1>1, <1>2, InspectAssumption

\* A directory that is listed: the path goes on to one of its children.
LEMMA ListCuts ==
    ASSUME NEW tree, NEW s, NEW t, Covers(tree, s), s.stack # <<>>,
           LET top == s.stack[Len(s.stack)]
           IN  /\ tree[top.node].kind = "dir"
               /\ \A kid \in Children(tree[top.node]) : Waits(t, kid, top.depth + 1)
    PROVE  TopCut(tree, s, t)
  <1> DEFINE top == s.stack[Len(s.stack)]
  <1> SUFFICES ASSUME NEW depth \in 0 .. MaxDepth, NEW path \in [0 .. depth -> DOMAIN tree], NEW n \in 0 .. depth,
                      Leads(tree, depth, path), path[n] = top.node, n = top.depth
               PROVE  Cut(tree, t, depth, path)
    BY DEF TopCut
  <1>1. CASE n < depth
    <2>1. n + 1 \in 1 .. depth /\ (n + 1) - 1 = n /\ n + 1 \in 0 .. depth
      BY <1>1, InspectAssumption
    <2>2. path[n + 1] \in Children(tree[path[n]])
      BY <2>1 DEF Leads
    <2>3. Waits(t, path[n + 1], n + 1)
      BY <2>2
    <2> QED BY <2>1, <2>3 DEF Cut
  <1>2. CASE n = depth
    BY <1>2 DEF Cut, FileSettled
  <1> QED BY <1>1, <1>2, InspectAssumption

\* A file that is read.
LEMMA FileCuts ==
    ASSUME NEW tree, NEW s, NEW t, Covers(tree, s), s.stack # <<>>,
           LET top == s.stack[Len(s.stack)]
           IN  tree[top.node].kind = "file" /\ FileSettled(t, tree[top.node])
    PROVE  TopCut(tree, s, t)
  <1> DEFINE top == s.stack[Len(s.stack)]
  <1> SUFFICES ASSUME NEW depth \in 0 .. MaxDepth, NEW path \in [0 .. depth -> DOMAIN tree], NEW n \in 0 .. depth,
                      Leads(tree, depth, path), path[n] = top.node, n = top.depth
               PROVE  Cut(tree, t, depth, path)
    BY DEF TopCut
  <1>1. CASE n < depth
    <2>1. n + 1 \in 1 .. depth /\ (n + 1) - 1 = n
      BY <1>1, InspectAssumption
    <2>2. tree[path[n]].kind = "dir"
      BY <2>1 DEF Leads
    <2> QED BY <2>2
  <1>2. CASE n = depth
    BY <1>2 DEF Cut
  <1> QED BY <1>1, <1>2, InspectAssumption

\* scan_file leaves the stack alone, loses no finding and no mark of an incomplete scan, and settles
\* the file or marks the scan as incomplete.
LEMMA FileScanned ==
    ASSUME NEW s, DOMAIN s = Walks, NEW node, NEW bytes
    PROVE  LET t == ScanFile(s, node, bytes)
           IN  /\ DOMAIN t = Walks /\ t.stack = s.stack
               /\ Partial(s) => Partial(t)
               /\ s.hits # {} => t.hits # {}
               /\ IsText(node.text) => Partial(t) \/ FileSettled(t, node)
  <1> DEFINE counted == [s EXCEPT !.considered = @ + 1]
             hits == IF ~node.binary /\ Detect(node.text) # {} THEN s.hits \cup {node} ELSE s.hits
             read == [counted EXCEPT !.bytes = @ + bytes,
                                     !.hits = IF ~node.binary /\ Detect(node.text) # {} THEN @ \cup {node} ELSE @]
             t == ScanFile(s, node, bytes)
  <1>1. \/ t = [s EXCEPT !.limit = TRUE] \/ t = [counted EXCEPT !.limit = TRUE]
        \/ t = [counted EXCEPT !.tooLarge = TRUE]
        \/ t = read
    BY Zenon DEF ScanFile
  <1>2. s.hits \subseteq hits /\ (IsText(node.text) /\ ~node.binary => Candidates(node.text) = {} \/ hits # {})
    BY NothingDetected
  <1> HIDE DEF t, hits
  <1>3. CASE t = [s EXCEPT !.limit = TRUE] \/ t = [counted EXCEPT !.limit = TRUE]
    BY <1>3 DEF Walks, Partial, t
  <1>4. CASE t = [counted EXCEPT !.tooLarge = TRUE]
    BY <1>4 DEF Walks, Partial, t
  <1>5. CASE t = read
    <2>1. /\ DOMAIN read = Walks /\ read.stack = s.stack /\ read.hits = hits
          /\ read.tooLarge = s.tooLarge /\ read.ioErrors = s.ioErrors /\ read.limit = s.limit
      BY DEF Walks, hits
    <2> HIDE DEF read
    <2> QED BY <1>2, <1>5, <2>1 DEF Partial, FileSettled, t
  <1> QED BY <1>1, <1>3, <1>4, <1>5

\* The stack without its top, and what is pushed on it.
LEMMA StackIs ==
    ASSUME NEW E, NEW stack \in Seq(E), stack # <<>>, NEW more \in Seq(E)
    PROVE  LET rest == SubSeq(stack, 1, Len(stack) - 1)
           IN  /\ stack[Len(stack)] \in E
               /\ rest \in Seq(E) /\ Len(rest) = Len(stack) - 1 /\ rest \o more \in Seq(E)
               /\ \A k \in 1 .. Len(stack) - 1 : k \in DOMAIN rest /\ rest[k] = stack[k]
               /\ \A k \in 1 .. Len(stack) - 1 : k \in DOMAIN (rest \o more) /\ (rest \o more)[k] = stack[k]
               /\ \A j \in 1 .. Len(more) :
                     Len(rest) + j \in DOMAIN (rest \o more) /\ (rest \o more)[Len(rest) + j] = more[j]
  <1>1. Len(stack) \in Nat \ {0} /\ DOMAIN stack = 1 .. Len(stack)
    OBVIOUS
  <1> DEFINE rest == SubSeq(stack, 1, Len(stack) - 1)
  <1>2. rest \in Seq(E) /\ Len(rest) = Len(stack) - 1 /\ \A k \in 1 .. Len(stack) - 1 : rest[k] = stack[k]
    BY <1>1
  <1> HIDE DEF rest
  <1>3. /\ rest \o more \in Seq(E) /\ Len(rest \o more) = Len(rest) + Len(more) /\ Len(more) \in Nat
        /\ \A k \in 1 .. Len(rest) : (rest \o more)[k] = rest[k]
        /\ \A j \in 1 .. Len(more) : (rest \o more)[Len(rest) + j] = more[j]
    BY <1>2
  <1> QED BY <1>1, <1>2, <1>3 DEF rest

\* What is known at a step of the walk.
LEMMA WalkKnows ==
    ASSUME FrameInv, NEW p \in Proc, ScanInv(p), cmd \in Scenarios, Walking(p)
    PROVE  /\ cmd[p].name = "scan" /\ IsTree(cmd[p].tree) /\ DOMAIN loc[p] = Walks /\ exit[p] = Running
           /\ loc[p].stack # <<>> /\ (Partial(loc[p]) \/ Covers(cmd[p].tree, loc[p]))
  BY TextsAssumption DEF Walking, At, ScanInv

\* A step of the walk that keeps the record in shape and the scan incomplete or covering.
LEMMA WalkStep ==
    ASSUME FrameInv, NEW p \in Proc, ScanInv(p), UNCHANGED cmd, Walking(p), NEW t, Walk(p, t),
           DOMAIN t = Walks, Partial(t) \/ Covers(cmd[p].tree, t)
    PROVE  ScanInv(p)'
  <1>1. loc'[p] = t /\ pc' = pc /\ exit' = exit
    BY SetIs DEF Walk
  <1> QED BY <1>1 DEF ScanInv, Walking, At, Running, Success

\* The steps of scan.
LEMMA ScanStep ==
    ASSUME FrameInv, NEW p \in Proc, ScanInv(p), cmd \in Scenarios, UNCHANGED cmd, ScanCommand(p)
    PROVE  ScanInv(p)'
  <1> DEFINE tree == cmd[p].tree
             s == loc[p]
  <1>1. cmd[p].name = "scan" /\ IsTree(tree) /\ pc[p] # "done" /\ exit[p] = Running
    BY NameOfOthers, Live, TextsAssumption DEF Command, ScanInv
  <1>2. CASE Fail(p)
    <2>1. pc'[p] = "done" /\ exit'[p] = Failure
      BY <1>2, ExitIs DEF Fail
    <2> QED BY <2>1 DEF ScanInv, Failure, Success
  <1>3. CASE ScanBegins(p) /\ ~Fail(p)
    <2> DEFINE t == [stack |-> <<[node |-> 1, depth |-> 0]>>, considered |-> 0, bytes |-> 0, hits |-> {},
                     tooLarge |-> FALSE, ioErrors |-> FALSE, limit |-> FALSE]
    <2>1. loc'[p] = t /\ pc'[p] = "walk" /\ exit' = exit
      BY <1>3, SetIs, GotoIs DEF ScanBegins
    <2>2. DOMAIN t = Walks /\ t.stack = <<[node |-> 1, depth |-> 0]>>
      BY DEF Walks
    <2> HIDE DEF t
    <2>3. Covers(tree, t)
      <3>1. t.stack \in Seq(Entries(tree)) /\ t.stack[1] = [node |-> 1, depth |-> 0] /\ 1 \in DOMAIN t.stack
        BY <1>1, <2>2 DEF Entries, IsTree
      <3>2. ASSUME NEW depth \in 0 .. MaxDepth, NEW path \in [0 .. depth -> DOMAIN tree], Leads(tree, depth, path)
            PROVE  Cut(tree, t, depth, path)
        BY <3>1, <3>2, InspectAssumption DEF Cut, Waits, Leads
      <3> QED BY <3>1, <3>2 DEF Covers
    <2> QED BY <1>1, <2>1, <2>2, <2>3 DEF ScanInv, Running, Success
  <1>4. CASE ScanSkips(p)
    <2> DEFINE t == [s EXCEPT !.stack = Rest(p)]
    <2>1. Walking(p) /\ Walk(p, t)
      BY <1>4 DEF ScanSkips
    <2>2. DOMAIN s = Walks /\ s.stack # <<>> /\ (Partial(s) \/ Covers(tree, s))
      BY <2>1, WalkKnows
    <2>3. /\ DOMAIN t = Walks /\ t.stack = Rest(p) /\ t.hits = s.hits
          /\ t.tooLarge = s.tooLarge /\ t.ioErrors = s.ioErrors /\ t.limit = s.limit
      BY <2>2 DEF Walks
    <2> HIDE DEF t
    <2>4. ASSUME Covers(tree, s) PROVE Covers(tree, t)
      <3>1. Pops(tree, s, t)
        <4>1. s.stack \in Seq(Entries(tree)) /\ <<>> \in Seq(Entries(tree))
          BY <2>4 DEF Covers
        <4>2. /\ Rest(p) \in Seq(Entries(tree))
              /\ \A k \in 1 .. Len(s.stack) - 1 : k \in DOMAIN Rest(p) /\ Rest(p)[k] = s.stack[k]
          BY <2>2, <4>1, StackIs DEF Rest
        <4> QED BY <2>2, <2>3, <4>2 DEF Pops
      <3>2. TopCut(tree, s, t)
        BY <1>4, <2>2, <2>4, SkipCuts DEF ScanSkips, TopNode, Top
      <3> QED BY <2>4, <3>1, <3>2, PopCovers
    <2> QED BY <2>1, <2>2, <2>3, <2>4, WalkStep DEF Partial
  <1>5. CASE ScanIoError(p)
    <2>1. PICK counted : Walk(p, [s EXCEPT !.stack = Rest(p), !.ioErrors = TRUE, !.considered = @ + counted])
      BY <1>5 DEF ScanIoError
    <2>2. Walking(p)
      BY <1>5 DEF ScanIoError
    <2> DEFINE t == [s EXCEPT !.stack = Rest(p), !.ioErrors = TRUE, !.considered = @ + counted]
    <2>3. DOMAIN t = Walks /\ Partial(t)
      BY <2>2, WalkKnows DEF Walks, Partial
    <2> HIDE DEF t
    <2> QED BY <2>1, <2>2, <2>3, WalkStep DEF t
  <1>6. CASE ScanReads(p)
    <2>1. Walking(p) /\ TopNode(p).kind = "file"
      BY <1>6 DEF ScanReads
    <2>2. DOMAIN s = Walks /\ s.stack # <<>> /\ (Partial(s) \/ Covers(tree, s))
      BY <2>1, WalkKnows
    <2> DEFINE q == [s EXCEPT !.stack = Rest(p)]
    <2>3. PICK bytes : Walk(p, ScanFile(q, TopNode(p), bytes))
      BY <1>6, Zenon DEF ScanReads
    <2> DEFINE t == ScanFile(q, TopNode(p), bytes)
    <2>4. /\ DOMAIN q = Walks /\ q.stack = Rest(p) /\ q.hits = s.hits
          /\ q.tooLarge = s.tooLarge /\ q.ioErrors = s.ioErrors /\ q.limit = s.limit
      BY <2>2 DEF Walks
    <2> HIDE DEF q
    <2>5. /\ DOMAIN t = Walks /\ t.stack = Rest(p) /\ (s.hits # {} => t.hits # {})
          /\ Partial(s) => Partial(t)
          /\ IsText(TopNode(p).text) => Partial(t) \/ FileSettled(t, TopNode(p))
      BY <2>4, FileScanned DEF Partial
    <2> HIDE DEF t
    <2>6. ASSUME Covers(tree, s), ~Partial(t) PROVE Covers(tree, t)
      <3>1. s.stack \in Seq(Entries(tree)) /\ <<>> \in Seq(Entries(tree))
        BY <2>6 DEF Covers
      <3>2. /\ Rest(p) \in Seq(Entries(tree)) /\ Top(p) \in Entries(tree)
            /\ \A k \in 1 .. Len(s.stack) - 1 : k \in DOMAIN Rest(p) /\ Rest(p)[k] = s.stack[k]
        BY <2>2, <3>1, StackIs DEF Rest, Top
      <3>3. Pops(tree, s, t)
        BY <2>2, <2>5, <3>2 DEF Pops
      <3>4. IsText(TopNode(p).text)
        BY <1>1, <3>2 DEF Entries, IsTree, TopNode
      <3>5. TopCut(tree, s, t)
        BY <2>1, <2>2, <2>5, <2>6, <3>4, FileCuts DEF TopNode, Top
      <3> QED BY <2>6, <3>3, <3>5, PopCovers
    <2> QED BY <2>1, <2>2, <2>3, <2>5, <2>6, WalkStep DEF t
  <1>7. CASE ScanDescends(p)
    <2>1. Walking(p) /\ TopNode(p).kind = "dir"
      BY <1>7 DEF ScanDescends
    <2>2. DOMAIN s = Walks /\ s.stack # <<>> /\ (Partial(s) \/ Covers(tree, s)) /\ ~s.limit
      BY <2>1, WalkKnows DEF Walking
    <2> DEFINE more(kids) == [n \in 1 .. Len(kids) |-> [node |-> kids[Len(kids) + 1 - n], depth |-> Top(p).depth + 1]]
               next(lost, kids) == [s EXCEPT !.ioErrors = @ \/ lost # {}, !.stack = Rest(p) \o more(kids)]
    <2>3. PICK lost, kids : Walk(p, next(lost, kids)) /\ (lost = {} => kids = TopNode(p).kids)
      BY <1>7, Zenon DEF ScanDescends
    <2> DEFINE t == next(lost, kids)
    <2>4. /\ DOMAIN t = Walks /\ t.stack = Rest(p) \o more(kids) /\ t.hits = s.hits
          /\ (t.ioErrors <=> s.ioErrors \/ lost # {}) /\ t.tooLarge = s.tooLarge
      BY <2>2 DEF Walks
    <2> HIDE DEF t, next
    <2>5. Partial(s) \/ lost # {} => Partial(t)
      BY <2>2, <2>4 DEF Partial
    <2>6. ASSUME Covers(tree, s), lost = {} PROVE Covers(tree, t)
      <3>1. s.stack \in Seq(Entries(tree)) /\ <<>> \in Seq(Entries(tree))
        BY <2>6 DEF Covers
      <3>2. Top(p) \in Entries(tree)
        BY <2>2, <3>1, StackIs DEF Top
      <3>3. kids = TopNode(p).kids /\ kids \in Seq(DOMAIN tree)
        BY <1>1, <2>3, <2>6, <3>2 DEF Entries, IsTree, TopNode
      <3>4. more(kids) \in Seq(Entries(tree)) /\ Len(more(kids)) = Len(kids) /\ Len(kids) \in Nat
        BY <3>2, <3>3 DEF Entries
      <3>5. \A m \in 1 .. Len(kids) :
               Len(kids) + 1 - m \in 1 .. Len(kids)
               /\ more(kids)[Len(kids) + 1 - m] = [node |-> kids[m], depth |-> Top(p).depth + 1]
        BY <3>4
      <3> HIDE DEF more
      <3>6. /\ t.stack \in Seq(Entries(tree))
            /\ \A k \in 1 .. Len(s.stack) - 1 : k \in DOMAIN t.stack /\ t.stack[k] = s.stack[k]
            /\ \A j \in 1 .. Len(kids) : \E i \in DOMAIN t.stack : t.stack[i] = more(kids)[j]
        <4>1. /\ Rest(p) \o more(kids) \in Seq(Entries(tree))
              /\ \A k \in 1 .. Len(s.stack) - 1 :
                    k \in DOMAIN (Rest(p) \o more(kids)) /\ (Rest(p) \o more(kids))[k] = s.stack[k]
              /\ \A j \in 1 .. Len(more(kids)) :
                    /\ Len(Rest(p)) + j \in DOMAIN (Rest(p) \o more(kids))
                    /\ (Rest(p) \o more(kids))[Len(Rest(p)) + j] = more(kids)[j]
          BY <2>2, <3>1, <3>4, StackIs DEF Rest
        <4> QED BY <2>4, <3>4, <4>1
      <3>7. Pops(tree, s, t)
        BY <2>2, <2>4, <3>6 DEF Pops
      <3>8. ASSUME NEW kid \in Children(TopNode(p)) PROVE Waits(t, kid, Top(p).depth + 1)
        <4>1. PICK m \in 1 .. Len(kids) : kid = kids[m]
          BY <3>3, <3>8 DEF Children
        <4> QED BY <3>5, <3>6, <4>1 DEF Waits
      <3>9. TopCut(tree, s, t)
        BY <2>1, <2>2, <2>6, <3>8, ListCuts DEF TopNode, Top
      <3> QED BY <2>6, <3>7, <3>9, PopCovers
    <2> QED BY <2>1, <2>2, <2>3, <2>4, <2>5, <2>6, WalkStep DEF t
  <1>8. CASE ScanReports(p) /\ ~Fail(p)
    <2> DEFINE code == IF s.tooLarge \/ s.ioErrors \/ s.limit THEN Incomplete
                       ELSE IF s.hits = {} THEN Success ELSE FoundSecrets
    <2>1. pc[p] = "walk" /\ (s.stack = <<>> \/ s.limit) /\ Exit(p, code)
      BY <1>8 DEF ScanReports, At
    <2>2. pc'[p] = "done" /\ exit'[p] = code
      BY <2>1, ExitIs
    <2>3. CASE code # Success
      BY <2>2, <2>3 DEF ScanInv
    <2>4. CASE code = Success
      <3>1. ~Partial(s) /\ s.hits = {} /\ s.stack = <<>>
        BY <2>1, <2>4 DEF Partial, Incomplete, FoundSecrets, Success
      <3>2. Covers(tree, s)
        BY <1>1, <2>1, <3>1 DEF ScanInv
      <3>3. ASSUME NEW f \in InScope(tree), ~tree[f].binary PROVE Candidates(tree[f].text) = {}
        <4>1. \E depth \in 0 .. MaxDepth : \E path \in [0 .. depth -> DOMAIN tree] :
                 path[depth] = f /\ Leads(tree, depth, path)
          BY DEF InScope
        <4>2. tree[f].kind = "file" /\ ~tree[f].ignored
          BY DEF InScope
        <4>3. FileSettled(s, tree[f])
          BY <3>1, <3>2, <4>1 DEF Covers, Cut, Waits
        <4> QED BY <3>1, <3>3, <4>2, <4>3 DEF FileSettled
      <3> QED BY <2>2, <3>3 DEF ScanInv
    <2> QED BY <2>3, <2>4
  <1> QED BY <1>2, <1>3, <1>4, <1>5, <1>6, <1>7, <1>8 DEF ScanCommand

\* The inductive invariant of both.
CleanInv == FrameInv /\ cmd \in Scenarios /\ \A p \in Proc : ScanInv(p) /\ DiffInv(p)

\* A process that is not scanning or checking, or is only killed or recorded, has nothing to keep.
LEMMA CleanOther ==
    ASSUME FrameInv, NEW p \in Proc, ScanInv(p), DiffInv(p), UNCHANGED cmd, TracedCommand(p) \/ Kill(p)
    PROVE  ScanInv(p)' /\ DiffInv(p)'
  <1>1. pc'[p] = "done" /\ loc' = loc
    BY ExitIs DEF TracedCommand, Kill, Fail
  <1>2. TracedCommand(p) => cmd[p].name # "scan" /\ pc[p] = "trace"
    BY DEF TracedCommand, Traced
  <1>3. Kill(p) => exit'[p] # Success
    BY ExitIs DEF Kill, Killed, Success
  <1>4. ScanInv(p)'
    BY <1>1, <1>2, <1>3 DEF ScanInv
  <1>5. DiffInv(p)'
    BY <1>1, <1>2, <1>3 DEF DiffInv
  <1> QED BY <1>4, <1>5

\* Exit code 0 of scan and of diff-check means what it says, for every tree and every limit, every
\* order of the lines of a patch, and whatever grows, fails or is cut off on the way.  Two places of
\* a patch are excepted, where parse_patch loses an added line: a combined hunk, and a file headed
\* after a binary mark without a diff --git line between them.
THEOREM CleanIsClean == Spec => []CleanMeansClean
  <1>1. Init => CleanInv
    <2> SUFFICES ASSUME Init PROVE CleanInv
      OBVIOUS
    <2>1. FrameInv /\ cmd \in Scenarios
      BY DEF Init, FrameInv
    <2>2. ASSUME NEW p \in Proc PROVE exit[p] = Running /\ pc[p] \in {"start", "done"}
      BY DEF Init
    <2> QED BY <2>1, <2>2 DEF CleanInv, ScanInv, DiffInv, Running, Success
  <1>2. CleanInv /\ [Next]_vars => CleanInv'
    <2> SUFFICES ASSUME CleanInv, [Next]_vars PROVE CleanInv'
      OBVIOUS
    <2>1. CASE UNCHANGED vars
      <3>1. FrameInv' /\ cmd' \in Scenarios
        BY <2>1 DEF vars, CleanInv, FrameInv
      <3>2. ASSUME NEW q \in Proc PROVE ScanInv(q)'
        BY <2>1, <3>2 DEF vars, CleanInv, ScanInv
      <3>3. ASSUME NEW q \in Proc PROVE DiffInv(q)'
        BY <2>1, <3>3 DEF vars, CleanInv, DiffInv
      <3> QED BY <3>1, <3>2, <3>3 DEF CleanInv
    <2>2. ASSUME NEW p \in Proc, Command(p) \/ RunEnvironment(p) \/ Kill(p), UNCHANGED cmd PROVE CleanInv'
      <3>1. Solo(p)
        BY <2>2, ScanFoot, DiffFoot, McpFoot, SmallFoot, TraceFoot, PolicyFoot, CallFoot, KillFoot, MaskFoot,
             RedactFoot, VaultFoot, RunFoot DEF Command, CleanInv
      <3>2. ScanInv(p)' /\ DiffInv(p)'
        <4>1. CASE cmd[p].name \notin {"scan", "diff-check"}
          BY <2>2, <4>1 DEF ScanInv, DiffInv
        <4>2. CASE cmd[p].name = "scan"
          <5>1. ScanCommand(p) \/ TracedCommand(p) \/ Kill(p)
            BY <2>2, <4>2, NameOfMask, NameOfOthers, NameOfRun DEF Command
          <5> QED BY <2>2, <4>2, <5>1, ScanStep, CleanOther DEF CleanInv, DiffInv
        <4>3. CASE cmd[p].name = "diff-check"
          <5>1. DiffCommand(p) \/ TracedCommand(p) \/ Kill(p)
            BY <2>2, <4>3, NameOfMask, NameOfOthers, NameOfRun DEF Command
          <5> QED BY <2>2, <4>3, <5>1, DiffStep, CleanOther DEF CleanInv, ScanInv
        <4> QED BY <4>1, <4>2, <4>3
      <3>3. ASSUME NEW q \in Proc, q # p PROVE ScanInv(q)' /\ DiffInv(q)'
        <4>1. ScanInv(q)'
          BY <3>1, <3>3 DEF CleanInv, Solo, ScanInv
        <4>2. DiffInv(q)'
          BY <3>1, <3>3 DEF CleanInv, Solo, DiffInv
        <4> QED BY <4>1, <4>2
      <3> QED BY <2>2, <3>1, <3>2, <3>3 DEF CleanInv, Solo
    <2> QED BY <2>1, <2>2 DEF Next, Ended
  <1>3. CleanInv => CleanMeansClean
    BY DEF CleanInv, ScanInv, DiffInv, CleanMeansClean, Readers, Dirty
  <1> QED BY <1>1, <1>2, <1>3, PTL DEF Spec
=============================================================================
