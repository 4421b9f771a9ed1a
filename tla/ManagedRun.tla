----------------------------- MODULE ManagedRun -----------------------------
(***************************************************************************)
(* blindfold run: the proxy, the egress guard and the agent between them,  *)
(* from the checks of the arguments to the exit code.                      *)
(*                                                                         *)
(* The proxy is what the module Proxy shows of it: cancelled, it finishes  *)
(* the exchange in flight.  The agent and what it starts are the           *)
(* environment: they connect, print, exit, or stay and hold a pipe.  The   *)
(* command line says as cmd[p].conns and cmd[p].output what they may open  *)
(* and print to each stream.                                               *)
(***************************************************************************)
EXTENDS NetworkCommands

CONSTANTS
    Conn,          \* connections to the egress guard
    Hosts,         \* what a CONNECT may ask for
    OutputLimit,   \* MANAGED_AGENT_OUTPUT_LIMIT
    CutMargin      \* MANAGED_AGENT_OUTPUT_TRUNCATION_OVERLAP

\* The pipes of the agent, each with a reader of its own.
Stream == {"stdout", "stderr"}

\* A connection; in "tunnel" and "answered" a record was due, and `traced` says it was written.
Idle == [state |-> "none", host |-> <<>>, traced |-> FALSE]

\* The local state of a run; `agent` is "none", "alive", "gone" or "unstarted", `holders` says
\* which pipes a descendant still has open, `inflight` that the proxy is serving a request,
\* `vouched` (history) which connections the sink was asked about.
RunState == [policy |-> EmptyPolicy, standing |-> {}, reached |-> {}, proxy |-> "off", egress |-> "off",
             inflight |-> FALSE, agent |-> "none", holders |-> {},
             code |-> Success, sinkFailed |-> FALSE, vouched |-> {}, conn |-> [c \in Conn |-> Idle]]

Run(p, label) == At(p, "run", label)
Upd(p, local) == Set(p, local) /\ UNCHANGED <<pc, exit, store, traces, net, out, shown>>
Step(p, local, label) == Set(p, local) /\ Goto(p, label) /\ UNCHANGED <<store, traces, net, out, shown>>

\* unsupported_agent_argument and the checks of interactive modes.
RefusedArguments(args) ==
    \/ args.dangerous
    \/ args.agent = "claude" /\ ~args.print
    \/ args.agent = "codex" /\ (args.overrides \/ args.verb \notin {"exec", "review"})
    \/ args.agent = "opencode" /\ args.verb # "run"

\* From the arguments to the bound proxy: adapter, executable, upstreams, trace store, listener.
RunStarts(p) ==
    /\ Run(p, "start")
    /\ \/ ~RefusedArguments(cmd[p].args) /\ Step(p, [RunState EXCEPT !.proxy = "on"], "policy")
       \/ Fail(p)

\* EgressNetworkPolicy::load, once for the whole run.
RunLoadsPolicy(p) ==
    /\ Run(p, "policy")
    /\ \/ Step(p, [loc[p] EXCEPT !.policy = netpol, !.standing = ack.standing], "egress")
       \/ Step(p, [loc[p] EXCEPT !.proxy = "cancelled"], "abandon")

\* Mutant of RunBindsEgress: the proxy is awaited without having been cancelled.
RunBindsEgressUncancelled(p) ==
    /\ Run(p, "egress")
    /\ \/ Step(p, [loc[p] EXCEPT !.egress = "on"], "spawn")
       \/ Step(p, loc[p], "abandon")

RunBindsEgress(p) ==
    /\ Run(p, "egress")
    /\ \/ Step(p, [loc[p] EXCEPT !.egress = "on"], "spawn")
       \/ Step(p, [loc[p] EXCEPT !.proxy = "cancelled"], "abandon")

\* The error paths after the proxy started: cancel it, wait for it, fail.
RunAbandons(p) == Run(p, "abandon") /\ loc[p].proxy = "off" /\ Fail(p)

\* The agent starts with a cleared environment and the addresses of the two proxies.
RunSpawns(p) ==
    /\ Run(p, "spawn")
    /\ \/ Step(p, [loc[p] EXCEPT !.agent = "alive"], "wait")
       \/ Step(p, [loc[p] EXCEPT !.agent = "unstarted"], "cancel")

-----------------------------------------------------------------------------
\* The environment.  An agent may leave descendants that inherited one of its pipes or both.
AgentActive(p) == cmd[p].name = "run" /\ pc[p] # "done" /\ (loc[p].agent = "alive" \/ loc[p].holders # {})

AgentExits(p) ==
    /\ Run(p, "wait") /\ loc[p].agent = "alive"
    /\ \E holders \in SUBSET Stream, code \in {Success, Failure} :
          Upd(p, [loc[p] EXCEPT !.agent = "gone", !.holders = holders, !.code = code])

HolderExits(p) ==
    /\ cmd[p].name = "run" /\ pc[p] # "done"
    /\ "holders" \in DOMAIN loc[p]
    /\ \E closed \in SUBSET loc[p].holders \ {{}} : Upd(p, [loc[p] EXCEPT !.holders = @ \ closed])

\* child.wait or a reader fails: nothing is printed, and no other reader is waited for.
OutputLost(p) ==
    /\ Run(p, "wait")
    /\ Step(p, [loc[p] EXCEPT !.code = Failure], "cancel")

AgentAsksProxy(p) ==
    /\ Run(p, "wait") /\ AgentActive(p) /\ ~loc[p].inflight
    /\ Upd(p, [loc[p] EXCEPT !.inflight = TRUE])

ProxyAnswers(p) ==
    /\ cmd[p].name = "run" /\ pc[p] \notin {"start", "done"} /\ loc[p].inflight
    /\ Upd(p, [loc[p] EXCEPT !.inflight = FALSE])

\* BoundProxy::serve returns once it is cancelled and nothing is in flight.
ProxyStops(p) ==
    /\ cmd[p].name = "run" /\ pc[p] \notin {"start", "done"}
    /\ loc[p].proxy = "cancelled" /\ ~loc[p].inflight
    /\ Upd(p, [loc[p] EXCEPT !.proxy = "off"])

-----------------------------------------------------------------------------
\* BoundEgressGuard::serve: every connection becomes a task nobody waits for.
EgressAccepts(p, c) ==
    /\ cmd[p].name = "run" /\ pc[p] \notin {"start", "done"}
    /\ loc[p].egress = "on" /\ AgentActive(p) /\ c \in cmd[p].conns /\ loc[p].conn[c].state = "none"
    /\ Upd(p, [loc[p] EXCEPT !.conn[c].state = "header"])

Serving(p, c, state) ==
    /\ cmd[p].name = "run" /\ pc[p] \notin {"start", "done"}
    /\ loc[p].conn[c].state = state

\* CliTraceSink::record through emit_egress_trace: a record that cannot be kept is remembered.
EmitEgressTrace(p, c, state, outcome, issue, reached) ==
    LET kept(b) == [loc[p] EXCEPT !.conn[c] = [state |-> state, host |-> <<>>, traced |-> b], !.reached = @ \cup reached,
                                  !.sinkFailed = @ \/ (cmd[p].trace /\ ~b)]
    IN  \/ /\ cmd[p].trace
           /\ AppendTrace(p, "egress", IF issue = "none" THEN "Protected" ELSE "Unprotected", outcome, issue, {})
           /\ Set(p, kept(TRUE))
        \/ UNCHANGED traces /\ Set(p, kept(FALSE))

\* read_http_header and handle_egress_connection: what is no CONNECT is answered and forgotten.
EgressHeaderFails(p, c) ==
    /\ Serving(p, c, "header")
    /\ Upd(p, [loc[p] EXCEPT !.conn[c].state = "closed"])

\* handle_connect up to the decision, taken by the policy loaded at the start.  The policy sees the
\* authority without credentials, brackets and port; the host that is dialled is taken to be the
\* same (an authority with credentials names none that could be looked up).
EgressDecides(p, c) ==
    /\ Serving(p, c, "header")
    /\ \E host \in Hosts :
          IF Decision(loc[p].policy, host) = "Allow"
          THEN /\ Set(p, [loc[p] EXCEPT !.conn[c] = [@ EXCEPT !.state = "dial", !.host = host]])
               /\ UNCHANGED traces
          ELSE EmitEgressTrace(p, c, "answered", "Rejected", "RouteNotAllowed", {})
    /\ UNCHANGED <<pc, exit, store, net, out, shown>>

EgressDialFails(p, c) ==
    /\ Serving(p, c, "dial")
    /\ EmitEgressTrace(p, c, "answered", "Failed", "UpstreamFailure", {})
    /\ UNCHANGED <<pc, exit, store, net, out, shown>>

\* Mutant of EgressTunnels: the record is left to the end of the tunnel.
EgressTunnelsUntraced(p, c) ==
    /\ Serving(p, c, "dial")
    /\ Set(p, [loc[p] EXCEPT !.conn[c].state = "tunnel", !.reached = @ \cup {loc[p].conn[c].host}])
    /\ UNCHANGED <<pc, exit, store, traces, net, out, shown>>

\* Connected: the record first, then the bytes in both directions.
EgressTunnels(p, c) ==
    /\ Serving(p, c, "dial")
    /\ EmitEgressTrace(p, c, "tunnel", "Succeeded", "none", {loc[p].conn[c].host})
    /\ UNCHANGED <<pc, exit, store, net, out, shown>>

EgressCloses(p, c) ==
    /\ Serving(p, c, "tunnel")
    /\ Upd(p, [loc[p] EXCEPT !.conn[c].state = "answered"])

\* An accept that fails ends the guard for the rest of the run, and nobody is told.
EgressAcceptFails(p) ==
    /\ Run(p, "wait") /\ loc[p].egress = "on"
    /\ Upd(p, [loc[p] EXCEPT !.egress = "off"])

\* Cancelled, the guard stops accepting at once.
EgressStops(p) ==
    /\ cmd[p].name = "run" /\ pc[p] \notin {"start", "done"}
    /\ loc[p].egress = "cancelled"
    /\ Upd(p, [loc[p] EXCEPT !.egress = "off"])

-----------------------------------------------------------------------------
\* read_bounded_agent_output and write_sanitized_agent_output: over the limit, a margin more is
\* cut before the detectors see the text.
SanitizedOutput(output) ==
    IF output.length <= OutputLimit THEN SanitizeText(output.text)
    ELSE [Image(output.text, SanitizeText(Truncate(output.text, OutputLimit - CutMargin)).swaps)
             EXCEPT !.end = OutputLimit - CutMargin]

\* child.wait, then one reader after the other.  A reader ends with the last writer of its pipe or
\* at its limit; the run goes on when both have ended.
ReadersDone(p) == \A s \in Stream : s \notin loc[p].holders \/ cmd[p].output[s].length > OutputLimit

\* Both outputs are printed, the standard output first; a write that fails is the last.
RunCollects(p) ==
    /\ Run(p, "wait") /\ loc[p].agent = "gone" /\ ReadersDone(p)
    /\ \E printed \in {{}, {"stdout"}, Stream}, code \in {loc[p].code, Failure} :
          /\ printed # Stream => code = Failure
          /\ shown' = [shown EXCEPT ![p] = @ \cup {SanitizedOutput(cmd[p].output[s]) : s \in printed}]
          /\ Set(p, [loc[p] EXCEPT !.code = code])
    /\ Goto(p, "cancel") /\ UNCHANGED <<store, traces, net, out>>

RunCancels(p) ==
    /\ Run(p, "cancel")
    /\ Step(p, [loc[p] EXCEPT !.proxy = "cancelled", !.egress = "cancelled"], "drain")

\* The connections whose record was due.
Answered(p) == {c \in Conn : loc[p].conn[c].state \in {"tunnel", "answered"}}

\* proxy_task and egress_task have ended; then the sink is asked (history: for which connections).
RunDrained(p) ==
    /\ Run(p, "drain") /\ loc[p].proxy = "off" /\ loc[p].egress = "off"
    /\ IF loc[p].sinkFailed THEN Fail(p) ELSE Step(p, [loc[p] EXCEPT !.vouched = Answered(p)], "session")

\* append_degraded_run_trace and the exit code of the agent.
RunReports(p) ==
    /\ Run(p, "session")
    /\ \/ /\ IF cmd[p].trace
             THEN AppendTrace(p, "run", "Degraded", "Observed", "DirectFilesystemUnmediated", {})
             ELSE UNCHANGED traces
          /\ Exit(p, IF loc[p].agent = "unstarted" THEN Failure ELSE loc[p].code)
          /\ UNCHANGED <<loc, store, net, out, shown>>
       \/ cmd[p].trace /\ Fail(p)

RunCommand(p) ==
    \/ RunStarts(p) \/ RunLoadsPolicy(p) \/ RunBindsEgress(p) \/ RunAbandons(p) \/ RunSpawns(p)
    \/ ProxyStops(p) \/ EgressStops(p)
    \/ RunCollects(p) \/ RunCancels(p) \/ RunDrained(p) \/ RunReports(p)

RunEnvironment(p) ==
    \/ AgentExits(p) \/ HolderExits(p) \/ OutputLost(p) \/ AgentAsksProxy(p) \/ ProxyAnswers(p) \/ EgressAcceptFails(p)
    \/ \E c \in Conn : \/ EgressAccepts(p, c) \/ EgressHeaderFails(p, c) \/ EgressDecides(p, c)
                       \/ EgressDialFails(p, c) \/ EgressTunnels(p, c) \/ EgressCloses(p, c)

=============================================================================
