------------------------------ MODULE LockedRun ------------------------------
(***************************************************************************)
(* run_locked of blindfold-cli's container runner: a socket volume, a      *)
(* gateway container and an agent container are created one after the      *)
(* other through the docker client, the agent runs in the foreground, and  *)
(* cleanup_session removes all three.  Ctrl-C may come at any moment and   *)
(* is noticed only where the code selects on it; the docker client and the *)
(* daemon may fail; containers exit and are removed by themselves (--rm).  *)
(***************************************************************************)
EXTENDS Naturals

CONSTANT
    Faults   \* "restart": the daemon may go away and come back, once;
             \* "orphan": a request outlives the docker client that sent it

ASSUME FaultAssumption == Faults \subseteq {"restart", "orphan"}

Container == {"gateway", "agent"}
Resource == Container \cup {"volume"}

VARIABLES
    pc,       \* where run_locked is
    target,   \* what the current command is about; "stopped": the gateway again
    cli,      \* the docker client process of a creating command
    signal,   \* Ctrl-C: "none", "pending", or "consumed" by a select
    outcome,  \* the variable `outcome`, then the result of run_locked
    failed,   \* the variable `failed` of cleanup_session
    res,      \* res[r]: "absent", "running" or "removing" (stopped, --rm at work)
    orphans,  \* requests the daemon may still carry out although their client is gone
    daemon,   \* the daemon answers
    faults    \* which of Faults have happened

local == <<pc, target, outcome, failed>>
docker == <<orphans, daemon, faults>>
vars == <<local, cli, signal, res, docker>>

Cleaning == {"cleanInfo", "inspect", "info", "remove"}
PC == {"preflight", "inspectVolume", "create", "abandon", "agent", "stopAgent", "done"}
        \cup Cleaning
PreflightErrors == {"UntrustedDockerExecutable", "RemoteDockerContext", "DockerUnavailable",
                    "DockerOperation"}
Outcome == PreflightErrors \cup {"none", "ok", "Interrupted", "ClockUnavailable",
                                 "SessionCollision", "CleanupFailed"}

TypeOK ==
    /\ pc \in PC /\ target \in Resource \cup {"stopped"} /\ outcome \in Outcome /\ failed \in BOOLEAN
    /\ cli \in {"none", "sent", "running", "ok", "error"}
    /\ signal \in {"none", "pending", "consumed"}
    /\ res \in [Resource -> {"absent", "running", "removing"}]
    /\ orphans \subseteq Resource /\ daemon \in BOOLEAN /\ faults \subseteq Faults

Init ==
    /\ pc = "preflight" /\ target = "volume" /\ outcome = "none" /\ failed = FALSE
    /\ cli = "none" /\ signal = "none"
    /\ res = [r \in Resource |-> "absent"]
    /\ orphans = {} /\ daemon \in BOOLEAN /\ faults = {}

-----------------------------------------------------------------------------
(* Helpers *)

Named == IF target = "stopped" THEN "gateway" ELSE target
Exists(r) == res[r] # "absent"
Goto(label, r) == pc' = label /\ target' = r
Return(r) == pc' = "done" /\ outcome' = r /\ UNCHANGED <<target, failed>>
Send(r) == Goto("create", r) /\ cli' = "sent"

\* What becomes of the request of a client that is killed or interrupted.
Detached ==
    \/ UNCHANGED <<orphans, faults>>
    \/ /\ cli = "sent" /\ "orphan" \in Faults
       /\ orphans' = orphans \cup {target} /\ faults' = faults \cup {"orphan"}

\* The interrupt future resolves inside a select; ctrl_c() itself may fail.
Interrupted == signal = "pending" /\ signal' = "consumed"
SignalOutcome == outcome' \in {"Interrupted", "DockerOperation"}

\* cleanup_session begins.
CleanUp == Goto("cleanInfo", "agent") /\ failed' = FALSE

-----------------------------------------------------------------------------
(* run_locked up to the foreground agent *)

\* The client, the daemon, the image and the host identity are checked.
PreflightDone ==
    /\ pc = "preflight"
    /\ \/ daemon /\ Goto("inspectVolume", target) /\ UNCHANGED <<outcome, failed>>
       \/ \E e \in PreflightErrors : Return(e)
    /\ UNCHANGED <<cli, signal, res, docker>>

PreflightInterrupted ==
    /\ pc = "preflight" /\ Interrupted
    /\ Goto("done", target) /\ SignalOutcome
    /\ UNCHANGED <<failed, cli, res, docker>>

\* No session name, a volume of that name, or a client that cannot be started
\* ends the run; the volume create command is next otherwise.
InspectVolume ==
    /\ pc = "inspectVolume"
    /\ \/ Send("volume") /\ UNCHANGED <<outcome, failed>>
       \/ /\ \E e \in {"ClockUnavailable", "DockerUnavailable", "SessionCollision"} : Return(e)
          /\ UNCHANGED cli
    /\ UNCHANGED <<signal, res, docker>>

\* The command succeeded: the gateway after the volume, the agent after it.
Created ==
    /\ pc = "create" /\ cli = "ok"
    /\ IF target = "volume" THEN Send("gateway")
       ELSE Goto("agent", "agent") /\ cli' = "sent"
    /\ UNCHANGED <<outcome, failed, signal, res, docker>>

CreateFailed ==
    /\ pc = "create" /\ cli = "error"
    /\ outcome' = "DockerOperation" /\ CleanUp
    /\ cli' = "none"
    /\ UNCHANGED <<signal, res, docker>>

\* Mutant of CreateInterrupted: the command in flight is not awaited.
CreateInterruptedNoAwait ==
    /\ pc = "create" /\ Interrupted
    /\ SignalOutcome /\ CleanUp
    /\ cli' = "none"
    /\ orphans' = IF cli = "sent" THEN orphans \cup {target} ELSE orphans
    /\ UNCHANGED <<res, daemon, faults>>

\* The signal wins the select: the command in flight is still awaited.
CreateInterrupted ==
    /\ pc = "create" /\ Interrupted
    /\ SignalOutcome /\ Goto("abandon", target)
    /\ UNCHANGED <<failed, cli, res, docker>>

Abandoned ==
    /\ pc = "abandon" /\ cli \in {"ok", "error"}
    /\ CleanUp /\ cli' = "none"
    /\ UNCHANGED <<outcome, signal, res, docker>>

\* The agent's client cannot be started.
AgentNotStarted ==
    /\ pc = "create" /\ target = "gateway" /\ cli = "ok"
    /\ outcome' = "DockerOperation" /\ CleanUp /\ cli' = "none"
    /\ UNCHANGED <<signal, res, docker>>

\* child.wait() returns; status 125 is docker's own failure.
AgentEnded ==
    /\ pc = "agent" /\ cli \in {"ok", "error"}
    /\ outcome' = IF cli = "ok" THEN "ok" ELSE "DockerOperation"
    /\ CleanUp /\ cli' = "none"
    /\ UNCHANGED <<signal, res, docker>>

\* Mutant of AgentInterrupted: the agent is awaited, not removed.
AgentInterruptedWaits ==
    /\ pc = "agent" /\ Interrupted
    /\ SignalOutcome /\ Goto("abandon", "agent")
    /\ UNCHANGED <<failed, cli, res, docker>>

AgentInterrupted ==
    /\ pc = "agent" /\ Interrupted
    /\ SignalOutcome /\ Goto("stopAgent", "agent")
    /\ UNCHANGED <<failed, cli, res, docker>>

\* stop_agent_after_interrupt: remove the container until the client is gone.
StopAgentRemoves ==
    /\ pc = "stopAgent" /\ cli \in {"sent", "running"}
    /\ daemon /\ res["agent"] = "running"
    /\ res' = [res EXCEPT !["agent"] = "absent"]
    /\ UNCHANGED <<local, cli, signal, docker>>

AgentStopped ==
    /\ pc = "stopAgent" /\ cli \in {"ok", "error"}
    /\ CleanUp /\ cli' = "none"
    /\ UNCHANGED <<outcome, signal, res, docker>>

\* wait or try_wait fails, which also overrides an interrupt: the client is
\* killed when its handle is dropped.
AgentLost ==
    /\ pc \in {"agent", "stopAgent"}
    /\ outcome' = "DockerOperation"
    /\ CleanUp /\ Detached /\ cli' = "none"
    /\ UNCHANGED <<signal, res, daemon>>

-----------------------------------------------------------------------------
(* cleanup_session *)

\* The outcome is the cleanup's error if it has one, the run's otherwise.
CleanupEnds(error) == Return(IF error = "none" THEN outcome ELSE error)

CleanInfo ==
    /\ pc = "cleanInfo"
    /\ \/ daemon /\ Goto("inspect", "agent") /\ UNCHANGED <<outcome, failed>>
       \/ CleanupEnds("CleanupFailed")
    /\ UNCHANGED <<cli, signal, res, docker>>

\* The agent, the gateway, the gateway again if it had to be stopped, and the
\* volume, after which `failed` decides.
After(r) == IF r = "agent" THEN "gateway" ELSE "volume"
NextResource(bad) ==
    IF target = "volume"
    THEN CleanupEnds(IF failed \/ bad THEN "CleanupFailed" ELSE "none")
    ELSE /\ Goto("inspect", After(target))
         /\ failed' = (failed \/ bad) /\ UNCHANGED outcome

\* checked_resource_exists: inspect, and if that fails ask whether the daemon is
\* alive; only then the resource counts as missing.
Inspect ==
    /\ pc = "inspect"
    /\ Goto(IF daemon /\ Exists(Named) THEN "remove" ELSE "info", target)
    /\ UNCHANGED <<outcome, failed, cli, signal, res, docker>>

Info ==
    /\ pc = "info"
    /\ IF daemon THEN NextResource(FALSE) ELSE CleanupEnds("CleanupFailed")
    /\ UNCHANGED <<cli, signal, res, docker>>

\* The docker client cannot be started for an inspect or an info.
ClientFails ==
    /\ pc \in {"inspect", "info"}
    /\ CleanupEnds("DockerUnavailable")
    /\ UNCHANGED <<cli, signal, res, docker>>

\* rm --force of a container and volume rm.  They fail without the daemon; rm
\* fails while --rm is removing the container, volume rm while a container has
\* the volume mounted; the failure of one does not stop the others.
Remove ==
    /\ pc = "remove" /\ target # "gateway"
    /\ \/ /\ daemon /\ res[Named] = "running"
          /\ target = "volume" => \A c \in Container : ~Exists(c)
          /\ res' = [res EXCEPT ![Named] = "absent"]
          /\ NextResource(FALSE)
       \/ UNCHANGED res /\ NextResource(TRUE)
    /\ UNCHANGED <<cli, signal, docker>>

\* stop of the gateway, whose container --rm then removes by itself; a second
\* inspect decides whether it has to be removed.
StopGateway ==
    /\ pc = "remove" /\ target = "gateway"
    /\ \/ /\ daemon /\ Exists("gateway")
          /\ res' = [res EXCEPT !["gateway"] = "removing"]
          /\ UNCHANGED failed
       \/ UNCHANGED res /\ failed' = TRUE
    /\ Goto("inspect", "stopped")
    /\ UNCHANGED <<outcome, cli, signal, docker>>

\* Mutant of CleanupInterrupted: the outcome of the run is kept.
CleanupInterruptedKeeps ==
    /\ pc \in Cleaning /\ Interrupted
    /\ UNCHANGED <<local, cli, res, docker>>

\* The select around cleanup_session: the outcome changes, the cleanup goes on.
CleanupInterrupted ==
    /\ pc \in Cleaning /\ Interrupted
    /\ SignalOutcome
    /\ UNCHANGED <<pc, target, failed, cli, res, docker>>

-----------------------------------------------------------------------------
(* Docker, the containers and the user *)

\* The daemon creates what a client has asked for, or refuses.
DaemonCreates ==
    /\ cli = "sent" /\ daemon
    /\ res' = [res EXCEPT ![target] = "running"]
    /\ cli' = IF target = "agent" THEN "running" ELSE "ok"
    /\ UNCHANGED <<local, signal, docker>>

DaemonRefuses ==
    /\ cli = "sent"
    /\ cli' = "error"
    /\ UNCHANGED <<local, signal, res, docker>>

\* Ctrl-C goes to the docker client too: it may give up a request in flight.
ClientInterrupted ==
    /\ cli = "sent" /\ signal # "none" /\ "orphan" \in Faults
    /\ cli' = "error" /\ Detached
    /\ UNCHANGED <<local, signal, res, daemon>>

OrphanCreated(r) ==
    /\ r \in orphans /\ daemon
    /\ res' = [res EXCEPT ![r] = "running"]
    /\ orphans' = orphans \ {r}
    /\ UNCHANGED <<local, cli, signal, daemon, faults>>

\* The client of the agent returns once its container is gone, or without it.
ClientReturns ==
    /\ cli = "running"
    /\ ~Exists("agent") \/ ~daemon
    /\ cli' \in {"ok", "error"}
    /\ UNCHANGED <<local, signal, res, docker>>

Exits(c) ==
    /\ c \in Container /\ res[c] = "running"
    /\ res' = [res EXCEPT ![c] = "removing"]
    /\ UNCHANGED <<local, cli, signal, docker>>

AutoRemove(c) ==
    /\ c \in Container /\ res[c] = "removing"
    /\ res' = [res EXCEPT ![c] = "absent"]
    /\ UNCHANGED <<local, cli, signal, docker>>

DaemonGoes ==
    /\ daemon /\ daemon' = FALSE
    /\ UNCHANGED <<local, cli, signal, res, orphans, faults>>

DaemonReturns ==
    /\ ~daemon /\ daemon' = TRUE
    /\ "restart" \in Faults \ faults /\ faults' = faults \cup {"restart"}
    /\ UNCHANGED <<local, cli, signal, res, orphans>>

CtrlC ==
    /\ signal = "none" /\ pc # "done"
    /\ signal' = "pending"
    /\ UNCHANGED <<local, cli, res, docker>>
-----------------------------------------------------------------------------
Launcher ==
    \/ PreflightDone \/ PreflightInterrupted \/ InspectVolume
    \/ Created \/ CreateFailed \/ CreateInterrupted \/ Abandoned \/ AgentNotStarted
    \/ AgentEnded \/ AgentInterrupted \/ StopAgentRemoves \/ AgentStopped
    \/ CleanInfo \/ Inspect \/ Info \/ Remove \/ StopGateway \/ CleanupInterrupted

Docker ==
    \/ DaemonCreates \/ DaemonRefuses \/ ClientReturns
    \/ \E c \in Container : AutoRemove(c)

Environment ==
    \/ AgentLost \/ ClientFails \/ ClientInterrupted
    \/ \E r \in Resource : OrphanCreated(r) \/ Exits(r)
    \/ DaemonGoes \/ DaemonReturns \/ CtrlC

Done == pc = "done" /\ UNCHANGED vars

Next == Launcher \/ Docker \/ Environment \/ Done

Spec == Init /\ [][Next]_vars

\* The launcher goes on, a request is answered, a container that was stopped is
\* removed and its client returns.  The agent may run for ever.
FairSpec ==
    /\ Spec /\ WF_vars(Launcher)
    /\ WF_vars(DaemonCreates \/ DaemonRefuses) /\ WF_vars(ClientReturns)
    /\ \A c \in Container : WF_vars(AutoRemove(c))

-----------------------------------------------------------------------------
(* Properties *)

NothingLeft == \A r \in Resource : ~Exists(r)

\* Whatever stage the run had reached, whatever failed and whenever Ctrl-C came:
\* if run_locked returns anything but an error of the cleanup itself, no
\* container and no volume of the session exists, nor will one still appear,
\* unless the daemon restarted or a client dropped its request on the way.
CleanExit ==
    pc = "done" /\ faults = {} /\ outcome \notin {"CleanupFailed", "DockerUnavailable"} =>
       NothingLeft /\ orphans = {}

\* A Ctrl-C that the code noticed is never reported as a successful run, even
\* when it came after the agent had ended, during the cleanup.
InterruptReported == pc = "done" /\ signal = "consumed" => outcome # "ok"

\* "On Ctrl-C, the launcher stops the foreground agent, removes the exact gateway
\* and socket volume, and exits with status 130" (docs/container-boundary.md).
InterruptedIsClean == pc = "done" /\ outcome = "Interrupted" => NothingLeft

\* Ctrl-C ends the run, at whatever stage it comes, although the agent would
\* never end by itself.
InterruptEnds == signal = "pending" ~> pc = "done"
=============================================================================
