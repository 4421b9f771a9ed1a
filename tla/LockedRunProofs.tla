--------------------------- MODULE LockedRunProofs ---------------------------
(***************************************************************************)
(* Theorems about LockedRun for every choice of the faults that may occur. *)
(***************************************************************************)
EXTENDS LockedRun, TLAPS

-----------------------------------------------------------------------------
(* The invariant *)

Commanding == {"create", "abandon", "agent", "stopAgent"}

\* Only a command of run_locked has a client, and it is about a resource; nothing
\* exists before the first command.
CommandInv ==
    /\ cli # "none" => pc \in Commanding
    /\ pc \in Commanding => target \in Resource
    /\ pc \in {"preflight", "inspectVolume"} => (\A r \in Resource : ~Exists(r)) /\ orphans = {}

\* A signal is consumed by the select that changes the outcome.
SignalInv ==
    /\ pc \in {"preflight", "inspectVolume", "create", "agent"} => signal # "consumed"
    /\ signal = "consumed" => outcome # "ok"

\* The resources cleanup_session is done with.
Handled ==
    CASE pc \notin Cleaning \/ target = "agent" -> {}
      [] pc \in Cleaning /\ target \in {"gateway", "stopped"} -> {"agent"}
      [] pc \in Cleaning /\ target = "volume" -> Container

\* Without a restart and without an orphan nothing comes back: what cleanup_session
\* is done with is gone unless `failed` is set, what it did not find is not there
\* if the daemon still answers, and a result that is no error of the cleanup
\* leaves nothing.
CleanInv ==
    faults = {} =>
       /\ orphans = {}
       /\ \A r \in Handled : ~Exists(r) \/ failed
       /\ pc = "info" /\ daemon => ~Exists(Named)
       /\ pc = "done" => NothingLeft \/ outcome \in {"CleanupFailed", "DockerUnavailable"}

RunInv == TypeOK /\ CommandInv /\ SignalInv /\ CleanInv

-----------------------------------------------------------------------------
(* The invariant is inductive *)

\* Nothing exists at the start.
LEMMA InitRun == Init => RunInv
  BY DEF Init, RunInv, TypeOK, CommandInv, SignalInv, CleanInv, Handled, Commanding, Cleaning,
       PC, Outcome, PreflightErrors, Resource, Container, NothingLeft, Exists

\* The launcher's steps.
LEMMA LauncherKeeps == ASSUME RunInv, Launcher PROVE RunInv'
  <1> USE FaultAssumption DEF RunInv, TypeOK, CommandInv, SignalInv, CleanInv, Handled, Commanding, Cleaning,
       PC, Outcome, PreflightErrors, Resource, Container, NothingLeft, Exists, Named, Goto, Return, Send,
       Detached, Interrupted, SignalOutcome, CleanUp, local, docker
  <1>1. CASE PreflightDone
    BY <1>1 DEF PreflightDone
  <1>2. CASE PreflightInterrupted
    BY <1>2 DEF PreflightInterrupted
  <1>3. CASE InspectVolume
    BY <1>3 DEF InspectVolume
  <1>4. CASE Created
    BY <1>4 DEF Created
  <1>5. CASE CreateFailed
    BY <1>5 DEF CreateFailed
  <1>6. CASE CreateInterrupted
    BY <1>6 DEF CreateInterrupted
  <1>7. CASE Abandoned
    BY <1>7 DEF Abandoned
  <1>8. CASE AgentNotStarted
    BY <1>8 DEF AgentNotStarted
  <1>9. CASE AgentEnded
    BY <1>9 DEF AgentEnded
  <1>10. CASE AgentInterrupted
    BY <1>10 DEF AgentInterrupted
  <1>11. CASE StopAgentRemoves
    BY <1>11 DEF StopAgentRemoves
  <1>12. CASE AgentStopped
    BY <1>12 DEF AgentStopped
  <1>13. CASE CleanInfo
    BY <1>13 DEF CleanInfo, CleanupEnds
  <1>14. CASE Inspect
    BY <1>14 DEF Inspect
  <1>15. CASE Info
    BY <1>15 DEF Info, NextResource, CleanupEnds, After
  <1>16. CASE Remove
    <2>1. ASSUME target = "agent" PROVE RunInv'
      BY <1>16, <2>1 DEF Remove, NextResource, CleanupEnds, After
    <2>2. ASSUME target = "stopped" PROVE RunInv'
      BY <1>16, <2>2 DEF Remove, NextResource, CleanupEnds, After
    <2>3. ASSUME target = "volume" PROVE RunInv'
      BY <1>16, <2>3 DEF Remove, NextResource, CleanupEnds, After
    <2> QED BY <1>16, <2>1, <2>2, <2>3 DEF Remove
  <1>17. CASE StopGateway
    BY <1>17 DEF StopGateway
  <1>18. CASE CleanupInterrupted
    BY <1>18 DEF CleanupInterrupted
  <1> QED BY <1>1, <1>2, <1>3, <1>4, <1>5, <1>6, <1>7, <1>8, <1>9, <1>10, <1>11, <1>12, <1>13, <1>14, <1>15, <1>16, <1>17, <1>18 DEF Launcher

\* The daemon's answers.
LEMMA DockerKeeps == ASSUME RunInv, Docker PROVE RunInv'
  <1> USE FaultAssumption DEF RunInv, TypeOK, CommandInv, SignalInv, CleanInv, Handled, Commanding, Cleaning,
       PC, Outcome, PreflightErrors, Resource, Container, NothingLeft, Exists, Named, Goto, Return, Send,
       Detached, Interrupted, SignalOutcome, CleanUp, local, docker
  <1>1. CASE DaemonCreates
    BY <1>1 DEF DaemonCreates
  <1>2. CASE DaemonRefuses
    BY <1>2 DEF DaemonRefuses
  <1>3. CASE ClientReturns
    BY <1>3 DEF ClientReturns
  <1>4. ASSUME NEW r \in Resource, AutoRemove(r) PROVE RunInv'
    BY <1>4 DEF AutoRemove
  <1> QED BY <1>1, <1>2, <1>3, <1>4 DEF Docker

\* Faults, exits and Ctrl-C.
LEMMA EnvironmentKeeps == ASSUME RunInv, Environment PROVE RunInv'
  <1> USE FaultAssumption DEF RunInv, TypeOK, CommandInv, SignalInv, CleanInv, Handled, Commanding, Cleaning,
       PC, Outcome, PreflightErrors, Resource, Container, NothingLeft, Exists, Named, Goto, Return, Send,
       Detached, Interrupted, SignalOutcome, CleanUp, local, docker
  <1>1. CASE AgentLost
    BY <1>1 DEF AgentLost
  <1>2. CASE ClientFails
    BY <1>2 DEF ClientFails, CleanupEnds
  <1>3. CASE ClientInterrupted
    BY <1>3 DEF ClientInterrupted
  <1>4. CASE DaemonGoes
    <2>1. daemon' \in BOOLEAN /\ ~daemon'
      BY <1>4 DEF DaemonGoes
    <2>2. UNCHANGED <<pc, target, outcome, failed, cli, signal, res, orphans, faults>>
      BY <1>4 DEF DaemonGoes
    <2> QED BY <2>1, <2>2
  <1>5. CASE DaemonReturns
    BY <1>5 DEF DaemonReturns
  <1>6. CASE CtrlC
    BY <1>6 DEF CtrlC
  <1>7. ASSUME NEW r \in Resource, OrphanCreated(r) PROVE RunInv'
    BY <1>7 DEF OrphanCreated
  <1>8. ASSUME NEW r \in Resource, Exits(r) PROVE RunInv'
    BY <1>8 DEF Exits
  <1> QED BY <1>1, <1>2, <1>3, <1>4, <1>5, <1>6, <1>7, <1>8 DEF Environment

\* The invariant holds in every reachable state.
THEOREM RunInvariance == Spec => []RunInv
  <1>1. RunInv /\ [Next]_vars => RunInv'
    <2> SUFFICES ASSUME RunInv, [Next]_vars PROVE RunInv'
      OBVIOUS
    <2>1. CASE UNCHANGED vars
      BY <2>1 DEF vars, local, docker, RunInv, TypeOK, CommandInv, SignalInv, CleanInv, Handled,
           NothingLeft, Exists, Named
    <2>2. CASE Next
      BY <2>1, <2>2, LauncherKeeps, DockerKeeps, EnvironmentKeeps DEF Next, Done
    <2> QED BY <2>1, <2>2
  <1> QED BY <1>1, InitRun, PTL DEF Spec

-----------------------------------------------------------------------------
(* What it gives *)

\* If run_locked returns anything but an error of the cleanup, and neither a
\* restart nor an orphan happened, nothing of the session exists or will appear.
THEOREM ExitsClean == Spec => []CleanExit
  <1>1. RunInv => CleanExit
    BY DEF RunInv, CleanInv, CleanExit
  <1> QED BY <1>1, RunInvariance, PTL

\* A Ctrl-C that was noticed is never reported as a success.
THEOREM InterruptsReported == Spec => []InterruptReported
  <1>1. RunInv => InterruptReported
    BY DEF RunInv, SignalInv, InterruptReported
  <1> QED BY <1>1, RunInvariance, PTL
=============================================================================
