------------------------------- MODULE Harness -------------------------------
(***************************************************************************)
(* The harness as cli.js puts it together: each Worker Core process drives *)
(* the execution of its Run, the execution runs one role after another,    *)
(* and each role is a child process of the Claude Code adapter.            *)
(*                                                                         *)
(* A stop or a fence travels from the Worker Core through the execution's  *)
(* cancel() and its AbortSignal to the adapter's cancel(), in one step.    *)
(* What comes back travels the other way: a child closes, its promise      *)
(* settles, the orchestrator goes on (module Orchestrator; here, what it   *)
(* may report), and the Run is finished.                                   *)
(*                                                                         *)
(* The children of a process outlive it: start() returns and cli.js calls  *)
(* process.exit, or the process dies.                                      *)
(***************************************************************************)
EXTENDS WorkerCore

CONSTANT RoleOutcome   \* what a role may answer

ASSUME Outcomes == RoleOutcome \subseteq {"IMPLEMENTED", "BLOCKED", "RELEASE", "FAILED"}

VARIABLES
  child, cancelled, sigkillTimer, done  \* of the current or last role of each Run

\* the Runs whose process is still there
Hosted == {r \in Run : holder[r] \in Worker /\ Alive(holder[r])}

Claude == INSTANCE ClaudeProcess WITH Exec <- Run, up <- Hosted

childVars   == <<child, cancelled, sigkillTimer, done>>
harnessVars == <<vars, childVars>>

HarnessInit == Init /\ Claude!Init

-----------------------------------------------------------------------------
(* Roles *)

\* Mutant: no guardCancelled() before the role.
RoleStartsUnguarded(r) ==
  /\ exec[r] \in {"running", "stopping"} /\ r \in Hosted
  /\ Claude!Start(r)
  /\ UNCHANGED vars

\* runRoleGoverned(): guardCancelled(), then a role, after the one before it.
RoleStarts(r) ==
  /\ exec[r] = "running" /\ r \in Hosted
  /\ Claude!Start(r)
  /\ UNCHANGED vars

\* What an execution may report, given how its last role settled: a role whose
\* answer is no PASS ends it FAILED, but for a RELEASE, which may also send a
\* refused rework to a person; a PASS leads on to a check or a transition that
\* may fail; a human-only or unexpected state ends it without a role.
Reports(d) ==
  CASE d = "none"        -> {"COMPLETED", "FAILED", "RELEASED"}
    [] d = "IMPLEMENTED" -> {"COMPLETED", "FAILED"}
    [] d = "RELEASE"     -> {"RELEASED", "FAILED", "COMPLETED"}
    [] OTHER             -> {"FAILED"}

\* Mutant: the execution reports without awaiting its role.
SettlesEarly(w, v) == ExecutionSettles(w, v) /\ UNCHANGED childVars

\* The execution settles between roles.
Settles(w, v) ==
  /\ ExecutionSettles(w, v)
  /\ done[active[w]] # "pending" /\ v \in Reports(done[active[w]])
  /\ UNCHANGED childVars

\* A cancelled execution settles once its role has.
WindsDown(r) ==
  /\ r \in Hosted /\ done[r] # "pending"
  /\ ExecutionWindsDown(r)
  /\ UNCHANGED childVars

-----------------------------------------------------------------------------
(* Cancellation: execution.cancel() aborts the signal every role of the     *)
(* execution listens to, the last of which may still run                    *)

CancelledNow(r) == exec[r] = "running" /\ exec'[r] = "stopping"

\* run(): the listener an adapter leaves on the signal
Aborts(r) == CancelledNow(r) /\ done[r] # "none" /\ Claude!Cancel(r)

Abort ==
  \/ \E r \in Run : Aborts(r)
  \/ /\ \A r \in Run : CancelledNow(r) => done[r] = "none"
     /\ UNCHANGED childVars

Stops(w) == RequestStop(w) /\ Abort
Fences(r, b) == BeatRejected(r, b) /\ Abort

-----------------------------------------------------------------------------
(* The specification *)

\* Steps of the worker and of Rail that touch no execution in progress.
Elsewhere ==
  /\ \/ \E w \in Worker : \/ Discover(w) \/ Claim(w)
                          \/ CancelReturns(w) \/ DrainEnds(w) \/ FinishReturns(w)
                          \/ Wake(w) \/ LoopDrains(w) \/ Crash(w) \/ RailServes(w)
     \/ \E r \in Run : \/ RailKeepsTime(r)
                       \/ \E b \in Beat : Beats(r, b) \/ BeatReturns(r, b)
     \/ \E t \in Ticket : MoveTicket(t)
  /\ UNCHANGED childVars

\* What happens to a child, its timer and its pipes.
ChildSteps(r) ==
  /\ Claude!KillTimer(r) \/ Claude!ChildEnds(r) \/ Claude!ChildCloses(r)
  /\ UNCHANGED vars

HarnessNext ==
  \/ Elsewhere
  \/ \E w \in Worker : Stops(w) \/ \E v \in Report : Settles(w, v)
  \/ \E r \in Run : \/ RoleStarts(r) \/ WindsDown(r) \/ ChildSteps(r)
                    \/ \E b \in Beat : Fences(r, b)

HarnessSpec == HarnessInit /\ [][HarnessNext]_harnessVars

(* Of a cancelled execution: a pending timer fires if its process is alive, *)
(* a child that was sent SIGKILL ends, the pipes of a child that ended are  *)
(* closed, and the execution comes to its end (Orchestrator: CancelSettles).*)
(* Nothing makes a child end that was not killed, not even SIGTERM.         *)
Ending(r) ==
  /\ exec[r] = "stopping"
  /\ \/ /\ \/ Claude!KillTimer(r) \/ Claude!ChildCloses(r)
           \/ child[r] = "killed" /\ Claude!ChildEnds(r)
        /\ UNCHANGED vars
     \/ WindsDown(r)

FairHarness == HarnessSpec /\ \A r \in Run : WF_harnessVars(Ending(r))

-----------------------------------------------------------------------------
(* Properties *)

Running(r) == child[r] \in Claude!Live

ChildTypeOK ==
  /\ child \in [Run -> Claude!Child]
  /\ cancelled \in [Run -> BOOLEAN]
  /\ sigkillTimer \in [Run -> BOOLEAN]
  /\ done \in [Run -> Claude!Done]

\* A child at work is one its process still wants or has already told to stop,
\* or its process is gone: no stop, fence, failure or next Run leaves a child
\* behind that nobody will ever signal.
NoStrayChild ==
  \A r \in Run : Running(r) =>
    \/ r \notin Hosted
    \/ cancelled[r] /\ exec[r] = "stopping"
    \/ /\ exec[r] = "running" /\ pc[holder[r]] = "race" /\ active[holder[r]] = r
       /\ ~cancelled[r]

\* Two children work in the worktree of one ticket only if one of them has
\* been cancelled, has lost its process, or has lost its Run to the sweeper.
Doomed(r) == cancelled[r] \/ r \notin Hosted \/ rail[r] = "ABANDONED"

ExclusiveWorktree ==
  \A r, s \in Run :
    r # s /\ of[r] = of[s] /\ Running(r) /\ Running(s) => Doomed(r) \/ Doomed(s)

\* Whatever a child does with SIGTERM, no process is left for ever with a
\* cancelled execution that does not settle.  Orchestrator assumes it.
CancelledRoleSettles ==
  []<>(\A r \in Run : exec[r] = "stopping" => r \notin Hosted)

(* What the repository says, and the code does not do *)

\* "so the Worker Core can kill the run on fencing / shutdown and leave no
\* orphan child": what a process that was stopped has started comes to its end.
StopLeavesNoOrphan ==
  \A w \in Worker, r \in Run :
    pc[w] = "stopped" /\ holder[r] = w /\ Running(r) ~> ~Running(r)

-----------------------------------------------------------------------------
(* The adapter keeps the promise of AdapterContract *)

Work(c) ==
  CASE c \in Claude!Live              -> "working"
    [] c = "zero"                     -> "well"
    [] c \in {"nonzero", "signalled"} -> "badly"
    [] OTHER                          -> "idle"

Contract == INSTANCE AdapterContract WITH
  Exec      <- Run,
  Result    <- RoleOutcome,
  work      <- [r \in Run |-> Work(child[r])],
  abandoned <- cancelled,
  promise   <- done

\* "It never fabricates an IMPLEMENTED": of each role, done settles after its
\* child ended, and with a result only if it exited with 0 and uncancelled.
ImplementsContract == Contract!Spec

=============================================================================
