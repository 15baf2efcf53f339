---------------------------- MODULE ClaudeProcess ----------------------------
(***************************************************************************)
(* The Claude Code adapter (src/adapters/claude-code.js): one child        *)
(* process per role execution, the promise `done` it is turned into, and   *)
(* its cancellation: SIGTERM, then SIGKILL from an unref'd timer.          *)
(*                                                                         *)
(* The child belongs to the operating system and outlives the process that *)
(* spawned it; the handlers, the timer and the promise do not.  `up` is    *)
(* the set of executions whose process is still there.                     *)
(***************************************************************************)
CONSTANTS
  Exec,         \* executions; one child of each at a time
  RoleOutcome   \* EXECUTION_OUTCOMES, or some of them

VARIABLES
  up,           \* executions whose harness process is alive
  child,        \* the child process, and the last signal it was sent
  cancelled,    \* controller.cancelled
  sigkillTimer, \* is controller.sigkillTimer pending?
  done          \* the promise: "none", "pending", or what it settled with

processVars == <<child, cancelled, sigkillTimer, done>>

\* stdout at 'close': a valid result, or none (empty, no JSON, off the schema)
Stdout == RoleOutcome \cup {"invalid"}

Live   == {"running", "termed", "killed"}
\* ended but its pipes still open: exit code 0, another, null after a signal
Over   == {"zero", "nonzero", "signalled"}
Child  == {"none"} \cup Live \cup Over
Done   == {"none", "pending", "rejected"} \cup RoleOutcome

\* controller.closed, which 'close' and 'error' set
Closed(e) == done[e] # "pending"
\* child.exitCode != null; a child that a signal ended has none
HasExitCode(e) == child[e] \in {"zero", "nonzero"}

Init ==
  /\ child = [e \in Exec |-> "none"]
  /\ cancelled = [e \in Exec |-> FALSE]
  /\ sigkillTimer = [e \in Exec |-> FALSE]
  /\ done = [e \in Exec |-> "none"]

\* The provider is unknown, assertRunnable or spawn throws, or 'error' comes at
\* once: no child.
Refused(e) ==
  /\ child' = [child EXCEPT ![e] = "none"]
  /\ done' = [done EXCEPT ![e] = "rejected"]

Spawned(e) ==
  /\ child' = [child EXCEPT ![e] = "running"]
  /\ done' = [done EXCEPT ![e] = "pending"]

\* startClaudeExecution(): a fresh controller, and a child or none.
Start(e) ==
  /\ Closed(e)
  /\ cancelled' = [cancelled EXCEPT ![e] = FALSE]
  /\ sigkillTimer' = [sigkillTimer EXCEPT ![e] = FALSE]
  /\ Refused(e) \/ Spawned(e)

\* cancel(): the first call on an execution that has not ended signals the
\* child and arms the escalation.  SIGTERM does nothing to a child that has
\* just been ended by another signal.
Cancel(e) ==
  /\ e \in up /\ done[e] # "none"
  /\ cancelled' = [cancelled EXCEPT ![e] = TRUE]
  /\ \/ /\ ~cancelled[e] /\ ~Closed(e) /\ ~HasExitCode(e)
        /\ child' = [child EXCEPT ![e] = IF @ = "running" THEN "termed" ELSE @]
        /\ sigkillTimer' = [sigkillTimer EXCEPT ![e] = TRUE]
     \/ /\ cancelled[e] \/ Closed(e) \/ HasExitCode(e)
        /\ UNCHANGED <<child, sigkillTimer>>
  /\ UNCHANGED done

\* Mutant: child.killed, true once any signal was sent, stops the escalation.
KillTimerIfNotSignalled(e) ==
  /\ e \in up /\ sigkillTimer[e]
  /\ sigkillTimer' = [sigkillTimer EXCEPT ![e] = FALSE]
  /\ UNCHANGED <<child, cancelled, done>>

\* killGraceMs later: SIGKILL, unless the child closed or has an exit code.
KillTimer(e) ==
  /\ e \in up /\ sigkillTimer[e]
  /\ sigkillTimer' = [sigkillTimer EXCEPT ![e] = FALSE]
  /\ child' = [child EXCEPT ![e] = IF @ \in Live THEN "killed" ELSE @]
  /\ UNCHANGED <<cancelled, done>>

\* The child ends, of itself or by a signal, whether or not its harness lives
\* (operating system).
ChildEnds(e) ==
  /\ child[e] \in Live
  /\ \E how \in Over : child' = [child EXCEPT ![e] = how]
  /\ UNCHANGED <<cancelled, sigkillTimer, done>>

\* Mutant: any output is taken for a result.
ParseExecutionResultUnchecked(out) == out

\* parseExecutionResult(): a schema-valid result, or a throw
ParseExecutionResult(out) == IF out \in RoleOutcome THEN out ELSE "rejected"

\* Mutant: a cancelled child that exits with 0 all the same is believed.
SettledUncancelled(e, out) ==
  IF child[e] # "zero" THEN "rejected" ELSE ParseExecutionResult(out)

\* what `done` settles with once the child has closed
Settled(e, out) ==
  IF cancelled[e] \/ child[e] # "zero" THEN "rejected" ELSE ParseExecutionResult(out)

\* 'close': the child has ended and its pipes are closed.  A harness that is
\* gone hears nothing.
ChildCloses(e) ==
  /\ child[e] \in Over
  /\ child' = [child EXCEPT ![e] = "none"]
  /\ \/ /\ e \in up
        /\ sigkillTimer' = [sigkillTimer EXCEPT ![e] = FALSE]
        /\ \E out \in Stdout : done' = [done EXCEPT ![e] = Settled(e, out)]
     \/ e \notin up /\ UNCHANGED <<sigkillTimer, done>>
  /\ UNCHANGED cancelled

=============================================================================
