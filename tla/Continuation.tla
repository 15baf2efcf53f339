---------------------------- MODULE Continuation ----------------------------
(***************************************************************************)
(* The continuation runner (src/worker/recovery.js) with its preflight     *)
(* (recovery-preflight.js) and the exit code of its process (cli.js): one  *)
(* governed POST /resume or /recover takes over one WorkCycle, from a read *)
(* of Rail that may be stale when it is used, and drives the new Run.      *)
(*                                                                         *)
(* The processes meet others (a Worker Core, more continuations; external  *)
(* to this module) that own an earlier Run and may be dead, late, or alive *)
(* and renewing its lease, or that continue the cycle first.  Rail is      *)
(* external: it validates the POST by the rules docs/STATE_MACHINE.md      *)
(* states of it.                                                           *)
(*                                                                         *)
(* A step is what Node runs between two awaits.  Project, branch and       *)
(* worktree checks are one refusal that may always happen.  The Harness    *)
(* judges leases by its own clock, which nothing ties to Rail's.           *)
(***************************************************************************)
EXTENDS Naturals, Sequences

CONSTANTS
  Proc, Run,      \* the processes, and the Run ids of the WorkCycle
  Earlier,        \* its Runs before any continuation, oldest first
  StartedAt,      \* startedAt of each Run, in ms; two Runs may share one
  IdRank,         \* the ids of the Runs, as strings compare
  NoRun, NoDetail,
  Others,         \* whoever else works on the cycle
  CycleState,     \* the states of the WorkCycle that are tried
  OthersOutcome,  \* the outcomes others finish their Runs with
  EchoesState,    \* does Rail's answer carry the cycle state?
  Report          \* what executions may report

ASSUME Constants ==
  /\ Earlier \in Seq(Run) /\ Len(Earlier) > 0 /\ NoRun \notin Run
  /\ StartedAt \in [Run -> Nat] /\ IdRank \in [Run -> Nat]
  /\ \A r, s \in Run : IdRank[r] = IdRank[s] => r = s
  /\ \A i, j \in 1 .. Len(Earlier) :
       i <= j => StartedAt[Earlier[i]] <= StartedAt[Earlier[j]]
  /\ Others \notin Proc /\ "none" \notin Proc \cup {Others}
  /\ CycleState \subseteq {"READY", "IN_PROGRESS", "REVIEWING", "DONE"}
  /\ OthersOutcome \subseteq {"COMPLETED", "FAILED", "ABANDONED", "RELEASED"}
  /\ EchoesState \in BOOLEAN
  /\ Report \subseteq
       {"COMPLETED", "FAILED", "ABANDONED", "RELEASED", "unknown", "error"}

VARIABLES
  \* Rail
  cycle, blocked,  \* state of the WorkCycle; is a blocking query open?
  rail, lapsed,    \* state of each Run; is its lease past leaseExpiresAt?
  history,         \* the Runs of the cycle by startedAt
  holder, born,    \* who owns each Run, and the cycle state it took over
  \* a process
  op,              \* "resume" or "recover"
  pc,              \* the await runContinuation() is suspended at
  detail,          \* the answer to getTicket
  body,            \* lastRunId of the POST, the previous Run
  answer,          \* the answer to the POST, then to finishRun
  run, start,      \* the recovered Run; ctx.recovery.cycleState
  stopRequested,
  fenced,          \* state.fenced and run.ownershipLost, always set together
  runFinished, closing,
  timer, beat,     \* heartbeat interval armed; the heartbeat in flight
  exec,            \* the execution, or what its `done` reported
  result           \* outcome and code runContinuation() returns

railVars == <<cycle, blocked, rail, lapsed, history, holder, born>>
callVars == <<detail, body, answer>>
runVars  == <<run, start, runFinished, closing, timer, exec>>
vars == <<railVars, op, pc, callVars, runVars, stopRequested, fenced, beat, result>>

-----------------------------------------------------------------------------
(* Vocabulary *)

RunOutcome  == {"COMPLETED", "FAILED", "ABANDONED", "RELEASED"}
RunState    == {"NONE", "OPEN"} \cup RunOutcome
Verdict     == RunOutcome \cup {"unknown", "error"}
ExecState   == {"none", "running", "stopping", "stopped"} \cup Verdict
PreOwnership == {"READY"}      \* PRE_OWNERSHIP_CYCLE_STATES
Terminal     == {"DONE"}       \* TERMINAL_CYCLE_STATES
Awaiting    == {"get", "post", "recheck", "race", "cancel", "drain", "finish"}
Ended       == {"exited", "dead"}
Nothing     == "none"
NoAnswer == [status |-> "none", id |-> NoRun, from |-> NoRun, cycle |-> Nothing]
NoResult == [outcome |-> "none", code |-> "none"]

Alive(p) == pc[p] \in Awaiting

\* Mutant: the outcome passed through unchecked.
FinishOutcomeUnchecked(v) == v

\* RUN_FINISH_OUTCOMES.has(value.outcome) ? value.outcome : "FAILED", and
\* "FAILED" for a rejected `done`
FinishOutcome(v) == IF v \in RunOutcome THEN v ELSE "FAILED"

\* exec.cancel() is called at most once, and only on a started execution
Cancelled(p) == IF exec[p] = "running" THEN "stopping" ELSE exec[p]

\* the codes cli.js takes for "Rail was not mutated"
NoOpCodes == {"NOT_RECOVERABLE", "WORKSPACE_MISMATCH", "ENDPOINT_UNAVAILABLE",
              "REJECTED_ACTIVE_RUN", "TICKET_READ_FAILED"}

\* Mutant: a refused contract counts as a no-op too.
ExitCodeOptimistic(res) ==
  CASE res.outcome = "COMPLETED" -> 0
    [] res.code \in NoOpCodes \cup {"RESPONSE_CONTRACT_ERROR"} -> 2
    [] OTHER -> 1

ExitCode(res) ==
  CASE res.outcome = "COMPLETED" -> 0
    [] res.outcome # "COMPLETED" /\ res.code \in NoOpCodes -> 2
    [] OTHER -> 1

Latest == history[Len(history)]
CycleRuns == {history[i] : i \in DOMAIN history}
IsEarlier(r) == \E i \in DOMAIN Earlier : Earlier[i] = r

Init ==
  /\ cycle \in CycleState /\ blocked \in BOOLEAN
  /\ history = Earlier
  /\ \E s \in OthersOutcome \cup {"OPEN"} :
       rail = [r \in Run |-> IF r = Latest THEN s
                             ELSE IF IsEarlier(r) THEN "ABANDONED" ELSE "NONE"]
  /\ \E l \in BOOLEAN : lapsed = [r \in Run |-> rail[r] = "OPEN" /\ l]
  /\ holder = [r \in Run |-> IF IsEarlier(r) THEN Others ELSE Nothing]
  /\ born = [r \in Run |-> Nothing]
  /\ op \in [Proc -> {"resume", "recover"}]
  /\ pc = [p \in Proc |-> "get"]
  /\ detail = [p \in Proc |-> NoDetail]
  /\ body = [p \in Proc |-> NoRun]
  /\ answer = [p \in Proc |-> NoAnswer]
  /\ run = [p \in Proc |-> NoRun]
  /\ start = [p \in Proc |-> Nothing]
  /\ stopRequested = [p \in Proc |-> FALSE]
  /\ fenced = [p \in Proc |-> FALSE]
  /\ runFinished = [p \in Proc |-> FALSE]
  /\ closing = [p \in Proc |-> "none"]
  /\ timer = [p \in Proc |-> FALSE]
  /\ beat = [p \in Proc |-> "none"]
  /\ exec = [p \in Proc |-> "none"]
  /\ result = [p \in Proc |-> NoResult]

-----------------------------------------------------------------------------
(* The preflight: resolveResumeTarget, resolveRecoveryTarget *)

\* isActiveRunLeaseLive: late, if the Harness's clock has leaseExpiresAt behind
\* it when the reading is judged (or there is none), whatever Rail's clock says
IsActiveRunLeaseLive(d, r, late) == d.rail[r] = "OPEN" /\ ~late

\* rMs > bMs || (rMs === bMs && r.id > best.id)
Newer(r, s) ==
  \/ StartedAt[r] > StartedAt[s]
  \/ StartedAt[r] = StartedAt[s] /\ IdRank[r] > IdRank[s]

\* Mutant: the comparison is the wrong way round.
PickFirstRun(runs) == {l \in runs : \A s \in runs \ {l} : Newer(s, l)}

\* pickLastRun: the most recent Run of the cycle, if there is one
PickLastRun(runs) == {l \in runs : \A s \in runs \ {l} : Newer(l, s)}

\* may l be continued, by a reading d judged at a moment when activeRun is late?
ResumeTarget(d, late, l) ==
  /\ ~d.blocked
  /\ d.cycle \notin Terminal \cup PreOwnership
  /\ \/ d.active # NoRun /\ l = d.active /\ ~IsActiveRunLeaseLive(d, l, late)
     \/ d.active = NoRun /\ l \in PickLastRun(d.runs) /\ d.rail[l] # "OPEN"

RecoveryTarget(d, late, l) ==
  /\ d.cycle = "IN_PROGRESS"
  /\ ~d.blocked
  /\ \/ d.active # NoRun /\ l = d.active /\ ~IsActiveRunLeaseLive(d, l, late)
     \/ /\ d.active = NoRun /\ l \in PickLastRun(d.runs)
        /\ d.rail[l] \in {"FAILED", "ABANDONED"}

Recoverable(p, late, l) ==
  \/ op[p] = "resume" /\ ResumeTarget(detail[p], late, l)
  \/ op[p] = "recover" /\ RecoveryTarget(detail[p], late, l)

-----------------------------------------------------------------------------
(* runContinuation(): read, preflight, POST *)

\* The answers to the read and the POST are not used any more.
Forget(p) ==
  /\ detail' = [detail EXCEPT ![p] = NoDetail]
  /\ answer' = [answer EXCEPT ![p] = NoAnswer]
  /\ UNCHANGED body

\* runContinuation() returns, and cli.js exits the process with its code.
Return(p, outcome, code) ==
  /\ Forget(p)
  /\ pc' = [pc EXCEPT ![p] = "exited"]
  /\ result' = [result EXCEPT ![p] = [outcome |-> outcome, code |-> code]]

TicketReadFails(p) ==
  /\ pc[p] = "get" /\ detail[p] = NoDetail
  /\ Return(p, "FAILED", "TICKET_READ_FAILED")
  /\ UNCHANGED <<railVars, op, runVars, stopRequested, fenced, beat>>

\* The preflight refuses; nothing is sent.
Refuse(p) ==
  /\ pc[p] = "get" /\ detail[p] # NoDetail
  /\ \/ /\ \E late \in BOOLEAN : \A l \in Run : ~Recoverable(p, late, l)
        /\ Return(p, "BLOCKED", "NOT_RECOVERABLE")
     \/ Return(p, "BLOCKED", "NOT_RECOVERABLE")     \* project or branch
     \/ Return(p, "BLOCKED", "WORKSPACE_MISMATCH")  \* worktreeProblem
  /\ UNCHANGED <<railVars, op, runVars, stopRequested, fenced, beat>>

\* The preflight passes, the worktree is as expected: the one mutation is sent.
Post(p) ==
  /\ pc[p] = "get" /\ detail[p] # NoDetail
  /\ \E late \in BOOLEAN, l \in Run :
       Recoverable(p, late, l) /\ body' = [body EXCEPT ![p] = l]
  /\ pc' = [pc EXCEPT ![p] = "post"]
  /\ UNCHANGED <<railVars, op, detail, answer, runVars, stopRequested,
                 fenced, beat, result>>

\* The POST threw.  An answer that was lost has no status and no code.
PostThrows(p) ==
  /\ pc[p] = "post"
  /\ \/ answer[p].status = "absent" /\ Return(p, "BLOCKED", "ENDPOINT_UNAVAILABLE")
     \/ answer[p].status = "conflict" /\ Return(p, "ABORTED", "REJECTED_ACTIVE_RUN")
     \/ answer[p].status \in {"rejected", "lost"} /\ Return(p, "FAILED", "REJECTED")
  /\ UNCHANGED <<railVars, op, runVars, stopRequested, fenced, beat>>

\* 2xx without a usable run.id or claimToken: one read-only look, then the end.
Unusable(p) ==
  /\ pc[p] = "post" /\ answer[p].status = "2xx" /\ answer[p].id = NoRun
  /\ pc' = [pc EXCEPT ![p] = "recheck"]
  /\ Forget(p)
  /\ UNCHANGED <<railVars, op, runVars, stopRequested, fenced, beat, result>>

RecheckReturns(p) ==
  /\ pc[p] = "recheck"
  /\ Return(p, "FAILED", "RESPONSE_CONTRACT_ERROR")
  /\ UNCHANGED <<railVars, op, runVars, stopRequested, fenced, beat>>

\* Mutant: a Run that is not new is driven.
IsContinuationOldRun(p) ==
  /\ answer[p].status = "2xx" /\ answer[p].id # NoRun
  /\ answer[p].from \in {NoRun, body[p]}

\* not the Run we asked to continue, and of no other Run, if it says of which
IsContinuation(p) ==
  /\ answer[p].status = "2xx" /\ answer[p].id # NoRun
  /\ answer[p].id # body[p]
  /\ answer[p].from \in {NoRun, body[p]}

WrongRun(p) ==
  /\ pc[p] = "post"
  /\ answer[p].status = "2xx" /\ answer[p].id # NoRun /\ ~IsContinuation(p)
  /\ Return(p, "FAILED", "RESPONSE_CONTRACT_ERROR")
  /\ UNCHANGED <<railVars, op, runVars, stopRequested, fenced, beat>>

\* Mutant: the preflight's reading wins over Rail's answer.
PreflightCycleState(p) == detail[p].cycle

\* cycleState ?? target.cycleState
PreservedCycleState(p) ==
  IF answer[p].cycle # Nothing THEN answer[p].cycle ELSE detail[p].cycle

-----------------------------------------------------------------------------
(* The recovered Run: execution, safeFinish, teardown, fencing *)

\* Mutant: the fence is not looked at.
MayFinishFenced(p) == ~runFinished[p]

MayFinish(p) == ~fenced[p] /\ ~runFinished[p]

\* safeFinish(), and the return that follows it with result res.
SafeFinish(p, o, res) ==
  /\ Forget(p)
  /\ result' = [result EXCEPT ![p] = res]
  /\ \/ /\ MayFinish(p)
        /\ runFinished' = [runFinished EXCEPT ![p] = TRUE]
        /\ closing' = [closing EXCEPT ![p] = o]
        /\ pc' = [pc EXCEPT ![p] = "finish"]
     \/ /\ ~MayFinish(p)
        /\ pc' = [pc EXCEPT ![p] = "exited"]
        /\ UNCHANGED <<runFinished, closing>>

Stopped == [outcome |-> "RELEASED", code |-> "STOPPED"]
Recovered(o) == [outcome |-> o, code |-> "RECOVERED"]

\* The answer is a continuation and no stop came meanwhile: heartbeat armed,
\* execution created at the preserved state.
Execute(p) ==
  /\ pc[p] = "post" /\ IsContinuation(p) /\ ~stopRequested[p]
  /\ run' = [run EXCEPT ![p] = answer[p].id]
  /\ start' = [start EXCEPT ![p] = PreservedCycleState(p)]
  /\ timer' = [timer EXCEPT ![p] = TRUE]
  /\ exec' = [exec EXCEPT ![p] = "running"]
  /\ pc' = [pc EXCEPT ![p] = "race"]
  /\ Forget(p)
  /\ UNCHANGED <<railVars, op, runFinished, closing, stopRequested,
                 fenced, beat, result>>

\* Mutant: the Run just granted is left to its lease.
StopBeforeExecutingSilent(p) ==
  /\ pc[p] = "post" /\ IsContinuation(p) /\ stopRequested[p]
  /\ run' = [run EXCEPT ![p] = answer[p].id]
  /\ Return(p, "RELEASED", "STOPPED")
  /\ UNCHANGED <<railVars, op, start, runFinished, closing, timer, exec,
                 stopRequested, fenced, beat>>

\* A stop came before the execution: the new Run is released.
StopBeforeExecuting(p) ==
  /\ pc[p] = "post" /\ IsContinuation(p) /\ stopRequested[p]
  /\ run' = [run EXCEPT ![p] = answer[p].id]
  /\ SafeFinish(p, "RELEASED", Stopped)
  /\ UNCHANGED <<railVars, op, start, timer, exec, stopRequested,
                 fenced, beat>>

\* createExecution() threw.
ExecuteFails(p) ==
  /\ pc[p] = "post" /\ IsContinuation(p) /\ ~stopRequested[p]
  /\ run' = [run EXCEPT ![p] = answer[p].id]
  /\ SafeFinish(p, "FAILED", Recovered("FAILED"))
  /\ UNCHANGED <<railVars, op, start, timer, exec, stopRequested,
                 fenced, beat>>

\* Mutant: an unknown outcome is taken for success.
ExecutionSettlesOptimistic(p, v) ==
  LET o == IF v = "unknown" THEN "COMPLETED" ELSE FinishOutcome(v) IN
  /\ pc[p] = "race" /\ exec[p] = "running"
  /\ exec' = [exec EXCEPT ![p] = v]
  /\ timer' = [timer EXCEPT ![p] = FALSE]
  /\ SafeFinish(p, o, Recovered(o))
  /\ UNCHANGED <<railVars, op, run, start, stopRequested, fenced, beat>>

\* `done` settles: the Run is finished with its outcome, FAILED if it threw or
\* reported something else.
ExecutionSettles(p, v) ==
  LET o == FinishOutcome(v) IN
  /\ pc[p] = "race" /\ exec[p] = "running"
  /\ exec' = [exec EXCEPT ![p] = v]
  /\ timer' = [timer EXCEPT ![p] = FALSE]
  /\ SafeFinish(p, o, Recovered(o))
  /\ UNCHANGED <<railVars, op, run, start, stopRequested, fenced, beat>>

ExecutionWindsDown(p) ==
  /\ exec[p] = "stopping"
  /\ exec' = [exec EXCEPT ![p] = "stopped"]
  /\ UNCHANGED <<railVars, op, pc, callVars, run, start, runFinished, closing,
                 timer, stopRequested, fenced, beat, result>>

\* Mutant: the stop signal is not part of the race.
RequestStopUnheard(p) ==
  /\ Alive(p) /\ ~stopRequested[p]
  /\ stopRequested' = [stopRequested EXCEPT ![p] = TRUE]
  /\ UNCHANGED <<railVars, op, pc, callVars, runVars, fenced, beat, result>>

\* requestStop(): heard by the race, which cancels; elsewhere only the flag.
RequestStop(p) ==
  /\ Alive(p) /\ ~stopRequested[p]
  /\ stopRequested' = [stopRequested EXCEPT ![p] = TRUE]
  /\ \/ /\ pc[p] = "race"
        /\ pc' = [pc EXCEPT ![p] = "cancel"]
        /\ exec' = [exec EXCEPT ![p] = Cancelled(p)]
     \/ pc[p] # "race" /\ UNCHANGED <<pc, exec>>
  /\ UNCHANGED <<railVars, op, callVars, run, start, runFinished, closing, timer,
                 fenced, beat, result>>

\* teardown() after cancel() returned or threw
CancelReturns(p) ==
  /\ pc[p] = "cancel"
  /\ timer' = [timer EXCEPT ![p] = FALSE]
  /\ SafeFinish(p, "RELEASED", Stopped)
  /\ UNCHANGED <<railVars, op, run, start, exec, stopRequested, fenced, beat>>

\* drainCancelled() ends: `done` settled or 50 ms passed.
DrainEnds(p) ==
  /\ pc[p] = "drain"
  /\ timer' = [timer EXCEPT ![p] = FALSE]
  /\ Return(p, "FENCED", "OWNERSHIP_LOST")
  /\ UNCHANGED <<railVars, op, run, start, runFinished, closing, exec,
                 stopRequested, fenced, beat>>

\* finishRun answered, or failed: both only logged.
FinishReturns(p) ==
  /\ pc[p] = "finish" /\ answer[p].status # "none"
  /\ pc' = [pc EXCEPT ![p] = "exited"]
  /\ Forget(p)
  /\ UNCHANGED <<railVars, op, runVars, stopRequested, fenced, beat, result>>

\* SIGKILL, or the second signal
Crash(p) ==
  /\ Alive(p)
  /\ pc' = [pc EXCEPT ![p] = "dead"]
  /\ UNCHANGED <<railVars, op, callVars, runVars, stopRequested, fenced, beat, result>>

-----------------------------------------------------------------------------
(* startHeartbeat, onOwnershipLost *)

Beats(p) ==
  /\ Alive(p) /\ timer[p] /\ beat[p] = "none"
  /\ ~fenced[p] /\ ~runFinished[p]
  /\ beat' = [beat EXCEPT ![p] = "sent"]
  /\ UNCHANGED <<railVars, op, pc, callVars, runVars, stopRequested, fenced, result>>

\* Mutant: any failed heartbeat ends the supervisor.
BeatReturnsLast(p) ==
  /\ Alive(p) /\ beat[p] \in {"ok", "transient"}
  /\ beat' = [beat EXCEPT ![p] = "none"]
  /\ timer' = [timer EXCEPT ![p] = timer[p] /\ beat[p] = "ok"]
  /\ UNCHANGED <<railVars, op, pc, callVars, run, start, runFinished, closing, exec,
                 stopRequested, fenced, result>>

\* renewed, or retried at the next interval
BeatReturns(p) ==
  /\ Alive(p) /\ beat[p] \in {"ok", "transient"}
  /\ beat' = [beat EXCEPT ![p] = "none"]
  /\ UNCHANGED <<railVars, op, pc, callVars, runVars, stopRequested, fenced, result>>

\* A rejection stops the interval, fences, cancels and wakes the race.
BeatRejected(p) ==
  /\ Alive(p) /\ beat[p] = "rejected"
  /\ beat' = [beat EXCEPT ![p] = "none"]
  /\ timer' = [timer EXCEPT ![p] = FALSE]
  /\ fenced' = [fenced EXCEPT ![p] = TRUE]
  /\ exec' = [exec EXCEPT ![p] = Cancelled(p)]
  /\ pc' = [pc EXCEPT ![p] = IF pc[p] = "race" THEN "drain" ELSE pc[p]]
  /\ UNCHANGED <<railVars, op, callVars, run, start, runFinished, closing,
                 stopRequested, result>>

-----------------------------------------------------------------------------
(* Rail, the network, and the owner of the first Run (external) *)

LeaseLive(r) == rail[r] = "OPEN" /\ ~lapsed[r]

\* getTicket is answered.  activeRun may be missing although a Run is ACTIVE,
\* the inconsistency the preflight refuses.
RailAnswersGet(p) ==
  /\ pc[p] = "get" /\ detail[p] = NoDetail
  /\ \E a \in {NoRun, Latest} :
       /\ a = Latest => rail[a] = "OPEN"
       /\ detail' = [detail EXCEPT ![p] =
            [cycle |-> cycle, blocked |-> blocked, runs |-> CycleRuns,
             active |-> a, rail |-> rail]]
  /\ UNCHANGED <<railVars, op, pc, body, answer, runVars, stopRequested,
                 fenced, beat, result>>

\* docs/STATE_MACHINE.md: what Rail itself requires of the POST
Acceptable(o, r) ==
  /\ ~blocked /\ r = Latest /\ ~LeaseLive(r)
  /\ \/ o = "resume" /\ cycle \notin Terminal \cup PreOwnership
     \/ /\ o = "recover" /\ cycle = "IN_PROGRESS"
        /\ rail[r] \in {"OPEN", "FAILED", "ABANDONED"}

\* Whatever Run it makes, Rail's 2xx may name any Run or none (NoRun: run.id or
\* claimToken unusable) as the new one, and any or none as the one continued.
Handoffs ==
  [status : {"2xx"}, id : Run \cup {NoRun}, from : Run \cup {NoRun},
   cycle : {IF EchoesState THEN cycle ELSE Nothing}]

\* Rail makes Run r for process h in continuation of l, and abandons l if it
\* was still open.
Grant(r, l, h) ==
  /\ rail[r] = "NONE" /\ StartedAt[r] >= StartedAt[l]
  /\ rail' = [rail EXCEPT ![r] = "OPEN",
                          ![l] = IF @ = "OPEN" THEN "ABANDONED" ELSE @]
  /\ history' = Append(history, r)
  /\ lapsed' = [lapsed EXCEPT ![l] = FALSE]
  /\ holder' = [holder EXCEPT ![r] = h]
  /\ born' = [born EXCEPT ![r] = cycle]

\* One atomic step at Rail; its answer may be lost.
RailContinues(p) ==
  /\ pc[p] = "post" /\ answer[p].status = "none" /\ Acceptable(op[p], body[p])
  /\ \E r \in Run :
       /\ Grant(r, body[p], p)
       /\ \E a \in Handoffs \cup {[NoAnswer EXCEPT !.status = "lost"]} :
            answer' = [answer EXCEPT ![p] = a]
  /\ UNCHANGED <<cycle, blocked, op, pc, detail, body, runVars,
                 stopRequested, fenced, beat, result>>

RailRefuses(p) ==
  /\ pc[p] = "post" /\ answer[p].status = "none" /\ ~Acceptable(op[p], body[p])
  /\ \E s \in {"conflict", "rejected"} : answer' = [answer EXCEPT ![p].status = s]
  /\ UNCHANGED <<railVars, op, pc, detail, body, runVars, stopRequested,
                 fenced, beat, result>>

\* The endpoint is not deployed, or the request never arrives.
PostLost(p) ==
  /\ pc[p] = "post" /\ answer[p].status = "none"
  /\ \E s \in {"absent", "lost"} : answer' = [answer EXCEPT ![p].status = s]
  /\ UNCHANGED <<railVars, op, pc, detail, body, runVars, stopRequested,
                 fenced, beat, result>>

\* a claimToken opens the Run it was made for, while it is ACTIVE
Opens(p) == rail[run[p]] = "OPEN" /\ holder[run[p]] = p

RailFinishes(p) ==
  /\ pc[p] = "finish" /\ answer[p].status = "none" /\ Opens(p)
  /\ rail' = [rail EXCEPT ![run[p]] = closing[p]]
  /\ lapsed' = [lapsed EXCEPT ![run[p]] = FALSE]
  /\ \E a \in {"ok", "fail"} : answer' = [answer EXCEPT ![p].status = a]
  /\ UNCHANGED <<cycle, blocked, history, holder, born, op, pc, detail, body,
                 runVars, stopRequested, fenced, beat, result>>

FinishRefused(p) ==
  /\ pc[p] = "finish" /\ answer[p].status = "none"
  /\ answer' = [answer EXCEPT ![p].status = "fail"]
  /\ UNCHANGED <<railVars, op, pc, detail, body, runVars, stopRequested,
                 fenced, beat, result>>

RailHeartbeat(p) ==
  /\ beat[p] = "sent"
  /\ \/ /\ Opens(p)
        /\ lapsed' = [lapsed EXCEPT ![run[p]] = FALSE]
        /\ \E a \in {"ok", "transient"} : beat' = [beat EXCEPT ![p] = a]
     \/ /\ ~Opens(p)
        /\ beat' = [beat EXCEPT ![p] = "rejected"]
        /\ UNCHANGED lapsed
  /\ UNCHANGED <<cycle, blocked, rail, history, holder, born, op, pc, callVars,
                 runVars, stopRequested, fenced, result>>

BeatLost(p) ==
  /\ beat[p] = "sent"
  /\ beat' = [beat EXCEPT ![p] = "transient"]
  /\ UNCHANGED <<railVars, op, pc, callVars, runVars, stopRequested, fenced, result>>

\* Time passes, and the sweeper runs.
LeaseLapses(r) ==
  /\ LeaseLive(r)
  /\ lapsed' = [lapsed EXCEPT ![r] = TRUE]
  /\ UNCHANGED <<cycle, blocked, rail, history, holder, born, op, pc, callVars, runVars,
                 stopRequested, fenced, beat, result>>

Sweep(r) ==
  /\ rail[r] = "OPEN" /\ lapsed[r]
  /\ rail' = [rail EXCEPT ![r] = "ABANDONED"]
  /\ lapsed' = [lapsed EXCEPT ![r] = FALSE]
  /\ UNCHANGED <<cycle, blocked, history, holder, born, op, pc, callVars,
                 runVars, stopRequested, fenced, beat, result>>

\* Does a process still depend on what it reads of the cycle?  If none does,
\* later moves of the cycle and of the Runs of Others are of no consequence.
Reading == \E p \in Proc : pc[p] \in {"get", "post"}

\* Another process renews the lease of its Run, late or not, or finishes it.
OthersAct(r) ==
  /\ Reading
  /\ holder[r] = Others /\ rail[r] = "OPEN"
  /\ \/ /\ lapsed' = [lapsed EXCEPT ![r] = FALSE]
        /\ UNCHANGED rail
     \/ /\ \E o \in OthersOutcome : rail' = [rail EXCEPT ![r] = o]
        /\ lapsed' = [lapsed EXCEPT ![r] = FALSE]
  /\ UNCHANGED <<cycle, blocked, history, holder, born, op, pc, callVars, runVars,
                 stopRequested, fenced, beat, result>>

\* Another process continues the cycle.
OthersContinue ==
  /\ Reading \/ holder[Latest] \in Proc
  /\ Acceptable("resume", Latest)
  /\ \E r \in Run : Grant(r, Latest, Others)
  /\ UNCHANGED <<cycle, blocked, op, pc, callVars, runVars, stopRequested,
                 fenced, beat, result>>

\* Whoever works on the cycle moves it, or a query blocks it or is resolved.
CycleMoves ==
  /\ Reading
  /\ \/ cycle' \in CycleState \ {cycle} /\ UNCHANGED blocked
     \/ blocked' = ~blocked /\ UNCHANGED cycle
  /\ UNCHANGED <<rail, lapsed, history, holder, born, op, pc, callVars, runVars,
                 stopRequested, fenced, beat, result>>

-----------------------------------------------------------------------------
(* The specification *)

Ask(p) == TicketReadFails(p) \/ Refuse(p) \/ Post(p)

TakeAnswer(p) ==
  \/ PostThrows(p) \/ Unusable(p) \/ RecheckReturns(p) \/ WrongRun(p)
  \/ Execute(p) \/ StopBeforeExecuting(p) \/ ExecuteFails(p)

Conclude(p) == CancelReturns(p) \/ DrainEnds(p) \/ FinishReturns(p)

Supervise(p) == Beats(p) \/ BeatReturns(p) \/ BeatRejected(p)

RailServes(p) ==
  \/ RailAnswersGet(p) \/ RailContinues(p) \/ RailRefuses(p) \/ PostLost(p)
  \/ RailFinishes(p) \/ FinishRefused(p)

Next ==
  \/ \E p \in Proc : \/ Ask(p) \/ TakeAnswer(p) \/ Conclude(p) \/ Supervise(p)
                     \/ \E v \in Report : ExecutionSettles(p, v)
                     \/ ExecutionWindsDown(p) \/ RequestStop(p) \/ Crash(p)
                     \/ RailServes(p) \/ RailHeartbeat(p) \/ BeatLost(p)
  \/ \E r \in Run : LeaseLapses(r) \/ Sweep(r) \/ OthersAct(r)
  \/ OthersContinue \/ CycleMoves

Spec == Init /\ [][Next]_vars

\* Node runs what is due, the interval fires, requests are answered or fail.
\* Nothing forces an execution to settle, a stop, a crash, or time to pass.
Fairness ==
  \A p \in Proc :
    /\ WF_vars(Ask(p) \/ TakeAnswer(p) \/ Conclude(p))
    /\ WF_vars(Beats(p)) /\ WF_vars(BeatReturns(p) \/ BeatRejected(p))
    /\ WF_vars(RailServes(p)) /\ WF_vars(RailHeartbeat(p) \/ BeatLost(p))

FairSpec == Spec /\ Fairness

-----------------------------------------------------------------------------
(* Properties *)

TypeOK ==
  /\ cycle \in CycleState /\ blocked \in BOOLEAN
  /\ rail \in [Run -> RunState] /\ lapsed \in [Run -> BOOLEAN]
  /\ history \in Seq(Run) /\ Len(history) > 0
  /\ holder \in [Run -> Proc \cup {Others, Nothing}]
  /\ born \in [Run -> CycleState \cup {Nothing}]
  /\ op \in [Proc -> {"resume", "recover"}]
  /\ pc \in [Proc -> Awaiting \cup Ended]
  /\ body \in [Proc -> Run \cup {NoRun}]
  /\ \A p \in Proc :
       /\ answer[p].status \in {"none", "2xx", "absent", "conflict", "rejected", "lost",
                              "ok", "fail"}
       /\ answer[p].id \in Run \cup {NoRun} /\ answer[p].from \in Run \cup {NoRun}
  /\ run \in [Proc -> Run \cup {NoRun}]
  /\ start \in [Proc -> CycleState \cup {Nothing}]
  /\ stopRequested \in [Proc -> BOOLEAN] /\ fenced \in [Proc -> BOOLEAN]
  /\ runFinished \in [Proc -> BOOLEAN] /\ timer \in [Proc -> BOOLEAN]
  /\ closing \in [Proc -> RunOutcome \cup {"none"}]
  /\ beat \in [Proc -> {"none", "sent", "ok", "rejected", "transient"}]
  /\ exec \in [Proc -> ExecState]
  /\ \A p \in Proc : ExitCode(result[p]) \in 0 .. 2

\* "exit 2: a fail-closed no-op (nothing mutated)": whatever was refused, lost
\* or malformed on the way, a process that exits 2 left no Run at Rail.
ExitTwoMutatesNothing ==
  \A p \in Proc : pc[p] = "exited" /\ ExitCode(result[p]) = 2 =>
    \A r \in Run : holder[r] # p

\* "The cycle state is PRESERVED EXACTLY": the execution starts at the state
\* the cycle was in when Rail granted the Run, however stale the first read.
StartsWhereRailIs ==
  \A p \in Proc, r \in Run : holder[r] = p /\ start[p] # Nothing => start[p] = born[r]

\* A process that returned has left no execution uncancelled, and has tried to
\* finish the Run it was driving, unless it was fenced out of it.
LeavesNothingBehind ==
  \A p \in Proc : pc[p] = "exited" /\ run[p] # NoRun =>
    exec[p] # "running" /\ (runFinished[p] \/ fenced[p])

\* The preflight mirrors Rail's own rules: Rail refuses a POST only if something
\* changed since the preflight's read, if the lease is live by Rail's clock while
\* the Harness's had it expired (or it was renewed meanwhile), or if two Runs
\* share a startedAt and pickLastRun's tie-break took the other one.
Unchanged(p) ==
  LET d == detail[p] IN
  d.cycle = cycle /\ d.blocked = blocked /\ d.runs = CycleRuns /\ d.rail = rail

Refused(p) ==
  answer[p].status = "none" /\ answer'[p].status \in {"conflict", "rejected"}

Tied(r, s) == r # s /\ StartedAt[r] = StartedAt[s]

PreflightMirrorsRail ==
  [][\A p \in Proc : Refused(p) =>
       ~Unchanged(p) \/ LeaseLive(body[p]) \/ Tied(body[p], Latest)]_vars

\* "The previous Run is never finished": whatever Run Rail's answer named, a
\* process heartbeats or finishes neither the Run it continued, nor one it was
\* fenced out of or has finished already.
Writes(p) ==
  \/ pc[p] # "finish" /\ pc'[p] = "finish"
  \/ beat[p] # "sent" /\ beat'[p] = "sent"

OldRunUntouched ==
  [][\A p \in Proc : Writes(p) =>
       /\ body'[p] \in Run /\ run'[p] \in Run \ {body'[p]}
       /\ ~fenced[p] /\ ~runFinished[p]]_vars

\* A stop ends the process, whatever it was awaiting.
StopTerminates == \A p \in Proc : stopRequested[p] ~> pc[p] \in Ended

\* A process whose Run was swept or taken over, or was never granted to it, stops
\* working in the worktree, provided that heartbeats do not get lost for ever.
NetworkWorks == \A p \in Proc : SF_vars(RailHeartbeat(p))

SupersededIsFenced ==
  NetworkWorks => \A p \in Proc :
    exec[p] = "running" /\ ~Opens(p) ~> exec[p] # "running" \/ ~Alive(p)

\* (Not so.)  "exit 0 only when the new Run finished COMPLETED", if Rail's answer
\* did name the new Run
ExitZeroMeansCompleted ==
  \A p \in Proc :
    pc[p] = "exited" /\ ExitCode(result[p]) = 0 /\ holder[run[p]] = p =>
      rail[run[p]] = "COMPLETED"

-----------------------------------------------------------------------------
(* A Run granted to a continuation lives as RunLifecycle promises *)

Lives == [r \in Run |-> IF holder[r] \in Proc THEN rail[r] ELSE "NONE"]

Driven(r) == {p \in Proc : run[p] = r /\ holder[r] = p /\ exec[p] \in Verdict}
Verdicts == [r \in Run |-> IF Driven(r) = {} THEN "none"
                                             ELSE exec[CHOOSE p \in Driven(r) : TRUE]]

Asked == {r \in Run : \E p \in Proc : holder[r] = p /\ stopRequested[p]}

Lifecycle == INSTANCE RunLifecycle WITH
  Run <- Run, life <- Lives, verdict <- Verdicts, asked <- Asked

\* The Runs granted to a continuation are begun and ended once, with what their
\* execution reported, or abandoned when swept or continued by someone else.
ImplementsLifecycle == Lifecycle!Spec

=============================================================================
