----------------------------- MODULE WorkerCore -----------------------------
(***************************************************************************)
(* The Worker Core (src/worker/worker-core.js): the process that polls     *)
(* Rail's READY queue, claims one ticket, heartbeats and drives its Run,   *)
(* and finishes it; with the part of Rail it talks to (tickets, Runs,      *)
(* leases, the sweeper), which is external to the repository and modelled  *)
(* from what the code expects of it.                                       *)
(*                                                                         *)
(* One step is what Node runs between two awaits: a macrotask and the      *)
(* microtasks it triggers.  HTTP requests are in flight between the step   *)
(* that sends them and the step that handles their reply; Rail handles     *)
(* them in any order, and a request or its reply may be lost.              *)
(*                                                                         *)
(* A worker is one OS process.  It never restarts: the process started     *)
(* after it is another member of Worker.                                   *)
(***************************************************************************)
EXTENDS Naturals, FiniteSets

CONSTANTS
  Worker, Ticket, Run,   \* processes, tickets of the project, Run ids
  Beat,                  \* slots for the heartbeats of one Run in flight
  NoRun, NoTicket, NoWorker,
  Before,                \* <<t, u>>: Rail lists t before u in the READY queue
  Unclaimable,           \* tickets listed READY that fail preflight or claim
  SleepKeepsAlive,       \* does the injected sleep() hold the event loop?
  Report                 \* what executions may report

ASSUME Constants ==
  /\ NoRun \notin Run
  /\ NoWorker \notin Worker
  /\ NoTicket \notin Ticket
  /\ Before \subseteq Ticket \X Ticket
  /\ Unclaimable \subseteq Ticket
  /\ SleepKeepsAlive \in BOOLEAN
  /\ Report \subseteq
       {"COMPLETED", "FAILED", "ABANDONED", "RELEASED", "unknown", "error"}

VARIABLES
  \* Rail
  ticket,        \* "READY", "CLAIMED" or "HELD" (any other non-READY state)
  rail,          \* state of each Run, "NONE" before its claim
  of,            \* the ticket of each Run
  holder,        \* the process whose claimToken owns the Run
  lapsed,        \* has the lease passed leaseExpiresAt?
  \* requests in flight
  reply,         \* reply to the claim / finishRun a process awaits
  handoff,       \* the Run a claim reply carries
  beat,          \* heartbeats of each Run in flight
  \* a process
  pc,            \* the await start() is suspended at
  cand,          \* ref of the candidate ticket
  active,        \* `active`
  stopRequested, \* state.stopRequested
  fenced,        \* state.fenced
  closing,       \* outcome of the finishRun in flight
  \* the active-run record of a Run and its supervisor
  timer,         \* is the heartbeat interval armed (and not `stopped`)?
  ownershipLost, \* run.ownershipLost
  runFinished,   \* run.runFinished
  exec           \* state of run.execution, or what its `done` reported

railVars == <<ticket, rail, of, holder, lapsed>>
procVars == <<pc, cand, active, stopRequested, fenced, closing>>
runVars  == <<timer, ownershipLost, runFinished, exec>>
vars     == <<railVars, reply, handoff, beat, procVars, runVars>>

-----------------------------------------------------------------------------
(* Vocabulary *)

RunOutcome  == {"COMPLETED", "FAILED", "ABANDONED", "RELEASED"}
RunState    == {"NONE", "OPEN"} \cup RunOutcome
\* what `done` may settle with: an outcome, one the Core does not know, a throw
Verdict     == RunOutcome \cup {"unknown", "error"}
ExecState   == {"none", "running", "stopping", "stopped"} \cup Verdict
BeatState   == {"none", "sent", "ok", "rejected", "transient"}
Awaiting    == {"connect", "list", "get", "claim", "sleep",
                "race", "cancel", "drain", "finish"}
Ended       == {"stopped", "dead", "drained"}
Reply       == {"none", "won", "ok", "fail", "malformed"}

Alive(w) == pc[w] \in Awaiting

\* while (!state.stopRequested)
LoopTop(w) == IF stopRequested[w] THEN "stopped" ELSE "list"

\* discoverAndClaimOne() returned null
NothingClaimed(w) ==
  /\ pc' = [pc EXCEPT ![w] = IF stopRequested[w] THEN "stopped" ELSE "sleep"]
  /\ cand' = [cand EXCEPT ![w] = NoTicket]

\* Mutants: the outcome passed through unchecked; an unknown one taken for
\* success.
FinishOutcomeUnchecked(v) == v
FinishOutcomeOptimistic(v) == IF v \in RunOutcome THEN v ELSE "COMPLETED"

\* RUN_FINISH_OUTCOMES.has(value.outcome) ? value.outcome : "FAILED", and
\* "FAILED" for a rejected `done`
FinishOutcome(v) == IF v \in RunOutcome THEN v ELSE "FAILED"

\* exec.cancel() is called at most once, and only on a started execution
Cancelled(r) == IF exec[r] = "running" THEN "stopping" ELSE exec[r]

Init ==
  /\ ticket = [t \in Ticket |-> "READY"]
  /\ rail = [r \in Run |-> "NONE"]
  /\ of = [r \in Run |-> NoTicket]
  /\ holder = [r \in Run |-> NoWorker]
  /\ lapsed = [r \in Run |-> FALSE]
  /\ reply = [w \in Worker |-> "none"]
  /\ handoff = [w \in Worker |-> NoRun]
  /\ beat = [r \in Run |-> [b \in Beat |-> "none"]]
  /\ pc = [w \in Worker |-> "connect"]
  /\ cand = [w \in Worker |-> NoTicket]
  /\ active = [w \in Worker |-> NoRun]
  /\ stopRequested = [w \in Worker |-> FALSE]
  /\ fenced = [w \in Worker |-> FALSE]
  /\ closing = [w \in Worker |-> "none"]
  /\ timer = [r \in Run |-> FALSE]
  /\ ownershipLost = [r \in Run |-> FALSE]
  /\ runFinished = [r \in Run |-> FALSE]
  /\ exec = [r \in Run |-> "none"]

-----------------------------------------------------------------------------
(* safeFinish, and the end of runClaimed *)

\* Mutant: state.fenced is not reset.
RetireFenced(w) ==
  /\ pc' = [pc EXCEPT ![w] = LoopTop(w)]
  /\ cand' = [cand EXCEPT ![w] = NoTicket]
  /\ active' = [active EXCEPT ![w] = NoRun]
  /\ UNCHANGED fenced

\* active = null, state.fenced = false, back to the loop
Retire(w) ==
  /\ pc' = [pc EXCEPT ![w] = LoopTop(w)]
  /\ cand' = [cand EXCEPT ![w] = NoTicket]
  /\ active' = [active EXCEPT ![w] = NoRun]
  /\ fenced' = [fenced EXCEPT ![w] = FALSE]

\* Mutant: the fence is not looked at.
MayFinishFenced(w, r) == ~runFinished[r]

MayFinish(w, r) == ~ownershipLost[r] /\ ~fenced[w] /\ ~runFinished[r]

\* Sends finishRun(r, o), or skips it and retires the Run.
SafeFinish(w, r, o) ==
  \/ /\ MayFinish(w, r)
     /\ runFinished' = [runFinished EXCEPT ![r] = TRUE]
     /\ closing' = [closing EXCEPT ![w] = o]
     /\ pc' = [pc EXCEPT ![w] = "finish"]
     /\ active' = [active EXCEPT ![w] = r]
     /\ UNCHANGED <<cand, fenced>>
  \/ /\ ~MayFinish(w, r)
     /\ Retire(w)
     /\ UNCHANGED <<runFinished, closing>>

-----------------------------------------------------------------------------
(* start(): connect, discover, preflight, claim *)

\* connectAndValidate(): throws, and start() with it, unless listProjects
\* answers and shows the project.
Connect(w) ==
  /\ pc[w] = "connect"
  /\ pc' = [pc EXCEPT ![w] = LoopTop(w)] \/ pc' = [pc EXCEPT ![w] = "dead"]
  /\ UNCHANGED <<railVars, reply, handoff, beat, cand, active, stopRequested,
                 fenced, closing, runVars>>

\* the tickets api.listReady may put first
Heads == {t \in Ticket : /\ ticket[t] = "READY"
                         /\ \A u \in Ticket : <<u, t>> \in Before => ticket[u] # "READY"}

\* listReady answers; pickDiscoveryRef takes the first item only.
List(w) ==
  /\ pc[w] = "list"
  /\ \/ \E t \in Heads : /\ cand' = [cand EXCEPT ![w] = t]
                         /\ pc' = [pc EXCEPT ![w] = "get"]
     \/ Heads = {} /\ NothingClaimed(w)
  /\ UNCHANGED <<railVars, reply, handoff, beat, active, stopRequested,
                 fenced, closing, runVars>>

\* Mutant: any Run in the ticket's history rejects it, not only an active one.
IsTicketUnused(t) ==
  ticket[t] = "READY" /\ t \notin Unclaimable /\ \A r \in Run : of[r] # t

\* isTicketClaimable(detail, projectId, ref)
IsTicketClaimable(t) == ticket[t] = "READY" /\ t \notin Unclaimable

\* getTicket answers, the preflight runs, the claim is sent.
GetTicket(w) ==
  /\ pc[w] = "get"
  /\ \/ /\ IsTicketClaimable(cand[w])
        /\ pc' = [pc EXCEPT ![w] = "claim"]
        /\ UNCHANGED cand
     \/ ~IsTicketClaimable(cand[w]) /\ NothingClaimed(w)
  /\ UNCHANGED <<railVars, reply, handoff, beat, active, stopRequested,
                 fenced, closing, runVars>>

\* A read fails: logged, and nothing is claimed in this pass.
ReadFails(w) ==
  /\ pc[w] \in {"list", "get"}
  /\ NothingClaimed(w)
  /\ UNCHANGED <<railVars, reply, handoff, beat, active, stopRequested,
                 fenced, closing, runVars>>

\* claim() threw: lost the race, refused, or no answer.
ClaimThrows(w) ==
  /\ pc[w] = "claim" /\ reply[w] = "fail"
  /\ NothingClaimed(w)
  /\ reply' = [reply EXCEPT ![w] = "none"]
  /\ UNCHANGED <<railVars, handoff, beat, active, stopRequested,
                 fenced, closing, runVars>>

\* CLAIM_CONTRACT_ERROR: 2xx without run.id or claimToken ends the process.
ClaimMalformed(w) ==
  /\ pc[w] = "claim" /\ reply[w] = "malformed"
  /\ pc' = [pc EXCEPT ![w] = "dead"]
  /\ reply' = [reply EXCEPT ![w] = "none"]
  /\ UNCHANGED <<railVars, handoff, beat, cand, active, stopRequested,
                 fenced, closing, runVars>>

\* A stop landed while the claim was in flight: teardownDetached() releases
\* the Run without a heartbeat or an execution.
ClaimedButStopping(w) ==
  /\ pc[w] = "claim" /\ reply[w] = "won" /\ stopRequested[w]
  /\ SafeFinish(w, handoff[w], "RELEASED")
  /\ reply' = [reply EXCEPT ![w] = "none"]
  /\ handoff' = [handoff EXCEPT ![w] = NoRun]
  /\ UNCHANGED <<railVars, beat, stopRequested, timer,
                 ownershipLost, exec>>

\* runClaimed() up to its Promise.race: heartbeat armed, execution created.
StartRun(w) ==
  LET r == handoff[w] IN
  /\ pc[w] = "claim" /\ reply[w] = "won" /\ ~stopRequested[w]
  /\ active' = [active EXCEPT ![w] = r]
  /\ timer' = [timer EXCEPT ![r] = TRUE]
  /\ exec' = [exec EXCEPT ![r] = "running"]
  /\ pc' = [pc EXCEPT ![w] = "race"]
  /\ reply' = [reply EXCEPT ![w] = "none"]
  /\ handoff' = [handoff EXCEPT ![w] = NoRun]
  /\ UNCHANGED <<railVars, beat, cand, stopRequested, fenced,
                 closing, ownershipLost, runFinished>>

\* createExecution() threw: the heartbeat is stopped and the Run finished.
StartFails(w) ==
  /\ pc[w] = "claim" /\ reply[w] = "won" /\ ~stopRequested[w]
  /\ SafeFinish(w, handoff[w], "FAILED")
  /\ reply' = [reply EXCEPT ![w] = "none"]
  /\ handoff' = [handoff EXCEPT ![w] = NoRun]
  /\ UNCHANGED <<railVars, beat, stopRequested, timer,
                 ownershipLost, exec>>

\* The poll interval ends.  An unref'd timer only fires while something else
\* holds the event loop.
HoldsLoop(w) ==
  \/ SleepKeepsAlive
  \/ \E r \in Run : /\ holder[r] = w
                    /\ \/ \E b \in Beat : beat[r][b] # "none"
                       \/ exec[r] \in {"running", "stopping"}

Wake(w) ==
  /\ pc[w] = "sleep" /\ HoldsLoop(w)
  /\ pc' = [pc EXCEPT ![w] = LoopTop(w)]
  /\ UNCHANGED <<railVars, reply, handoff, beat, cand, active, stopRequested,
                 fenced, closing, runVars>>

\* Node exits a process whose event loop holds nothing.
LoopDrains(w) ==
  /\ pc[w] = "sleep" /\ ~HoldsLoop(w)
  /\ pc' = [pc EXCEPT ![w] = "drained"]
  /\ UNCHANGED <<railVars, reply, handoff, beat, cand, active, stopRequested,
                 fenced, closing, runVars>>

-----------------------------------------------------------------------------
(* runClaimed() after the race, teardownActive(), fencing *)

\* Mutant: the Run is let go with its heartbeat armed and no finishRun.
ExecutionSettlesUnfinished(w, v) ==
  /\ pc[w] = "race" /\ exec[active[w]] = "running"
  /\ exec' = [exec EXCEPT ![active[w]] = v]
  /\ Retire(w)
  /\ UNCHANGED <<railVars, reply, handoff, beat, stopRequested, closing, timer,
                 ownershipLost, runFinished>>

\* `done` settles first: heartbeat stopped, Run finished with its outcome.
ExecutionSettles(w, v) ==
  LET r == active[w] IN
  /\ pc[w] = "race" /\ exec[r] = "running"
  /\ exec' = [exec EXCEPT ![r] = v]
  /\ timer' = [timer EXCEPT ![r] = FALSE]
  /\ SafeFinish(w, r, FinishOutcome(v))
  /\ UNCHANGED <<railVars, reply, handoff, beat, stopRequested, ownershipLost>>

\* A cancelled execution settles; nobody looks at what it reports.
ExecutionWindsDown(r) ==
  /\ exec[r] = "stopping"
  /\ exec' = [exec EXCEPT ![r] = "stopped"]
  /\ UNCHANGED <<railVars, reply, handoff, beat, procVars, timer,
                 ownershipLost, runFinished>>

\* Mutant: the stop signal is not part of the race.
RequestStopUnheard(w) ==
  /\ Alive(w) /\ ~stopRequested[w]
  /\ stopRequested' = [stopRequested EXCEPT ![w] = TRUE]
  /\ UNCHANGED <<railVars, reply, handoff, beat, pc, cand, active, fenced,
                 closing, runVars>>

\* requestStop(): wakes the idle sleep; the race goes to teardownActive(),
\* which calls cancel() and awaits it.  Elsewhere only the flag is set.
RequestStop(w) ==
  /\ Alive(w) /\ ~stopRequested[w]
  /\ stopRequested' = [stopRequested EXCEPT ![w] = TRUE]
  /\ \/ /\ pc[w] = "sleep"
        /\ pc' = [pc EXCEPT ![w] = "stopped"]
        /\ UNCHANGED exec
     \/ /\ pc[w] = "race"
        /\ pc' = [pc EXCEPT ![w] = "cancel"]
        /\ exec' = [exec EXCEPT ![active[w]] = Cancelled(active[w])]
     \/ /\ pc[w] \notin {"sleep", "race"}
        /\ UNCHANGED <<pc, exec>>
  /\ UNCHANGED <<railVars, reply, handoff, beat, cand, active, fenced,
                 closing, timer, ownershipLost, runFinished>>

\* Mutant: the teardown forgets the finishRun.
CancelReturnsUnfinished(w) ==
  /\ pc[w] = "cancel"
  /\ timer' = [timer EXCEPT ![active[w]] = FALSE]
  /\ Retire(w)
  /\ UNCHANGED <<railVars, reply, handoff, beat, stopRequested, closing,
                 ownershipLost, runFinished, exec>>

\* teardownActive() after cancel() returned or threw.
CancelReturns(w) ==
  /\ pc[w] = "cancel"
  /\ timer' = [timer EXCEPT ![active[w]] = FALSE]
  /\ SafeFinish(w, active[w], "RELEASED")
  /\ UNCHANGED <<railVars, reply, handoff, beat, stopRequested,
                 ownershipLost, exec>>

\* Mutant: the supervisor is assumed stopped by the rejection that fenced.
DrainEndsBeating(w) ==
  /\ pc[w] = "drain"
  /\ Retire(w)
  /\ UNCHANGED <<railVars, reply, handoff, beat, stopRequested, closing, runVars>>

\* drainCancelled() ends: `done` settled or 50 ms passed.
DrainEnds(w) ==
  /\ pc[w] = "drain"
  /\ timer' = [timer EXCEPT ![active[w]] = FALSE]
  /\ Retire(w)
  /\ UNCHANGED <<railVars, reply, handoff, beat, stopRequested, closing,
                 ownershipLost, runFinished, exec>>

\* finishRun answered, or failed: both only logged.
FinishReturns(w) ==
  /\ pc[w] = "finish" /\ reply[w] # "none"
  /\ reply' = [reply EXCEPT ![w] = "none"]
  /\ closing' = [closing EXCEPT ![w] = "none"]
  /\ Retire(w)
  /\ UNCHANGED <<railVars, handoff, beat, stopRequested, runVars>>

\* SIGKILL, or the second signal's process.exit(130).
Crash(w) ==
  /\ Alive(w)
  /\ pc' = [pc EXCEPT ![w] = "dead"]
  /\ UNCHANGED <<railVars, reply, handoff, beat, cand, active, stopRequested,
                 fenced, closing, runVars>>

-----------------------------------------------------------------------------
(* The heartbeat supervisor *)

\* The interval fires and beat() sends a heartbeat.
Beats(r, b) ==
  /\ timer[r] /\ Alive(holder[r]) /\ beat[r][b] = "none"
  /\ ~ownershipLost[r] /\ ~runFinished[r] /\ ~fenced[holder[r]]
  /\ beat' = [beat EXCEPT ![r][b] = "sent"]
  /\ UNCHANGED <<railVars, reply, handoff, procVars, runVars>>

\* The reply renews the local lease, or the next interval retries.
BeatReturns(r, b) ==
  /\ beat[r][b] \in {"ok", "transient"} /\ Alive(holder[r])
  /\ beat' = [beat EXCEPT ![r][b] = "none"]
  /\ UNCHANGED <<railVars, reply, handoff, procVars, runVars>>

\* Mutant: the signal the race waits for is not resolved.
OnOwnershipLostUnheard(w) ==
  LET a == active[w]
      fence == a # NoRun /\ ~ownershipLost[a] IN
  \/ /\ fence
     /\ ownershipLost' = [ownershipLost EXCEPT ![a] = TRUE]
     /\ fenced' = [fenced EXCEPT ![w] = TRUE]
     /\ exec' = [exec EXCEPT ![a] = Cancelled(a)]
     /\ UNCHANGED pc
  \/ ~fence /\ UNCHANGED <<ownershipLost, fenced, exec, pc>>

\* onOwnershipLost(): acts on `active`, whichever Run that is by now.
OnOwnershipLost(w) ==
  LET a == active[w]
      fence == a # NoRun /\ ~ownershipLost[a] IN
  \/ /\ fence
     /\ ownershipLost' = [ownershipLost EXCEPT ![a] = TRUE]
     /\ fenced' = [fenced EXCEPT ![w] = TRUE]
     /\ exec' = [exec EXCEPT ![a] = Cancelled(a)]
     /\ pc' = [pc EXCEPT ![w] = IF pc[w] = "race" THEN "drain" ELSE pc[w]]
  \/ ~fence /\ UNCHANGED <<ownershipLost, fenced, exec, pc>>

\* A rejected heartbeat stops its own supervisor and fences.
BeatRejected(r, b) ==
  LET w == holder[r] IN
  /\ beat[r][b] = "rejected" /\ Alive(w)
  /\ beat' = [beat EXCEPT ![r][b] = "none"]
  /\ timer' = [timer EXCEPT ![r] = FALSE]
  /\ OnOwnershipLost(w)
  /\ UNCHANGED <<railVars, reply, handoff, cand, active, stopRequested,
                 closing, runFinished>>

-----------------------------------------------------------------------------
(* Rail, the network and the people who move tickets (external) *)

\* Rail creates the Run atomically from READY; the answer may be lost or
\* lack the token.
RailClaims(w) ==
  LET t == cand[w] IN
  /\ pc[w] = "claim" /\ reply[w] = "none"
  /\ ticket[t] = "READY"
  /\ \E r \in Run :
       /\ rail[r] = "NONE"
       /\ rail' = [rail EXCEPT ![r] = "OPEN"]
       /\ of' = [of EXCEPT ![r] = t]
       /\ holder' = [holder EXCEPT ![r] = w]
       /\ \E a \in {"won", "fail", "malformed"} :
            /\ reply' = [reply EXCEPT ![w] = a]
            /\ handoff' = [handoff EXCEPT ![w] = IF a = "won" THEN r ELSE NoRun]
  /\ ticket' = [ticket EXCEPT ![t] = "CLAIMED"]
  /\ UNCHANGED <<lapsed, beat, procVars, runVars>>

\* The claim is refused or never arrives.
ClaimRefused(w) ==
  /\ pc[w] = "claim" /\ reply[w] = "none"
  /\ reply' = [reply EXCEPT ![w] = "fail"]
  /\ UNCHANGED <<railVars, handoff, beat, procVars, runVars>>

\* finishRun is accepted while the Run is open; the answer may be lost.
RailFinishes(w) ==
  LET r == active[w] IN
  /\ pc[w] = "finish" /\ reply[w] = "none" /\ rail[r] = "OPEN"
  /\ rail' = [rail EXCEPT ![r] = closing[w]]
  /\ lapsed' = [lapsed EXCEPT ![r] = FALSE]
  /\ \E a \in {"ok", "fail"} : reply' = [reply EXCEPT ![w] = a]
  /\ UNCHANGED <<ticket, of, holder, handoff, beat, procVars, runVars>>

\* finishRun is rejected, or never arrives.
FinishRefused(w) ==
  /\ pc[w] = "finish" /\ reply[w] = "none"
  /\ reply' = [reply EXCEPT ![w] = "fail"]
  /\ UNCHANGED <<railVars, handoff, beat, procVars, runVars>>

\* A heartbeat renews an open Run, late or not, and is rejected otherwise.
RailHeartbeat(r, b) ==
  /\ beat[r][b] = "sent"
  /\ \/ /\ rail[r] = "OPEN"
        /\ lapsed' = [lapsed EXCEPT ![r] = FALSE]
        /\ \E a \in {"ok", "transient"} : beat' = [beat EXCEPT ![r][b] = a]
     \/ /\ rail[r] # "OPEN"
        /\ beat' = [beat EXCEPT ![r][b] = "rejected"]
        /\ UNCHANGED lapsed
  /\ UNCHANGED <<ticket, rail, of, holder, reply, handoff, procVars, runVars>>

BeatLost(r, b) ==
  /\ beat[r][b] = "sent"
  /\ beat' = [beat EXCEPT ![r][b] = "transient"]
  /\ UNCHANGED <<railVars, reply, handoff, procVars, runVars>>

LeaseLapses(r) ==
  /\ rail[r] = "OPEN" /\ ~lapsed[r]
  /\ lapsed' = [lapsed EXCEPT ![r] = TRUE]
  /\ UNCHANGED <<ticket, rail, of, holder, reply, handoff, beat, procVars, runVars>>

\* Rail's sweeper marks an open Run with a lapsed lease ABANDONED.
Sweep(r) ==
  /\ rail[r] = "OPEN" /\ lapsed[r]
  /\ rail' = [rail EXCEPT ![r] = "ABANDONED"]
  /\ lapsed' = [lapsed EXCEPT ![r] = FALSE]
  /\ UNCHANGED <<ticket, of, holder, reply, handoff, beat, procVars, runVars>>

\* A ticket nobody runs is put back, or a READY one is taken away.
MoveTicket(t) ==
  /\ \A r \in Run : of[r] = t => rail[r] # "OPEN"
  /\ \E s \in {"READY", "HELD"} \ {ticket[t]} : ticket' = [ticket EXCEPT ![t] = s]
  /\ UNCHANGED <<rail, of, holder, lapsed, reply, handoff, beat, procVars, runVars>>

-----------------------------------------------------------------------------
(* The specification *)

Discover(w) == Connect(w) \/ List(w) \/ GetTicket(w) \/ ReadFails(w)

Claim(w) ==
  \/ ClaimThrows(w) \/ ClaimMalformed(w) \/ ClaimedButStopping(w)
  \/ StartRun(w) \/ StartFails(w)

Drive(w) ==
  \/ \E v \in Report : ExecutionSettles(w, v)
  \/ CancelReturns(w) \/ DrainEnds(w) \/ FinishReturns(w)

Supervise(r) ==
  \E b \in Beat : Beats(r, b) \/ BeatReturns(r, b) \/ BeatRejected(r, b)

RailServes(w) ==
  RailClaims(w) \/ ClaimRefused(w) \/ RailFinishes(w) \/ FinishRefused(w)

RailKeepsTime(r) ==
  \/ LeaseLapses(r) \/ Sweep(r)
  \/ \E b \in Beat : RailHeartbeat(r, b) \/ BeatLost(r, b)

Next ==
  \/ \E w \in Worker : \/ Discover(w) \/ Claim(w) \/ Drive(w)
                       \/ Wake(w) \/ LoopDrains(w)
                       \/ RequestStop(w) \/ Crash(w) \/ RailServes(w)
  \/ \E r \in Run : Supervise(r) \/ ExecutionWindsDown(r) \/ RailKeepsTime(r)
  \/ \E t \in Ticket : MoveTicket(t)

Spec == Init /\ [][Next]_vars

(* What Node, the network and Rail guarantee: a step the process is due     *)
(* happens, a request is answered or fails, a lease that is not renewed     *)
(* lapses and is swept.  Nothing forces an execution to settle, a stop, a   *)
(* crash, or the interval to fire.                                          *)
Due(w) ==
  \/ Discover(w) \/ Claim(w) \/ CancelReturns(w) \/ DrainEnds(w)
  \/ FinishReturns(w) \/ Wake(w) \/ LoopDrains(w)

Fairness ==
  /\ \A w \in Worker : WF_vars(Due(w)) /\ WF_vars(RailServes(w))
  /\ \A r \in Run : /\ WF_vars(LeaseLapses(r)) /\ WF_vars(Sweep(r))
                    /\ \A b \in Beat :
                         /\ WF_vars(BeatReturns(r, b) \/ BeatRejected(r, b))
                         /\ WF_vars(RailHeartbeat(r, b) \/ BeatLost(r, b))

FairSpec == Spec /\ Fairness

-----------------------------------------------------------------------------
(* Properties *)

TypeOK ==
  /\ ticket \in [Ticket -> {"READY", "CLAIMED", "HELD"}]
  /\ rail \in [Run -> RunState]
  /\ of \in [Run -> Ticket \cup {NoTicket}]
  /\ holder \in [Run -> Worker \cup {NoWorker}]
  /\ lapsed \in [Run -> BOOLEAN]
  /\ reply \in [Worker -> Reply]
  /\ handoff \in [Worker -> Run \cup {NoRun}]
  /\ beat \in [Run -> [Beat -> BeatState]]
  /\ pc \in [Worker -> Awaiting \cup Ended]
  /\ cand \in [Worker -> Ticket \cup {NoTicket}]
  /\ active \in [Worker -> Run \cup {NoRun}]
  /\ stopRequested \in [Worker -> BOOLEAN]
  /\ fenced \in [Worker -> BOOLEAN]
  /\ closing \in [Worker -> RunOutcome \cup {"none"}]
  /\ timer \in [Run -> BOOLEAN]
  /\ ownershipLost \in [Run -> BOOLEAN]
  /\ runFinished \in [Run -> BOOLEAN]
  /\ exec \in [Run -> ExecState]

\* While a process waits for an execution it still heartbeats that Run, may
\* finish it, and no fence of an earlier Run is left over (state.fenced is
\* shared by all the Runs of a process and reset between them).
DrivenRunIsKept ==
  \A w \in Worker : pc[w] = "race" =>
    LET r == active[w] IN
    /\ r \in Run /\ holder[r] = w
    /\ timer[r] /\ exec[r] = "running" /\ MayFinish(w, r)

\* No heartbeat interval outlives the Run its process drives: a leaked one
\* would go on renewing the lease of a Run nobody works on.
NoStrayTimer ==
  \A r \in Run : timer[r] => holder[r] \in Worker /\ active[holder[r]] = r

\* "execution.cancel(reason), then, only if still owned, finishRun": when a
\* process has stopped, it left no execution running uncancelled, and sent
\* finishRun for every Run it executed, or was fenced out of it.
ControlledStop ==
  \A w \in Worker, r \in Run :
    pc[w] = "stopped" /\ holder[r] = w /\ exec[r] # "none" =>
      exec[r] # "running" /\ (runFinished[r] \/ ownershipLost[r])

\* Every heartbeat and finishRun a process sends is for the Run it drives, and
\* none is sent for a Run already fenced or whose finishRun was already sent.
SendsFinish(w) == pc[w] # "finish" /\ pc'[w] = "finish"
SendsBeat(r) == \E b \in Beat : beat[r][b] # "sent" /\ beat'[r][b] = "sent"
Owns(w, r) == holder[r] = w /\ ~ownershipLost[r] /\ ~runFinished[r]

MutatesOwned ==
  /\ \A w \in Worker : SendsFinish(w) => Owns(w, active'[w])
  /\ \A r \in Run : SendsBeat(r) => Owns(holder[r], r) /\ active[holder[r]] = r

MutatesOnlyOwnedRun == [][MutatesOwned]_vars

\* A stop request ends the process, whatever it was awaiting.
StopTerminates ==
  \A w \in Worker : stopRequested[w] ~> pc[w] \in Ended

\* "returns to discovery to look for new work": a fenced Run is let go.
FencedRunIsLeft ==
  \A r \in Run, w \in Worker :
    ownershipLost[r] /\ active[w] = r ~> active[w] # r \/ ~Alive(w)

\* Whatever was lost (the answer to a claim, a finishRun, the process itself), a
\* Run stays open only while a process is at work on it: no timer of a Run that
\* was stopped, never started or let go keeps its lease from lapsing.
AtWork(r) == \E w \in Worker : pc[w] = "race" /\ active[w] = r

OpenRunsEnd ==
  \A r \in Run : rail[r] = "OPEN" ~> rail[r] # "OPEN" \/ AtWork(r)

\* "any failure => skip the candidate": a claimable ticket that stays READY
\* while a process polls gets that process busy with some Run; Run ids that
\* ran out are a bound of the instance, and requests must not fail for ever.
Waiting(t) == ticket[t] = "READY" /\ \E r \in Run : rail[r] = "NONE"
Polls(w) == pc[w] \in {"list", "get", "claim", "sleep"} /\ ~stopRequested[w]

NetworkWorks ==
  \A w \in Worker :
    SF_vars(List(w)) /\ SF_vars(GetTicket(w)) /\ SF_vars(RailClaims(w))

WorkIsTaken ==
  NetworkWorks =>
    \A t \in Ticket \ Unclaimable, w \in Worker :
      Waiting(t) /\ Polls(w) ~> ~Waiting(t) \/ ~Polls(w)

(* What the repository says, and the code does not do *)

\* A process is fenced out of a Run only when Rail has closed that Run.
FencedOnlyWhenLost ==
  \A r \in Run : ownershipLost[r] => rail[r] # "OPEN"

\* The worker polls again after each idle interval: it never ends unasked.
PollsUntilStopped == \A w \in Worker : pc[w] # "drained"

-----------------------------------------------------------------------------
(* The worker keeps the promise of RunLifecycle *)

Lifecycle == INSTANCE RunLifecycle WITH
  life    <- rail,
  verdict <- [r \in Run |-> IF exec[r] \in Verdict THEN exec[r] ELSE "none"],
  asked   <- {r \in Run : holder[r] \in Worker /\ stopRequested[holder[r]]}

\* Every Run Rail sees goes through the life RunLifecycle promises.
ImplementsLifecycle == Lifecycle!Spec

=============================================================================
