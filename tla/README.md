# railHarness in TLA+

Specifications of the Rail agent harness (`src/`): the process that claims tickets from
Rail, drives one Run at a time through the roles IMPLEMENTER, REVIEWER and TESTER, and
gives the Run back with an outcome. The modules model the control of the code (every
await, guard, early return and error path that changes state); texts, prompts, notes
and payloads are abstracted to what the properties tell apart.

## 1. The system

| Part | Source | State it keeps | Operations | Talks to |
|---|---|---|---|---|
| Worker Core | `worker/worker-core.js`, `worker/ticket-preflight.js` | phase, `stopRequested`, `fenced`, `active` (the one Run: `ownershipLost`, `runFinished`, `cancelled`, lease and token in a closure), the heartbeat timer | `start`, `requestStop`, discovery, preflight, claim, `runClaimed`, `teardownActive`, `safeFinish`, the heartbeat supervisor, `onOwnershipLost` | Rail (claim, heartbeat, finishRun); an execution `{done, cancel}` |
| Orchestrator | `orchestration/orchestrator.js`, `rail-effects.js`, `roles.js` | `cycle`, the role being run, `attempt`, `reworks`, session ids, the timeline, `cancelled` | `createOrchestrationExecution`, `execute`, `cancel` | Rail (checks, transitions, queries, comments); the adapter; the workspace manager |
| Continuation runner | `worker/recovery.js`, `recovery-preflight.js` | phase, the recovered Run, `stopRequested`, `fenced` | `resume`/`recover` (one per instance), `requestStop` | Rail (`/resume`, `/recover`), the worktree, an execution |
| Claude Code adapter | `adapters/claude-code.js` | child process, `cancelled`, `closed`, SIGKILL timer | `run`, `createExecution`, `cancel` | a child process |
| Adapter router | `adapters/adapter-router.js` | registry of adapters | `run`, `createExecution`, `preflight` | the adapters |
| Workspace manager | `workspace/workspace-manager.js` | none of its own; worktrees, branches and directories on disk | `prepareWorkspace`, `cleanupWorkspace`, `inspectWorktree` | git |
| CLI, configuration | `worker/cli.js`, `config/runtime-config.js` | signal count | mode selection, signal handlers, exit code | all of the above |
| Rail client, contracts, policies | `rail/rail-api-client.js`, `contracts/`, `security/`, `i18n/` | none | HTTP requests, validation, sanitising | Rail |

Rail itself (tickets, Runs, leases, the sweeper, checks, queries, and the people who
answer them) is not in the repository. It is modelled from what the code expects of it
and marked external.

How the parts interact: Rail is shared by all processes and only the holder of a
`claimToken` may finish or renew a Run. Inside a process everything runs on one event
loop; interleaving happens only at awaits, between the loop of `start()`, the heartbeat
interval, the execution's promise, and the signal handlers. `cancel()` is the only call
the Worker Core makes into a running execution.

What is hard here, and where a test hardly reaches:

- requests in flight across a change of Run (a heartbeat of Run 1 answered while Run 2
  is active), a finishRun racing the sweeper, an applied request whose answer is lost;
- a stop or a fence in any await; an execution that never settles;
- a gate published half, a transition applied but reported failed, a rework that makes an
  earlier check stale;
- a query nobody answers, is dismissed, or has no id; budgets at 0 and at their limit;
- timers that are `unref`'d: the event loop may have nothing left to wait for;
- the window between a read-only preflight and the mutation that relies on it
  (continuation), and a child process that outlives the harness (adapter).

`PROJECT.json` lists these hazards at their lines, with the properties that cover them.

What makes each part correct:

- *Worker Core*: a Run is ended once, by its owner, with what its execution reported; a
  fenced Run is not touched again; a Run being worked on is kept alive and a Run not
  worked on is not; stop always ends the process; waiting tickets are taken.
- *Orchestrator*: the code that reaches SANDBOX_READY is the code that was reviewed and
  tested; roles work only in the state Rail is in; nothing starts after cancel; no query
  is left behind; the work is bounded and ends unless a person, or Rail's word of one, is
  awaited.
- *Continuation*: a Run is continued only if Rail has it dead or ownerless, the one that was
  continued is not written to any more, the state is preserved.
- *Adapter*: a cancelled child ends; a result is reported only if the child ended well.
- *Workspace*: work in a worktree is never lost, one ticket never works in another's.

## 2. Modules

| Module | What it is |
|---|---|
| `WorkerCore` | Several worker processes, their heartbeats and executions, with Rail's tickets, Runs and leases. |
| `RunLifecycle` | What the worker promises of every Run: begun once, ended once, with what its execution reported. `WorkerCore` implements it (`ImplementsLifecycle`), and so does `Continuation`, which is why a Run may begin in the step that abandons another (`Supersede`). |
| `WorkerCoreProofs` | Theorems about `WorkerCore`, for every value of its constants. |
| `WorkerLifecycleProofs` | `WorkerCore` implements `RunLifecycle`, and what that means. |
| `Orchestrator` | One execution, the three roles, Rail's WorkCycle, checks and queries. |
| `WorkCycle` | What a governed WorkCycle promises: stages advance only when the checks that gate them vouch for the code as it is. `Orchestrator` implements it (`ImplementsWorkCycle`). |
| `OrchestratorProofs` | Theorems about `Orchestrator`, for any budgets and human-only states. |
| `Continuation` | Processes that continue a WorkCycle with one `/resume` or `/recover`, next to other owners and to Rail. It implements `RunLifecycle` for the Runs it is granted. |
| `ContinuationProofs` | Theorems about `Continuation`, for any number of continuing processes and any history. |
| `Workspace` | The worktrees and branches that executions prepare, reuse, inspect and clean up, command by command between processes. |
| `WorkspaceProofs` | Theorems about `Workspace`, for every value of its constants. |
| `ClaudeProcess` | The adapter: the child process of a role, its promise `done`, SIGTERM and the SIGKILL timer, and what becomes of them when the harness is gone. |
| `AdapterContract` | What an adapter promises of an execution: `done` settles after the work ended, with a result only if it ended well and was not abandoned. |
| `Harness` | The composition: worker processes, their executions and the children of their roles. It implements `WorkerCore` (`HarnessIsAWorker`) and, for its children, `AdapterContract` (`ImplementsContract`). |
| `HarnessProofs` | Theorems about `Harness`, for every value of its constants; it builds on `WorkerLifecycleProofs`. |
| `MCWorkerCore`, `MCOrchestrator`, `MCContinuation`, `MCWorkspace`, `MCHarness` | Small instances for TLC. |

### WorkerCore

One step is what Node runs between two awaits. `pc[w]` names the await `start()` is
suspended at: `connect`, `list`, `get`, `claim`, `sleep` (discovery), `race` (the
`Promise.race` of `runClaimed`), `cancel` (`teardownActive` awaiting `exec.cancel`),
`drain` (`drainCancelled`), `finish` (the finishRun request), or how it ended: `stopped`
(start() returned), `dead` (threw, killed, second signal), `drained` (the event loop ran
empty). The record `makeActiveRun` builds is spread over functions of the Run
(`ownershipLost`, `runFinished`, `exec`, `timer`), because a heartbeat keeps its Run in a
closure after `active` has moved on. Requests are in flight between the action that sends
them and the one that handles their answer: `reply[w]` for claim and finishRun,
`beat[r][b]` for the heartbeats of a Run; Rail answers in any order, and a request or its
answer may be lost (`fail`, `transient`).

`exec[r]` doubles as what `done` reported; an execution reports an outcome, something the
contract does not know (`unknown`) or a rejection (`error`), or never settles. The local
clock check of the heartbeat only logs and is left out; so is the pre-start check of
`runClaimed` (lines 433-441), unreachable because nothing is awaited between the loop's
own check and it.

The text of isTicketClaimable is one predicate here: the ticket is READY and not one of
`Unclaimable` (blocked, in another project, with an active Run, or refused by the claim).

### Orchestrator

`pc` names the await `execute()` is suspended at: `prepare` (prepareWorkspace), `begin` (CLAIMED
-> IN_PROGRESS), `role` (runRole), `query` (createQuery), `wait` (the nap of the query waiter),
`poll` (its listQueries), `check`, `move`, `rewind` (createCheck and the two kinds of
transition), `note` (the comment before a stop). `stop()` and `finish()` are `Stop`,
`guardCancelled()` is `StopCancelled`: an operator such as `SendGuarded` says that the code
looks at `cancelled` at that point, `Send` that it does not. `code` is the version of the
worktree, and `MayEdit`, the roles whose runs may make a new one, is the IMPLEMENTER alone. That
is an assumption about the agent and not something the code enforces: the IMPLEMENTER is the
only role given Edit and Write (claude-code.js:591-611), but REVIEWER and TESTER have Bash (138,
154-168), and under `--permission-mode auto` the list of allowed tools is not closed (23-31,
66-71), so they could write through a shell. `ReviewedAsIs`, `BoundedWork`,
`ImplementsWorkCycle` and the theorems about them say what the harness makes of roles that keep
to their briefs.

The query waiter is a loop of two awaits: `NapEnds`, then a poll of Rail, which shows the
query in its present state (`RailShowsQuery`) or fails or does not list it
(`RailHidesQuery`), for once or for good. `KeepWaiting` is each way back to the top of the
loop (rail-effects.js:320-335, 348): any error is retried, a permanent one too, and so is
a list without the query. `VOID` stands for the answers that break the contract.
`checks[c]` is the version check c was last created for. `job` is what differs between
executions: the entry state, whether it continues an earlier Run, whether the ticket has
acceptance criteria, the human-only states, and whether something else holds the event
loop. `Frontiers` lists the human-only configurations an instance tries.

Rail accepts or refuses as it likes, whatever its gates say: what is proved of the
orchestrator does not rest on Rail enforcing them. An applied request may be reported as
failed. While a Run holds the ticket nobody else moves its WorkCycle; a continuation
enters at a state whose checks vouch for the worktree as it is (the repository's own
premise, orchestrator.js:716-722).

### Continuation

A process runs one continuation: `pc[p]` is the await `runContinuation()` is suspended at
(`get`, `post`, `recheck`, `race`, `cancel`, `drain`, `finish`). `detail[p]` is the answer
to getTicket, a snapshot of Rail that may be stale when the preflight's verdict
(`ResumeTarget`, `RecoveryTarget`) is used; `body[p]` the `lastRunId` that is posted;
`answer[p]` what came back. Whatever Run Rail makes, its 2xx may name any Run or none as the
new one and any or none as the one continued (`Handoffs`), or be lost. recovery.js:527 and
538 compare these two with `lastRunId` only, so an answer that names a third Run, with no
`from` or the right one, passes `IsContinuation` and is driven; Rail takes a token for the
Run it was made for only (`Opens`), so the first heartbeat that gets through fences it. `body`
is kept to the end because `OldRunUntouched` is about it. The checks of project, branch and worktree
are one refusal that may always happen; what the worktree check is worth is the subject of
`Workspace`. `expectedLastRunId` is left out: no caller in `src/` passes it.

Leases are judged by two clocks. Rail's is the bit `lapsed`; the Harness's is the parameter
`late` of the preflight (`IsActiveRunLeaseLive`), chosen anew when a reading is judged, for
nothing ties Date.now() of the Harness to Rail's, and time passes between the reading and the
judgement. So the preflight may take a live lease for dead and post, or a dead one for live
and refuse. `PickLastRun` orders the Runs of the reading by `StartedAt` and, within the same
millisecond, by `IdRank`, as pickLastRun does; in the instance the new Run shares its
`StartedAt` with an earlier one whose id is greater, so that the tie-break takes the wrong one.
`PreflightMirrorsRail` is what is left of the "EXACT mirror" of recovery-preflight.js:66: a
refusal has a cause, which is a change since the reading, a lease live by Rail's clock, or a
tie. TLC finds the property false without any of the three.

`history` holds the Runs of the cycle in the order of `startedAt`. `holder` and `born` are
history variables of Rail: whose a Run is and the state of the cycle it was granted in. All
other processes are one external `Others`, which renew leases late or in time, finish their
Runs, continue the cycle first, move or block it; they stop being modelled once no process
depends on what it reads of the cycle any more (`Reading`). Rail accepts a POST by the rules
docs/STATE_MACHINE.md and the comments of recovery-preflight.js give for it (`Acceptable`).

`EchoesState` says whether Rail's answer carries the state of the cycle. Where it does not,
recovery.js:555 falls back to the state the preflight read, which may be stale, and
`StartsWhereRailIs` does not hold; the instances have Rail echo it, as its client expects
(rail-api-client.js:63-68), and the theorem has it as its hypothesis.

The refinement maps a Run to a life from the moment it is granted to a process (`Lives`), with
the report of the execution that drives it (`Verdicts`) and the stops of its holder (`Asked`). A
second continuation of the same cycle takes over where the Run of the first is open but its
lease has lapsed: Rail abandons one and makes the other in one step, `Supersede` of
`RunLifecycle`.

### Workspace

`tree[k]` says what is in the directory of key k: nothing, the registered worktree, or
anything else (a file, a foreign or unregistered checkout, another repository), which every
operation refuses alike. `KeyOf` normalizes a ticket code (`workspaceSlug`,
`defaultBranchFor`); it need not be injective, and in the instance it is not. `pc[e]` names
the next git command of `prepareWorkspace`, since other processes run theirs in between;
its own process does not, for the function awaits nothing. What git refuses by itself (a
branch checked out twice, `-b` for a branch that exists) is external and part of
`GitAccepts`. `Init` is every state of the disk that git allows. People do not touch the
directories while executions run, and roles edit without committing or switching branches
(claude-code.js:107-127 denies them that).

### ClaudeProcess and Harness

`child[e]` is the child of an execution as the operating system sees it: `running`,
`termed` or `killed` (the last signal it was sent), or ended but with its pipes still open
(`zero`, `nonzero`, `signalled`), which is what `exitCode` and `signalCode` tell apart
before `'close'`. `cancelled`, `sigkillTimer` and `done` live in the harness process and
stop meaning anything when it goes; the child does not. `up` is the set of executions
whose process is still there. `Start` is the whole of startClaudeExecution(): a refusal
(unknown provider, spawn throws, `'error'`) or a child. `Cancel` is cancel(): the first
call on an execution that has not ended sends SIGTERM and arms the unref'd timer, and
every call sets `cancelled`. A child may end at any time, of itself, whatever it was sent,
and may ignore SIGTERM. `ChildCloses` settles `done` if anybody is there to hear it.

`Harness` extends `WorkerCore` and gives each execution the children of its roles, one
after another (`Claude == INSTANCE ClaudeProcess`, with `up` the Runs whose process is
alive: cli.js calls process.exit as soon as start() returns). A stop and a fence are the
worker's own steps joined with `Abort`, because exec.cancel(), the AbortSignal and the
adapter's cancel() run in one synchronous call. A role starts only after guardCancelled()
and after the one before it settled; the execution settles between roles, with what
`Reports` says mapOrchestrationOutcome can make of the last one; a cancelled execution
winds down when its role has settled. Which role runs when, and what is sent to Rail in
between, is the business of `Orchestrator`, whose assumption that a cancelled role settles
is what `CancelledRoleSettles` shows here. A listener of an earlier role that stays on the
signal acts on a closed child and does nothing, so only the last role is kept.

## 3. Runs

| Run | Instance | Shows |
|---|---|---|
| `worker_safety` | 2 processes, 1 ticket, 2 Runs, 1 heartbeat in flight per Run, symmetric; ~1.2 M states | `DrivenRunIsKept`, `NoStrayTimer`, `ControlledStop`, `MutatesOnlyOwnedRun` |
| `worker_live` | 1 process, 1 ticket, 2 Runs; ~150 k states, fair | `TypeOK`, the refinement of `RunLifecycle`, `StopTerminates`, `FencedRunIsLeft`, `OpenRunsEnd`, `WorkIsTaken` |
| `orchestrator_flow` | 2 reworks, 1 resume per role run, every entry state, 3 human-only configurations; ~305 k states, fair | `AgreesWithRail`, `ReviewedAsIs`, `NoOrphanQuery`, `BoundedWork`, `NothingAfterCancel`, `CancelSettles`, `OnlyPeopleHoldItUp`, the refinement of `WorkCycle` |
| `stale_heartbeat` | 1 process, 2 Runs | violation: see Findings |
| `idle_drains` | default sleep | violation |
| `starvation` | 2 tickets, the first unclaimable | violation |
| `continuation` | 1 process, 2 earlier Runs and 1 to be granted, 3 cycle states; ~211 k states, fair | `ExitTwoMutatesNothing`, `StartsWhereRailIs`, `LeavesNothingBehind`, `PreflightMirrorsRail`, `OldRunUntouched`, `StopTerminates`, `SupersededIsFenced`, the refinement of `RunLifecycle` |
| `workspace` | 3 executions, 3 tickets, 2 directories, every disk; ~960 k states | `NothingIsLost`, `InPlace`, `ReusedAsInspected`, `CleansOnlyItsOwn` |
| `resumes_fresh_session` | 1 rework, 1 resume | violation |
| `exit_zero_unfinished` | as `continuation` | violation |
| `harness` | 1 process, 1 ticket, 2 Runs; ~880 k states, fair | `NoStrayChild`, `ExclusiveWorktree`, `CancelledRoleSettles`, the refinement of `AdapterContract` |
| `orphan_child` | 1 process, 1 Run | violation |

Why the bounds are enough. Two Runs are what a hazard across Runs needs (one that ends, one that
follows); a third would only repeat the second. Two processes are what a race for a claim, or a
Run taken over after its lease, needs. A second heartbeat of the same Run in flight behaves like
the first: its answer changes the same record. Bounds are the cardinalities of the constants (a
Run id is used once: with none left a ticket waits, which `Waiting` says), and `MaxReworks`,
`MaxQueryResumes`, which are parameters of the code; there are no others. A continuation runs
once per process and creates one Run, and `Others` may use that Run id first, so one new Run
shows every order of two continuations; two earlier Runs let the preflight pick the wrong one,
and the second of them ties with the new one. Two continuing processes are more than TLC
finishes (each may hold a different reading of Rail: over 10 M states on the smallest instance);
`Others` stands in for the second, and what two processes of this module do to each other,
`Supersede` above all, is in the theorems, which hold for any number. Three executions in
`Workspace` are two that share a directory and one that competes for a branch of the same
repository. In `harness` the second Run of the ticket is the one that may meet a child of the
first; the roles of one execution follow one another without bound, one good answer stands for
all (the bad ones are `rejected`), and the executions report FAILED, for what they report is the
subject of the worker's runs. 2 reworks let the REVIEWER and the TESTER share the budget, and a
code version be stale by more than one.

`CHECK_DEADLOCK FALSE` in every cfg: processes stop and executions end.

Fairness. `WorkerCore`: a step the process is due, the answer (or failure) of a request, the
lapse of a lease nobody renews and the sweep that follows; no fairness for the interval's
firing, for an execution's settling, for stops or crashes. Node runs what is ready, and its
fetch gives up after its own timeout. `WorkIsTaken` adds, as a hypothesis, that requests do not
fail for ever (`NetworkWorks`, strong fairness of the successful answers). `OpenRunsEnd` rests
on the lapse and the sweep: it shows that nothing the harness leaves behind (a lost claim, a
lost finishRun, a timer, a dead process) keeps a Run open, which the refinement, being safety
only, does not. `Orchestrator`: `execute()` goes on when what it awaits is there, requests are
answered or fail, and a cancelled role settles (the adapter kills its child). That roles settle
uncancelled is a hypothesis of `OnlyPeopleHoldItUp`; nothing makes people answer, and nothing
makes Rail show the query to a poll. The property therefore excuses an execution that waits
(`Waiting`) while the query is open or no poll shows what became of it; everything else ends.
`CancelSettles` holds of such a wait all the same. `Continuation`: as the worker, and the
heartbeat interval fires (setInterval, while the execution keeps the process alive); that
heartbeats do not get lost for ever is a hypothesis of `SupersededIsFenced`. `Workspace` has
safety properties only. `Harness` assumes, of a cancelled execution only (`Ending`): a timer
that is due fires while its process lives, a child that was sent SIGKILL ends, the pipes of a
child that ended are closed, and the execution goes on once its role has settled. Nothing makes
a child end that was not killed, and nothing makes one close while a process that does not
belong to the harness holds its pipes (see 7).

## 4. Findings

1. *A late heartbeat fences the wrong Run* (`stale_heartbeat`, worker-core.js:274).
2. *An idle worker exits* (`idle_drains`, worker-core.js:149): the poll timer is unref'd.
3. *One unclaimable ticket starves the queue* (`starvation`, ticket-preflight.js:94).
4. *A continuation resumes a session that was never opened* (`resumes_fresh_session`,
   orchestrator.js:739, 832): `claude --resume` with a fresh id.
5. *Exit 0 with an unfinished Run* (`exit_zero_unfinished`, recovery.js:737).
6. *A child outlives a controlled stop* (`orphan_child`, claude-code.js:852): cancel() only
   starts the escalation, nothing on the way to process.exit waits for it, and the timer is
   unref'd. A child that ignores SIGTERM goes on in a worktree whose ticket is free to be
   claimed. `ExclusiveWorktree` says what is left: two children meet there only if one of
   them was cancelled, has lost its process, or its Run was swept.

Also met, without a run: the query waiter retries every failing listQueries, also one that can
never succeed (401, 404), and goes on when the list does not have the query
(rail-effects.js:320-335), so a Run can be kept alive for ever by an execution no person can
free; recovery.js:525 says "The recovered Run MUST be a NEW Run" and checks only that it is not
`lastRunId`, so a third Run in Rail's answer is driven until a heartbeat is rejected;
recovery-preflight.js:66 calls its lease rule an "EXACT mirror" of Rail's, which it is up to the
clocks of the two machines; createQuery applied with its answer lost leaves an open query behind
an execution that FAILED (`NoOrphanQuery` exempts it); a process that waits for a person's
answer to a query exits when nothing else holds its event loop, because that waiter's timer is
unref'd too (rail-effects.js:280; `Job.holdsLoop` in `Orchestrator`); a crash between the claim
and the creation of the worktree leaves a cycle nobody can continue, since recovery.js:785
refuses a continuation for want of a worktree, although docs/RECOVERY.md:253 says it can be
continued; `.env.example:27` says `RAIL_TICKET_REF` claims exactly that ticket, and cli.js never
reads it when it builds the worker; docs/WORKER_CORE.md:85-86 says an unrecognised outcome is
closed as RELEASED, the code (worker-core.js:502) and its comment close it as FAILED; a HANDOFF
after a refused rewind is reported COMPLETED although docs/ORCHESTRATION.md:263 says the
automated work is finished by then; a cancelled role rejects and is reported FAILED
(orchestrator.js:282), docs/ORCHESTRATION.md:236-244 says CANCELLED, which only readers of the
orchestration's own log can tell; an unknown origin, a ticket without targetRepository or an
unresolvable base branch pass the inspection of a continuation and are rejected by
prepareWorkspace after the POST, so that a Run is made only to fail (`ReusedAsInspected`
excludes them: `Authorized`).

## 5. Proofs

`WorkerCoreProofs` proves, from the assumption `Constants` alone (the null values lie
outside their sets), for any number of processes, tickets, Runs and heartbeats:
`Typing` (`[]TypeOK`), `RunIsKept` (`[]DrivenRunIsKept`), `TimersAreCleared`
(`[]NoStrayTimer`), `StopsUnderControl` (`[]ControlledStop`) and
`OnlyOwnedRunsAreMutated` (`MutatesOnlyOwnedRun`).

None of these is inductive. `TypeOK` needs to know that a finishRun in flight carries an
outcome; `DrivenRunIsKept` that a claim's answer hands over an untouched Run;
`ControlledStop` what happened to every execution its process ever started. The
strengthening `IInv` says this per Run (`RunInv`, `TimerInv`, `ExecInv`) and per process
(`ActiveInv`, `PhaseInv`, `HandoffInv`). The argument: `active[w]` is a Run held by w, so
what one process does to its active Run cannot disturb another process; between Runs a
process has neither an active Run nor a fence; at each await of `runClaimed` the timer,
the execution and the two flags of the active Run are in one of few combinations; and an
execution leaves `active` only cancelled or settled, with its Run finished or lost.
`InvStep` has one step per action. `MutationStep` derives the action property from it.

`WorkspaceProofs` proves, again from its `Constants` alone (keys name directories and
are no markers), all the safety properties of `Workspace` that its run checks: `Typing`
(with it, that no branch is ever in two worktrees), `WorksInPlace` (`InPlace`),
`InspectionSuffices` (`ReusedAsInspected`), `WorkIsKept` (`NothingIsLost`) and
`OnlyItsOwnIsRemoved` (`CleansOnlyItsOwn`), for any number of executions and directories
and any coincidence of ticket codes. `IInv` adds to the types that only worktrees are dirty
(`DirtInv`) and, per execution, what each await knows of its directory: past the first
checks the repository is the right one (`AuthInv`), once given, a worktree stays on the
ticket's branch (`PlacedInv`) and in place unless one that cleans up shares it (`HeldInv`),
and what passed the inspection stays as inspected (`InspectedInv`). The decisive part is
`MoveInv`, for `NothingIsLost` is about the window between `isDirty()` and `git checkout`:
a worktree that became dirty in it was dirtied by an execution that had been given it, so it
already is on the ticket's branch, and the checkout changes nothing. Two tickets can share
a directory only if they share the branch too, since both come from the same normalization
(lemma `Keys`); this is where the argument would break if the two were ever derived
differently.

`HarnessProofs` proves of the composition, from `Constants` and `Outcomes` alone:
`HarnessIsAWorker` (`HarnessSpec => Spec`: every step is a step of the worker or leaves it
alone, so all theorems of `WorkerCoreProofs` hold here), `ChildTyping` (`[]ChildTypeOK`),
`NoChildStrays` (`[]NoStrayChild`), `WorktreeIsExclusive` (`[]ExclusiveWorktree`),
`SuccessIsEarned` (`[]CompletedIsEarned`) and `ContractIsKept` (`ImplementsContract`, by step
simulation); `HarnessKeepsLifecycle` carries the worker's refinement of `RunLifecycle` over. The
invariant `HInv` adds to the worker's `IInv` three parts. `RailInv`: an open Run is the only one
of its ticket, and one that is neither open nor swept was finished by its process; it needs
`CandInv`, that a process claims only what it listed. `ChildInv`: a child that has not closed
has a pending promise, and in a process that lives a pending promise belongs to an execution
that is running and was not cancelled, or to one that is being stopped and was. A stop or a
fence changes one execution and cancels the role of that one (`AbortStep`); a settled execution
has no pending role (`UntouchedStep`); the adapter's own steps leave the executions alone
(`AloneStep`); and what the rest of the worker does, starts executions at most
(`ElsewhereStep`). `ExclusiveWorktree` then follows, because an uncancelled child means that its
process is in the race, has not sent finishRun, and so holds an open Run unless the sweeper took
it. `CompletedIsEarned` joins three layers: Rail has what the execution reported
(`CompletedIsReported`, from the worker), the execution reported it on a role that had settled
with a good answer (`EarnedInv`: no step touches a role of a completed execution, and only
`Settles` completes one), and a settled role has no child. It is stated beside its proof and no
run lists it.

`WorkerLifecycleProofs` proves that the worker keeps `RunLifecycle` (`LifecycleIsKept`). Its
invariant `LInv` adds two facts to `IInv`: a Run that Rail has not made has no holder
(`FreshInv`), and the outcome a process will end its Run with is decided long before Rail reads
it (`EndInv`: what the execution reported or, where none did, FAILED or, after a stop,
RELEASED). Each step of the worker then is one step of a life, `Begin` (a claim), `Judge` (the
execution settles), `End` (finishRun or the sweeper), `Ask` (a stop), or none.
`CompletedIsReported` draws the conclusion a reader of Rail cares for: a Run is COMPLETED only
if its execution said so.

`OrchestratorProofs` proves, from `Parameters` alone (budgets are natural numbers, 0 included,
and `Frontiers` are sets of states), every safety property the run checks: `Typing`,
`RolesWorkWhereRailIs` (`AgreesWithRail`), `ReviewIsFresh` (`ReviewedAsIs`),
`QueriesAreWaitedFor` (`NoOrphanQuery`), `WorkIsBounded` (`BoundedWork`), `CancelStartsNothing`
(`NothingAfterCancel`) and `WorkCycleIsKept` (`ImplementsWorkCycle`). The invariant `IInv` has
four parts beside the types. `PlaceInv`: at each await, where Rail and the orchestrator stand;
they differ only between Rail's answer and the step that reads it, which is why a transition
that was applied but reported failed can only end the execution. `VouchInv`: the checks behind
Rail's state, and those of the gate already created in this pass, were created for the code as
it is; it holds because only the IMPLEMENTER makes new code, and works only in IN_PROGRESS,
behind no check. `QueryInv`: a query is made only within the budget of its role, and a poll that
finds it closed finds it as Rail has it. `WorkInv`: what k rounds with all their resumes can
make of the code (`Spent`), per await, since the bound of `BoundedWork` says nothing of how much
of the budget is still to come. `GateFacts` is the lemma about the gates that the steps share: a
gate is published one check at a time, and its last check completes it. `ReviewIsFresh`,
`WorkIsBounded`, `WorkCycleIsKept` and `StagesAreVouchedFor` rest on `MayEdit` (see 2).
`StagesAreVouchedFor` says what `WorkCycle` is for: at every await and after any failure, Rail
has the ticket in no stage whose checks were not created for the code as it is.

`ContinuationProofs` proves, from `Constants` alone, every safety property of the run: `Typing`,
`NoOpLeavesNoRun` (`ExitTwoMutatesNothing`), `StaleReadIsNotUsed` (`StartsWhereRailIs`, under
the hypothesis `EchoesState`: without it the property is false, see 2), `ReturnLeavesNothing`
(`LeavesNothingBehind`), `PreflightMirrors` (`PreflightMirrorsRail`: for any two clocks and any
`StartedAt`, ties included), `OldRunsAreUntouched` (`OldRunUntouched`, whatever Runs the answer
names) and `LifecycleIsKept` (`ImplementsLifecycle`), with `CompletedIsReported` as for the
worker. `IInv` says of Rail that a Run has a holder exactly from when it is made, and that the
latest Run started last and is the only one that may be open (`RailInv`), and of each process
what it asks for (`AskInv`: the POST names a Run that its own reading allows at some time of its
clock), what it holds (`GrantInv`: nothing before the POST, nothing if it was refused; it starts
from the state in which a Run it holds was made), how far the Run it drives is at each await,
and that this is not the one it continues (`PhaseInv`), and what it will end with (`EndInv`).
Each part is about one process and the Runs it holds, so the argument splits: a step of anybody
else keeps it (`KeptInvariant`, with `OthersKept` and `ProcessesKept`), because a grant to
somebody else is of a Run nobody held (`GrantKept`); and a step of the process itself is looked
at action by action (`AskStep`, `GrantStep`, `PhaseStep`, `EndStep`). `PreflightIsExact`
compares the preflight's conditions with Rail's, clause by clause, and is left with the two
excuses: a reading that is still true takes the latest Run, or one that started with it, and a
Run that is not open, or whose lease is live for Rail. In the refinement the CHOOSE of
`Verdicts` is harmless since it counts a driver only if it holds the Run (`HolderDrives`): one
that drives a third Run can end nothing there. The proof found the refinement false as it was
first stated: with two continuing processes a step of Rail ends the Run of one and begins that
of the other, which the one-process run cannot show; `RunLifecycle` has `Supersede` for it.

Only model-checked: liveness, that is `StopTerminates`, `FencedRunIsLeft`, `OpenRunsEnd`,
`WorkIsTaken`, `CancelSettles`, `OnlyPeopleHoldItUp`, `SupersededIsFenced` and
`CancelledRoleSettles` (fairness and ENABLED are out of the prover's reach). The properties of
the runs that expect a violation are false.

## 6. Plan

Every component that keeps state is modelled, and every safety property and refinement a passing
run checks is proved. What may be added:

1. `Orchestrator` with more than one execution of a ticket, one after another, so that the premise
   about the entry state of a continuation is derived instead of assumed;
2. the composition of `Orchestrator` with `Harness`, so that `Reports` (what an execution may
   report after a role) is derived instead of stated.

## 7. Not modelled

The Rail client, the router, the contracts, the configuration and the text policies keep
no state and are represented by what they let through: a request that is refused, fails or
is lost; a 2xx without what the caller needs (which of several keys normalizeRunHandoff
reads a field from is left out); an envelope that is refused; a result that is not valid.
The router's fallback for adapters without createExecution has no caller in `src/`. The text
of logs, notes, prompts and evidence; `getState`; an injected `resolveQuery` (a seam for
tests).

Of the adapter: processes the child itself starts and that hold its pipes open after it
ended (`'close'` would wait for them); a kill() that fails with EPERM; a signal that is
aborted before the adapter sees it, which cannot happen since guardCancelled() runs in the
same step. The version check before the first poll (`preflight`) ends the program or does
nothing.
