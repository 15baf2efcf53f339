---------------------------- MODULE Orchestrator ----------------------------
(***************************************************************************)
(* The orchestrator (src/orchestration/orchestrator.js), with its governed *)
(* effects (rail-effects.js) and roles (roles.js): what drives one claimed *)
(* or resumed Run through IMPLEMENTER, REVIEWER and TESTER, publishing     *)
(* checks, asking Rail for transitions and waiting for human answers,      *)
(* until it settles with an outcome.                                       *)
(*                                                                         *)
(* One step is what Node runs between two awaits of execute().  There is   *)
(* one request in flight at a time; Rail's answer to it is `reply`.        *)
(* cancel() may come between any two steps.                                *)
(***************************************************************************)
EXTENDS Naturals, Sequences

CONSTANTS
  MaxReworks,       \* maxReworks
  MaxQueryResumes,  \* maxQueryResumes
  Frontiers         \* the humanOnlyStates an execution may be created with

VARIABLES
  \* Rail, and the people in it
  rail,         \* state of the WorkCycle
  checks,       \* the version of the code each check was last created for
  query,        \* status of the last blocking Agent Query, "none" before it
  \* the worktree
  code,         \* version of the code; the IMPLEMENTER makes new ones
  \* one execution
  job,          \* what it was created with
  pc,           \* the await execute() is suspended at
  reply,        \* the answer to the request in flight, "none" before it
  cycle,        \* `cycle`, the WorkCycle state as the orchestrator knows it
  role, kind, attempt,  \* of the current or last role execution
  implSession,  \* the IMPLEMENTER's session: "none", "minted" or "started"
  reworks,      \* REWORKs asked for
  due,          \* the checks of the gate still to create, the one in flight first
  ending,       \* the outcome to stop with after a governed note
  cancelled, outcome

railVars == <<rail, checks, query>>
taskVars == <<role, kind, attempt>>
flowVars == <<due, ending, outcome>>
slowVars == <<code, cycle, implSession, reworks>>
vars == <<railVars, job, pc, reply, taskVars, flowVars, slowVars, cancelled>>

-----------------------------------------------------------------------------
(* Vocabulary *)

Target   == "SANDBOX_READY"
Role     == {"IMPLEMENTER", "REVIEWER", "TESTER"}
Check    == {"IMPLEMENTATION", "CODE_REVIEW", "AUTOMATED_TESTS", "ACCEPTANCE_CRITERIA"}
State    == {"CLAIMED", "IN_PROGRESS", "REVIEWING", "TESTING", Target, "OTHER"}
Outcome  == {"COMPLETED", "BLOCKED", "HANDOFF", "RELEASED", "FAILED", "CANCELLED"}
Await    == {"prepare", "begin", "role", "query", "wait", "poll", "note", "check", "move",
             "rewind"}
Closed   == {"RESOLVED", "DISMISSED", "VOID"}  \* VOID: no status of RailSoft's contract
QueryStatus == {"none", "PENDING"} \cup Closed
Reply    == {"none", "ok", "human", "noid", "fail", "absent"} \cup QueryStatus

\* TRANSITION_PLAN: where a role works, the checks that gate it, where it leads
Stage == [IMPLEMENTER |-> "IN_PROGRESS", REVIEWER |-> "REVIEWING", TESTER |-> "TESTING"]
Gate  == [IMPLEMENTER |-> <<"IMPLEMENTATION">>,
          REVIEWER    |-> <<"CODE_REVIEW">>,
          TESTER      |-> <<"AUTOMATED_TESTS", "ACCEPTANCE_CRITERIA">>]
Leads == [IMPLEMENTER |-> "REVIEWING", REVIEWER |-> "TESTING", TESTER |-> Target]

\* a fresh claim hands over at CLAIMED; a continuation wherever Rail left it
Job == {j \in [entry : State, recovery : BOOLEAN, criteria : BOOLEAN,
               humanOnly : Frontiers, holdsLoop : BOOLEAN] :
          j.recovery \/ j.entry = "CLAIMED"}

ASSUME Parameters ==
  /\ MaxReworks \in Nat /\ MaxQueryResumes \in Nat
  /\ Frontiers \subseteq SUBSET State

\* the checks Rail has accepted for the code as it is when a state is entered
AcceptedAt(s) ==
  CASE s = "REVIEWING" -> {"IMPLEMENTATION"}
    [] s = "TESTING"   -> {"IMPLEMENTATION", "CODE_REVIEW"}
    [] s = Target      -> Check
    [] OTHER           -> {}

\* assertCheckEvidence: the TESTER must have run tests, the ticket have criteria
Evidence(c, ran) ==
  /\ c = "AUTOMATED_TESTS" => ran
  /\ c = "ACCEPTANCE_CRITERIA" => job.criteria

Init ==
  /\ job \in Job
  /\ rail = job.entry
  /\ checks = [c \in Check |-> IF c \in AcceptedAt(job.entry) THEN 1 ELSE 0]
  /\ query = "none"
  /\ code = 1
  /\ pc = "prepare" /\ reply = "none"
  /\ cycle = job.entry
  /\ role = "IMPLEMENTER" /\ kind = "IMPLEMENT" /\ attempt = 0
  /\ implSession = "none"
  /\ reworks = 0
  /\ due = <<>>
  /\ ending = "FAILED" /\ outcome = "FAILED"
  /\ cancelled = FALSE

-----------------------------------------------------------------------------
(* Ways a step ends: stop(), the next request, the next role.  A guarded    *)
(* one is preceded by guardCancelled() in the code.                         *)

\* throw new OrchestrationStop(o, ...), or finish(o, ...)
Stop(o) ==
  /\ pc' = "done" /\ outcome' = o
  /\ reply' = "none"
  /\ UNCHANGED <<taskVars, due, ending>>

\* guardCancelled() throws
StopCancelled == cancelled /\ Stop("CANCELLED")

Send(p) ==
  /\ pc' = p /\ reply' = "none"
  /\ UNCHANGED <<taskVars, flowVars>>

SendGuarded(p) == StopCancelled \/ (~cancelled /\ Send(p))

\* governedNote, then stop(o)
NoteAndStop(o) ==
  /\ pc' = "note" /\ ending' = o
  /\ reply' = "none"
  /\ UNCHANGED <<taskVars, due, outcome>>

\* runRole() for attempt n of runRoleGoverned({ role: ro, kind: k })
RunRole(ro, k, n) ==
  \/ StopCancelled
  \/ /\ ~cancelled
     /\ pc' = "role" /\ role' = ro /\ kind' = k /\ attempt' = n
     /\ reply' = "none"
     /\ UNCHANGED flowVars

\* publishCheck for the first of the checks s
Publish(s, ran) ==
  \/ StopCancelled
  \/ ~cancelled /\ ~Evidence(Head(s), ran) /\ Stop("FAILED")
  \/ /\ ~cancelled /\ Evidence(Head(s), ran)
     /\ pc' = "check" /\ due' = s
     /\ reply' = "none"
     /\ UNCHANGED <<taskVars, ending, outcome>>

\* STATE-AWARE ENTRY: the role a state starts with
EnterAt(s) ==
  \/ /\ s = "IN_PROGRESS"
     /\ implSession' = "minted"
     /\ RunRole("IMPLEMENTER", IF job.recovery THEN "RECOVERY" ELSE "IMPLEMENT", 0)
  \/ /\ s # "IN_PROGRESS"
     /\ UNCHANGED implSession
     /\ \/ s = "REVIEWING" /\ RunRole("REVIEWER", "IMPLEMENT", 0)
        \/ s = "TESTING" /\ RunRole("TESTER", "IMPLEMENT", 0)
        \/ s = Target /\ Target \in job.humanOnly /\ NoteAndStop("HANDOFF")
        \/ s = Target /\ Target \notin job.humanOnly /\ Stop("COMPLETED")
        \/ s = "OTHER" /\ Stop("RELEASED")

-----------------------------------------------------------------------------
(* createOrchestrationExecution and the start of execute() *)

\* The workspace cannot be prepared.
PrepareFails ==
  /\ pc = "prepare"
  /\ Stop("FAILED")
  /\ UNCHANGED <<railVars, job, slowVars, cancelled>>

\* The workspace is ready: execute() runs up to its first await.  After an
\* early cancel it is not called (the Run is RELEASED, as for CANCELLED).
Prepared ==
  /\ pc = "prepare"
  /\ \/ StopCancelled /\ UNCHANGED implSession
     \/ ~cancelled /\ cycle = "CLAIMED" /\ Send("begin") /\ UNCHANGED implSession
     \/ ~cancelled /\ cycle # "CLAIMED" /\ EnterAt(cycle)
  /\ UNCHANGED <<railVars, job, code, cycle, reworks, cancelled>>

\* CLAIMED -> IN_PROGRESS answered; cancellation is not looked at here.
BeginReturns ==
  /\ pc = "begin" /\ reply # "none"
  /\ \/ /\ reply = "ok"
        /\ cycle' = "IN_PROGRESS" /\ EnterAt("IN_PROGRESS")
     \/ reply = "human" /\ Stop("HANDOFF") /\ UNCHANGED <<cycle, implSession>>
     \/ reply = "fail" /\ Stop("FAILED") /\ UNCHANGED <<cycle, implSession>>
  /\ UNCHANGED <<railVars, job, code, reworks, cancelled>>

-----------------------------------------------------------------------------
(* runRoleGoverned: what a role decides *)

\* toolPostureFor(): the roles whose tools include Edit and Write.  That no other
\* role edits is an assumption about the agent: REVIEWER and TESTER have Bash, and
\* their allow-list is not a closed one (claude-code.js:23-31, 66-71).
MayEdit == {"IMPLEMENTER"}

\* runRole() settles.
RoleSettles ==
  /\ pc = "role"
  /\ code' = IF role \in MayEdit THEN code + 1 ELSE code
  /\ implSession' = IF role = "IMPLEMENTER" THEN "started" ELSE implSession
  /\ UNCHANGED <<railVars, job, cycle, cancelled>>

\* PASS: the gate of the role is published, with or without tests run.
RolePasses(ran) ==
  RoleSettles /\ Publish(Gate[role], ran) /\ UNCHANGED reworks

\* FAILED, a throw or a result that is no RoleResult.
RoleFails ==
  RoleSettles /\ Stop("FAILED") /\ UNCHANGED reworks

\* RELEASE: only the IMPLEMENTER's is not a REWORK (decisionFor).
RoleReleases ==
  role = "IMPLEMENTER" /\ RoleSettles /\ Stop("RELEASED") /\ UNCHANGED reworks

\* Mutant: one query too many.
RoleBlocksPastBudget ==
  /\ RoleSettles
  /\ \/ StopCancelled
     \/ ~cancelled /\ attempt > MaxQueryResumes /\ Stop("BLOCKED")
     \/ ~cancelled /\ attempt <= MaxQueryResumes /\ Send("query")
  /\ UNCHANGED reworks

\* BLOCKED: a blocking Agent Query, unless no resume is left to wait for.
RoleBlocks ==
  /\ RoleSettles
  /\ \/ StopCancelled
     \/ ~cancelled /\ attempt >= MaxQueryResumes /\ Stop("BLOCKED")
     \/ ~cancelled /\ attempt < MaxQueryResumes /\ Send("query")
  /\ UNCHANGED reworks

\* Mutant: the budget is checked before the rework is counted.
RoleAsksReworkOneMore ==
  /\ role # "IMPLEMENTER" /\ RoleSettles
  /\ reworks' = reworks + 1
  /\ \/ reworks > MaxReworks /\ Stop("FAILED")
     \/ reworks <= MaxReworks /\ SendGuarded("rewind")

\* REWORK from the REVIEWER or the TESTER: one budget for both.
RoleAsksRework ==
  /\ role # "IMPLEMENTER" /\ RoleSettles
  /\ reworks' = reworks + 1
  /\ \/ reworks' > MaxReworks /\ Stop("FAILED")
     \/ reworks' <= MaxReworks /\ SendGuarded("rewind")

\* Mutant: without a queryId, whatever query was answered before will do.
QueryReturnsAnyQuery ==
  /\ pc = "query" /\ reply # "none"
  /\ \/ reply = "fail" /\ Stop("FAILED")
     \/ reply = "noid" /\ RunRole(role, kind, attempt + 1)
     \/ reply = "ok" /\ SendGuarded("wait")
  /\ UNCHANGED <<railVars, job, slowVars, cancelled>>

\* createQuery answered: the wait needs its queryId.
QueryReturns ==
  /\ pc = "query" /\ reply # "none"
  /\ \/ reply \in {"fail", "noid"} /\ Stop("FAILED")
     \/ reply = "ok" /\ SendGuarded("wait")
  /\ UNCHANGED <<railVars, job, slowVars, cancelled>>

\* Mutant: the waiter is created without the signal.
AbortedNever == FALSE

\* signal.aborted, for the waiter
Aborted == cancelled

\* nap(): the timer fires, and the query is looked up; or the signal aborts.
NapEnds ==
  /\ pc = "wait"
  /\ \/ Aborted /\ Stop("CANCELLED")
     \/ ~Aborted /\ Send("poll")
  /\ UNCHANGED <<railVars, job, slowVars, cancelled>>

\* The top of the poll loop, reached again while there is no verdict.
KeepWaiting ==
  /\ reply \in {"fail", "absent", "PENDING"}
  /\ \/ Aborted /\ Stop("CANCELLED")
     \/ ~Aborted /\ Send("wait")

\* Mutant: a dismissed query is waited for as if pending.
PollReturnsAnswered ==
  /\ pc = "poll" /\ reply # "none"
  /\ \/ KeepWaiting
     \/ reply = "DISMISSED" /\ SendGuarded("wait")
     \/ reply = "RESOLVED" /\ RunRole(role, kind, attempt + 1)
     \/ reply = "VOID" /\ StopCancelled
     \/ reply = "VOID" /\ ~cancelled /\ Stop("FAILED")
  /\ UNCHANGED <<railVars, job, slowVars, cancelled>>

\* listQueries answered: any error and a query that is not in the list are waited
\* out, the answer resumes the role, a dismissal or a contract violation ends it.
PollReturns ==
  /\ pc = "poll" /\ reply # "none"
  /\ \/ KeepWaiting
     \/ reply = "RESOLVED" /\ RunRole(role, kind, attempt + 1)
     \/ reply \in {"DISMISSED", "VOID"} /\ StopCancelled
     \/ reply = "DISMISSED" /\ ~cancelled /\ NoteAndStop("FAILED")
     \/ reply = "VOID" /\ ~cancelled /\ Stop("FAILED")
  /\ UNCHANGED <<railVars, job, slowVars, cancelled>>

\* The waiter naps on an unref'd timer: Node exits if nothing else holds the
\* event loop (the heartbeat interval is unref'd as well).
LoopDrains ==
  /\ pc = "wait" /\ ~Aborted /\ ~job.holdsLoop
  /\ pc' = "drained"
  /\ UNCHANGED <<railVars, job, reply, taskVars, flowVars, slowVars, cancelled>>

\* governedNote is best effort.
NoteReturns ==
  /\ pc = "note" /\ reply # "none"
  /\ Stop(ending)
  /\ UNCHANGED <<railVars, job, slowVars, cancelled>>

-----------------------------------------------------------------------------
(* publishThenTransition, governedRewind *)

\* Mutant: guardCancelled() forgotten after the check writes.
CheckReturnsUnguarded ==
  /\ pc = "check" /\ reply # "none"
  /\ \/ reply = "fail" /\ Stop("FAILED")
     \/ reply = "ok" /\ Tail(due) # <<>> /\ Publish(Tail(due), TRUE)
     \/ reply = "ok" /\ Tail(due) = <<>> /\ Leads[role] \notin job.humanOnly /\ Send("move")
  /\ UNCHANGED <<railVars, job, slowVars, cancelled>>

\* Mutant: the transition is requested after the first check of the gate.
CheckReturnsEarly ==
  /\ pc = "check" /\ reply # "none"
  /\ \/ reply = "fail" /\ Stop("FAILED")
     \/ reply = "ok" /\ Leads[role] \notin job.humanOnly /\ SendGuarded("move")
  /\ UNCHANGED <<railVars, job, slowVars, cancelled>>

\* A check was created or rejected: the next one, the human frontier, or the
\* transition.
CheckReturns ==
  /\ pc = "check" /\ reply # "none"
  /\ \/ reply = "fail" /\ Stop("FAILED")
     \/ /\ reply = "ok" /\ Tail(due) # <<>>
        /\ Publish(Tail(due), TRUE)
     \/ /\ reply = "ok" /\ Tail(due) = <<>>
        /\ \/ Leads[role] \notin job.humanOnly /\ SendGuarded("move")
           \/ Leads[role] \in job.humanOnly /\ StopCancelled
           \/ Leads[role] \in job.humanOnly /\ ~cancelled /\ NoteAndStop("HANDOFF")
  /\ UNCHANGED <<railVars, job, slowVars, cancelled>>

\* Mutant: enterAtTester is not reset by the first pass.
MoveReturnsSkippingReview ==
  /\ pc = "move" /\ reply # "none"
  /\ \/ StopCancelled /\ UNCHANGED cycle
     \/ /\ ~cancelled /\ reply = "ok"
        /\ cycle' = Leads[role]
        /\ \/ role = "IMPLEMENTER" /\ job.entry # "TESTING" /\ RunRole("REVIEWER", "IMPLEMENT", 0)
           \/ role = "IMPLEMENTER" /\ job.entry = "TESTING" /\ RunRole("TESTER", "IMPLEMENT", 0)
           \/ role = "REVIEWER" /\ RunRole("TESTER", "IMPLEMENT", 0)
           \/ role = "TESTER" /\ Stop("COMPLETED")
     \/ ~cancelled /\ reply = "human" /\ NoteAndStop("HANDOFF") /\ UNCHANGED cycle
     \/ ~cancelled /\ reply = "fail" /\ Stop("FAILED") /\ UNCHANGED cycle
  /\ UNCHANGED <<railVars, job, code, implSession, reworks, cancelled>>

\* A forward transition answered: the next role, a fresh one each time.
MoveReturns ==
  /\ pc = "move" /\ reply # "none"
  /\ \/ StopCancelled /\ UNCHANGED cycle
     \/ /\ ~cancelled /\ reply = "ok"
        /\ cycle' = Leads[role]
        /\ \/ role = "IMPLEMENTER" /\ RunRole("REVIEWER", "IMPLEMENT", 0)
           \/ role = "REVIEWER" /\ RunRole("TESTER", "IMPLEMENT", 0)
           \/ role = "TESTER" /\ Stop("COMPLETED")
     \/ ~cancelled /\ reply = "human" /\ NoteAndStop("HANDOFF") /\ UNCHANGED cycle
     \/ ~cancelled /\ reply = "fail" /\ Stop("FAILED") /\ UNCHANGED cycle
  /\ UNCHANGED <<railVars, job, code, implSession, reworks, cancelled>>

\* Mutant: the IMPLEMENTER is re-run although Rail refused the rewind.
RewindReturnsAnyway ==
  /\ pc = "rewind" /\ reply # "none"
  /\ \/ StopCancelled /\ UNCHANGED <<cycle, implSession>>
     \/ /\ ~cancelled /\ reply \in {"ok", "fail"}
        /\ cycle' = "IN_PROGRESS"
        /\ implSession' = IF implSession = "none" THEN "minted" ELSE implSession
        /\ RunRole("IMPLEMENTER", "RECOVERY", 0)
     \/ /\ ~cancelled /\ reply = "human"
        /\ NoteAndStop("HANDOFF") /\ UNCHANGED <<cycle, implSession>>
  /\ UNCHANGED <<railVars, job, code, reworks, cancelled>>

\* The rewind answered: the IMPLEMENTER reworks in its own session, if any.
RewindReturns ==
  /\ pc = "rewind" /\ reply # "none"
  /\ \/ StopCancelled /\ UNCHANGED <<cycle, implSession>>
     \/ /\ ~cancelled /\ reply = "ok"
        /\ cycle' = "IN_PROGRESS"
        /\ implSession' = IF implSession = "none" THEN "minted" ELSE implSession
        /\ RunRole("IMPLEMENTER", "RECOVERY", 0)
     \/ /\ ~cancelled /\ reply = "human"
        /\ NoteAndStop("HANDOFF") /\ UNCHANGED <<cycle, implSession>>
     \/ /\ ~cancelled /\ reply = "fail"
        /\ Stop("FAILED") /\ UNCHANGED <<cycle, implSession>>
  /\ UNCHANGED <<railVars, job, code, reworks, cancelled>>

\* cancel(): the Worker Core is fenced or shutting down.
Cancel ==
  /\ ~cancelled /\ pc \in Await
  /\ cancelled' = TRUE
  /\ UNCHANGED <<railVars, job, pc, reply, taskVars, flowVars, slowVars>>

-----------------------------------------------------------------------------
(* Rail and the people in it (external).  Rail may refuse or accept any      *)
(* request, whatever its gates; the answer to an accepted one may be lost.   *)
(* While a Run holds the ticket nobody else moves its WorkCycle.             *)

Destination == IF pc = "move" THEN Leads[role] ELSE "IN_PROGRESS"

RailMoves ==
  /\ pc \in {"begin", "move", "rewind"} /\ reply = "none"
  /\ rail' = Destination
  /\ reply' \in {"ok", "fail"}
  /\ UNCHANGED <<checks, query, job, pc, taskVars, flowVars, slowVars, cancelled>>

RailRefuses ==
  /\ pc \in {"begin", "move", "rewind", "check", "query"} /\ reply = "none"
  /\ \/ reply' = "fail"
     \/ pc \in {"begin", "move", "rewind"} /\ reply' = "human"
  /\ UNCHANGED <<railVars, job, pc, taskVars, flowVars, slowVars, cancelled>>

RailRecordsCheck ==
  /\ pc = "check" /\ reply = "none"
  /\ checks' = [checks EXCEPT ![Head(due)] = code]
  /\ reply' \in {"ok", "fail"}
  /\ UNCHANGED <<rail, query, job, pc, taskVars, flowVars, slowVars, cancelled>>

RailOpensQuery ==
  /\ pc = "query" /\ reply = "none"
  /\ query' = "PENDING"
  /\ reply' \in {"ok", "noid", "fail"}
  /\ UNCHANGED <<rail, checks, job, pc, taskVars, flowVars, slowVars, cancelled>>

RailTakesNote ==
  /\ pc = "note" /\ reply = "none"
  /\ reply' = "ok"
  /\ UNCHANGED <<railVars, job, pc, taskVars, flowVars, slowVars, cancelled>>

\* listQueries answers with the query, as it is.
RailShowsQuery ==
  /\ pc = "poll" /\ reply = "none"
  /\ reply' = query
  /\ UNCHANGED <<railVars, job, pc, taskVars, flowVars, slowVars, cancelled>>

\* It answers without that query, or fails, for once or for good.
RailHidesQuery ==
  /\ pc = "poll" /\ reply = "none"
  /\ reply' \in {"absent", "fail"}
  /\ UNCHANGED <<railVars, job, pc, taskVars, flowVars, slowVars, cancelled>>

\* A person answers or dismisses the query, or it turns up in a state (VOID)
\* that breaks RailSoft's contract.
HumanCloses ==
  /\ query = "PENDING"
  /\ query' \in Closed
  /\ UNCHANGED <<rail, checks, job, pc, reply, taskVars, flowVars, slowVars, cancelled>>

-----------------------------------------------------------------------------
(* The specification *)

RoleDecides ==
  \/ \E ran \in BOOLEAN : RolePasses(ran)
  \/ RoleFails \/ RoleReleases \/ RoleBlocks \/ RoleAsksRework

Continues ==
  \/ PrepareFails \/ Prepared \/ BeginReturns
  \/ QueryReturns \/ NapEnds \/ PollReturns \/ NoteReturns
  \/ CheckReturns \/ MoveReturns \/ RewindReturns

RailServes ==
  \/ RailMoves \/ RailRefuses \/ RailRecordsCheck \/ RailTakesNote
  \/ RailOpensQuery \/ RailShowsQuery \/ RailHidesQuery

Next ==
  \/ Continues \/ RoleDecides \/ LoopDrains \/ Cancel
  \/ RailServes \/ HumanCloses

Spec == Init /\ [][Next]_vars

(* execute() goes on when what it awaits is there, a request is answered or  *)
(* fails (Node's fetch gives up in the end), and the abort signal ends a     *)
(* running role.  Nothing forces a role to settle by itself, a person to     *)
(* close a query, or Rail to show it to those who ask.                       *)
Fairness ==
  /\ WF_vars(Continues) /\ WF_vars(RailServes) /\ WF_vars(LoopDrains)
  /\ WF_vars(cancelled /\ RoleDecides)

FairSpec == Spec /\ Fairness

-----------------------------------------------------------------------------
(* Properties *)

Over == pc \in {"done", "drained"}

TypeOK ==
  /\ rail \in State /\ cycle \in State
  /\ checks \in [Check -> Nat]
  /\ query \in QueryStatus
  /\ code \in Nat
  /\ job \in Job
  /\ pc \in Await \cup {"done", "drained"}
  /\ reply \in Reply
  /\ role \in Role /\ kind \in {"IMPLEMENT", "RECOVERY"}
  /\ attempt \in 0..MaxQueryResumes
  /\ implSession \in {"none", "minted", "started"}
  /\ reworks \in 0..(MaxReworks + 1)
  /\ due \in Seq(Check)
  /\ ending \in Outcome /\ outcome \in Outcome
  /\ cancelled \in BOOLEAN

\* "The Harness never re-runs the IMPLEMENTER while Rail still sits in
\* REVIEWING / TESTING": a role works only in the state Rail and the
\* orchestrator agree on.
AgreesWithRail ==
  pc = "role" => cycle = Stage[role] /\ rail = Stage[role]

\* "A code change can never skip a fresh independent review", and COMPLETED
\* means that every check was created for the very code in the worktree, as long
\* as only the roles in MayEdit change it.
ReviewedAsIs ==
  /\ pc = "role" /\ role = "TESTER" =>
       checks["IMPLEMENTATION"] = code /\ checks["CODE_REVIEW"] = code
  /\ pc = "done" /\ outcome = "COMPLETED" => \A c \in Check : checks[c] = code

\* "It would be left pending and orphaned": an open query is waited for; only
\* an execution that failed, was cancelled or died leaves one behind.
NoOrphanQuery ==
  query = "PENDING" =>
    \/ pc \in {"query", "wait", "poll", "drained"}
    \/ pc = "done" /\ outcome \in {"FAILED", "CANCELLED"}

\* The two budgets bound the work: the IMPLEMENTER runs at most once and once
\* per rework, and each time again for every query answered.
BoundedWork == code <= 1 + (1 + MaxReworks) * (1 + MaxQueryResumes)

\* After cancel() no role, check, transition, query or note is started.
StartsNothing == cancelled /\ <<pc, due>>' # <<pc, due>> => Over'

NothingAfterCancel == [][StartsNothing]_vars

\* cancel() ends the execution, whatever it awaits: above all the wait for an
\* answer that may never come.
CancelSettles == cancelled ~> Over

\* As long as roles settle, only the wait for an answer keeps execute() pending:
\* nobody closes the query, or Rail never shows it again (the poll loop retries
\* every error, a permanent one too, and a query missing from the list).
Waiting == pc \in {"wait", "poll"}

OnlyPeopleHoldItUp ==
  WF_vars(RoleDecides) =>
    \/ <>Over
    \/ <>[](Waiting /\ query = "PENDING")
    \/ <>[]Waiting /\ <>[][~RailShowsQuery]_vars

\* The WorkCycle Rail sees goes through the stages WorkCycle promises.
Promise == INSTANCE WorkCycle WITH stage <- rail, vouched <- checks

ImplementsWorkCycle == Promise!Spec

(* What the repository says, and the code does not do *)

\* isResumingSession(envelope): `--resume`, not `--session-id`
IsResumingSession == kind = "RECOVERY" \/ attempt > 0

\* A RECOVERY envelope and one with a resumeAnswer "recuperan una conversación
\* existente": the adapter resumes the session they name.
ResumesStartedSession ==
  pc = "role" /\ role = "IMPLEMENTER" /\ IsResumingSession =>
    implSession = "started"

=============================================================================
