-------------------------- MODULE ContinuationProofs --------------------------
(***************************************************************************)
(* Theorems about Continuation, for every set of processes, every earlier  *)
(* history and every other owner of the WorkCycle: its types, its safety   *)
(* properties and that it implements RunLifecycle.  All follow from one    *)
(* inductive invariant, IInv: what a process knows, what Rail has granted  *)
(* it, and how far its Run is, fit together at each await.                 *)
(***************************************************************************)
EXTENDS Continuation, TLAPS

\* What getTicket may answer: an activeRun, if any, is open.
Details ==
  {d \in [cycle : CycleState, blocked : BOOLEAN, runs : SUBSET Run,
          active : Run \cup {NoRun}, rail : [Run -> RunState]] :
     d.active # NoRun => d.rail[d.active] = "OPEN"}

Answers ==
  [status : {"none", "2xx", "absent", "conflict", "rejected", "lost", "ok", "fail"},
   id : Run \cup {NoRun}, from : Run \cup {NoRun}, cycle : CycleState \cup {Nothing}]

Results ==
  [outcome : RunOutcome \cup {"none", "BLOCKED", "ABORTED", "FENCED"},
   code : NoOpCodes \cup {"none", "REJECTED", "RESPONSE_CONTRACT_ERROR", "STOPPED",
                          "RECOVERED", "OWNERSHIP_LOST"}]

\* The types that TypeOK leaves out, or gives in part.
DataInv ==
  /\ detail \in [Proc -> Details \cup {NoDetail}]
  /\ answer \in [Proc -> Answers]
  /\ result \in [Proc -> Results]

\* A Run has a holder from the moment Rail makes it; the history lists such Runs,
\* the last of which started last and is the only one that may be open.
RailInv ==
  /\ \A r \in Run : rail[r] = "NONE" <=> holder[r] = Nothing
  /\ \A i \in 1 .. Len(history) : rail[history[i]] # "NONE"
  /\ \A i \in 1 .. Len(history) : StartedAt[history[i]] <= StartedAt[Latest]
  /\ \A r \in Run : rail[r] = "OPEN" => r = Latest

NoGrant(p) == \A r \in Run : holder[r] # p

\* What a process asks for is what its reading of Rail allows.
AskInv(p) ==
  /\ pc[p] = "get" => answer[p] = NoAnswer
  /\ pc[p] = "post" => /\ detail[p] \in Details /\ body[p] \in Run
                       /\ \E late \in BOOLEAN : Recoverable(p, late, body[p])

\* Rail grants a process a Run only while its POST is unanswered; the answer, if
\* it echoes the state, has the one the cycle was in when that Run was made.
GrantInv(p) ==
  /\ pc[p] = "get" => NoGrant(p)
  /\ pc[p] = "post" =>
       /\ answer[p].status \in {"none", "absent", "conflict", "rejected"} => NoGrant(p)
       /\ answer[p].status = "2xx" /\ EchoesState =>
            /\ answer[p].cycle # Nothing
            /\ \A r \in Run : holder[r] = p => answer[p].cycle = born[r]
  /\ result[p].code \in NoOpCodes => pc[p] = "exited" /\ NoGrant(p)
  /\ run[p] = NoRun => start[p] = Nothing
  /\ EchoesState /\ start[p] # Nothing =>
       \A r \in Run : holder[r] = p => start[p] = born[r]

\* How far the Run of a process is at each await of runContinuation(), and that it
\* is never the Run it continues.
PhaseInv(p) ==
  /\ run[p] # NoRun => body[p] \in Run /\ run[p] # body[p]
  /\ pc[p] \in {"get", "post", "recheck"} => run[p] = NoRun /\ ~fenced[p] /\ ~runFinished[p]
  /\ run[p] = NoRun => exec[p] = "none" /\ ~timer[p] /\ beat[p] = "none"
  /\ pc[p] \in {"race", "cancel", "drain", "finish"} => run[p] # NoRun
  /\ pc[p] = "race" => exec[p] = "running" /\ MayFinish(p)
  /\ pc[p] \in {"cancel", "drain"} => exec[p] \in {"stopping", "stopped"}
  /\ pc[p] = "drain" => fenced[p]
  /\ pc[p] \in {"finish", "exited"} => exec[p] # "running"
  /\ pc[p] = "finish" => runFinished[p]
  /\ pc[p] = "exited" /\ run[p] # NoRun => runFinished[p] \/ fenced[p]

\* The outcome a process ends its Run with is chosen long before Rail reads it:
\* what the execution reported, or one that needs no report.
EndInv(p) ==
  /\ pc[p] = "cancel" => stopRequested[p]
  /\ pc[p] = "finish" =>
       \/ exec[p] \in Verdict /\ closing[p] = FinishOutcome(exec[p])
       \/ exec[p] \notin Verdict /\ closing[p] = "FAILED"
       \/ exec[p] \notin Verdict /\ closing[p] = "RELEASED" /\ stopRequested[p]

\* The inductive invariant.
IProcs == \A p \in Proc : AskInv(p) /\ GrantInv(p) /\ PhaseInv(p) /\ EndInv(p)
IInv   == TypeOK /\ DataInv /\ RailInv /\ IProcs

-----------------------------------------------------------------------------
(* Types *)

\* cli.js exits with 0, 1 or 2 whatever a run returned.
LEMMA ExitCodes == \A res : ExitCode(res) \in 0 .. 2
  BY DEF ExitCode

\* NoAnswer and NoResult are what a process starts with, and forgets to.
LEMMA Nothings == NoAnswer \in Answers /\ NoResult \in Results
  BY DEF NoAnswer, NoResult, Answers, Results, Nothing

\* What runContinuation() returns is an outcome and a code of Results.
LEMMA ResultsReturned ==
  /\ [outcome |-> "FAILED", code |-> "TICKET_READ_FAILED"] \in Results
  /\ [outcome |-> "FAILED", code |-> "REJECTED"] \in Results
  /\ [outcome |-> "FAILED", code |-> "RESPONSE_CONTRACT_ERROR"] \in Results
  /\ [outcome |-> "FENCED", code |-> "OWNERSHIP_LOST"] \in Results
  /\ [outcome |-> "ABORTED", code |-> "REJECTED_ACTIVE_RUN"] \in Results
  /\ \A c \in {"NOT_RECOVERABLE", "WORKSPACE_MISMATCH", "ENDPOINT_UNAVAILABLE"} :
       [outcome |-> "BLOCKED", code |-> c] \in Results
  /\ Stopped \in Results
  /\ \A o \in RunOutcome : Recovered(o) \in Results
  BY DEF Results, NoOpCodes, RunOutcome, Stopped, Recovered

\* RUN_FINISH_OUTCOMES is a whitelist.
LEMMA FinishOutcomes == \A v : FinishOutcome(v) \in RunOutcome
  BY DEF FinishOutcome, RunOutcome

\* An answer with another status is an answer.
LEMMA StatusChanged ==
  ASSUME NEW a \in Answers,
         NEW s \in {"none", "2xx", "absent", "conflict", "rejected", "lost", "ok", "fail"}
  PROVE  [a EXCEPT !.status = s] \in Answers
  BY DEF Answers

\* However Rail words a grant, it is an answer.
LEMMA HandoffsAnswer ==
  ASSUME TypeOK, NEW a \in Handoffs
  PROVE  a \in Answers
  BY DEF Handoffs, Answers, TypeOK, Nothing

\* What getTicket answers is a reading of Rail.
LEMMA ReadingAnswered ==
  ASSUME TypeOK, NEW a \in {NoRun, Latest}, a = Latest => rail[a] = "OPEN"
  PROVE  [cycle |-> cycle, blocked |-> blocked, runs |-> CycleRuns,
          active |-> a, rail |-> rail] \in Details
  <1>1. Latest \in Run /\ CycleRuns \in SUBSET Run
    BY DEF TypeOK, Latest, CycleRuns
  <1> QED BY <1>1 DEF TypeOK, Details

\* Every step keeps the results and the answers what they are.
LEMMA DataStep ==
  ASSUME IInv, [Next]_vars
  PROVE  DataInv'
  <1> USE DEF IInv, DataInv, railVars, callVars, runVars
  <1>1. ASSUME NEW p \in Proc, TicketReadFails(p) PROVE DataInv'
    BY <1>1, Nothings, ResultsReturned DEF TicketReadFails, Return, Forget
  <1>2. ASSUME NEW p \in Proc, Refuse(p) PROVE DataInv'
    BY <1>2, Nothings, ResultsReturned DEF Refuse, Return, Forget
  <1>3. ASSUME NEW p \in Proc, Post(p) PROVE DataInv'
    BY <1>3, Nothings, ResultsReturned DEF Post
  <1>4. ASSUME NEW p \in Proc, PostThrows(p) PROVE DataInv'
    BY <1>4, Nothings, ResultsReturned DEF PostThrows, Return, Forget
  <1>5. ASSUME NEW p \in Proc, Unusable(p) PROVE DataInv'
    BY <1>5, Nothings, ResultsReturned DEF Unusable, Forget
  <1>6. ASSUME NEW p \in Proc, RecheckReturns(p) PROVE DataInv'
    BY <1>6, Nothings, ResultsReturned DEF RecheckReturns, Return, Forget
  <1>7. ASSUME NEW p \in Proc, WrongRun(p) PROVE DataInv'
    BY <1>7, Nothings, ResultsReturned DEF WrongRun, Return, Forget
  <1>8. ASSUME NEW p \in Proc, Execute(p) PROVE DataInv'
    BY <1>8, Nothings, ResultsReturned DEF Execute, Forget
  <1>9. ASSUME NEW p \in Proc, StopBeforeExecuting(p) PROVE DataInv'
    <2>1. PICK res \in Results : result' = [result EXCEPT ![p] = res]
      BY <1>9, ResultsReturned, FinishOutcomes DEF StopBeforeExecuting, SafeFinish, RunOutcome
    <2> QED BY <1>9, <2>1, Nothings DEF StopBeforeExecuting, SafeFinish, Forget
  <1>10. ASSUME NEW p \in Proc, ExecuteFails(p) PROVE DataInv'
    <2>1. PICK res \in Results : result' = [result EXCEPT ![p] = res]
      BY <1>10, ResultsReturned, FinishOutcomes DEF ExecuteFails, SafeFinish, RunOutcome
    <2> QED BY <1>10, <2>1, Nothings DEF ExecuteFails, SafeFinish, Forget
  <1>11. ASSUME NEW p \in Proc, CancelReturns(p) PROVE DataInv'
    <2>1. PICK res \in Results : result' = [result EXCEPT ![p] = res]
      BY <1>11, ResultsReturned, FinishOutcomes DEF CancelReturns, SafeFinish, RunOutcome
    <2> QED BY <1>11, <2>1, Nothings DEF CancelReturns, SafeFinish, Forget
  <1>12. ASSUME NEW p \in Proc, DrainEnds(p) PROVE DataInv'
    BY <1>12, Nothings, ResultsReturned DEF DrainEnds, Return, Forget
  <1>13. ASSUME NEW p \in Proc, FinishReturns(p) PROVE DataInv'
    BY <1>13, Nothings, ResultsReturned DEF FinishReturns, Forget
  <1>14. ASSUME NEW p \in Proc, Beats(p) PROVE DataInv'
    BY <1>14, Nothings, ResultsReturned DEF Beats
  <1>15. ASSUME NEW p \in Proc, BeatReturns(p) PROVE DataInv'
    BY <1>15, Nothings, ResultsReturned DEF BeatReturns
  <1>16. ASSUME NEW p \in Proc, BeatRejected(p) PROVE DataInv'
    BY <1>16, Nothings, ResultsReturned DEF BeatRejected, Cancelled
  <1>17. ASSUME NEW p \in Proc, NEW v \in Report, ExecutionSettles(p, v) PROVE DataInv'
    <2>1. PICK res \in Results : result' = [result EXCEPT ![p] = res]
      BY <1>17, ResultsReturned, FinishOutcomes DEF ExecutionSettles, SafeFinish, RunOutcome
    <2> QED BY <1>17, <2>1, Nothings DEF ExecutionSettles, SafeFinish, Forget
  <1>18. ASSUME NEW p \in Proc, ExecutionWindsDown(p) PROVE DataInv'
    BY <1>18, Nothings, ResultsReturned DEF ExecutionWindsDown
  <1>19. ASSUME NEW p \in Proc, RequestStop(p) PROVE DataInv'
    BY <1>19, Nothings, ResultsReturned DEF RequestStop, Cancelled
  <1>20. ASSUME NEW p \in Proc, Crash(p) PROVE DataInv'
    BY <1>20, Nothings, ResultsReturned DEF Crash
  <1>21. ASSUME NEW p \in Proc, RailAnswersGet(p) PROVE DataInv'
    <2>1. PICK a \in {NoRun, Latest} :
            /\ a = Latest => rail[a] = "OPEN"
            /\ detail' = [detail EXCEPT ![p] =
                 [cycle |-> cycle, blocked |-> blocked, runs |-> CycleRuns,
                  active |-> a, rail |-> rail]]
      BY <1>21 DEF RailAnswersGet
    <2>2. detail' \in [Proc -> Details \cup {NoDetail}]
      BY <2>1, ReadingAnswered
    <2> QED BY <1>21, <2>2 DEF RailAnswersGet
  <1>22. ASSUME NEW p \in Proc, RailContinues(p) PROVE DataInv'
    <2>1. PICK a \in Handoffs \cup {[NoAnswer EXCEPT !.status = "lost"]} :
            answer' = [answer EXCEPT ![p] = a]
      BY <1>22 DEF RailContinues
    <2>2. [NoAnswer EXCEPT !.status = "lost"] \in Answers
      BY Nothings, StatusChanged
    <2>3. a \in Answers
      BY <2>1, <2>2, HandoffsAnswer
    <2>4. answer' \in [Proc -> Answers]
      BY <2>1, <2>3
    <2> QED BY <1>22, <2>4 DEF RailContinues
  <1>23. ASSUME NEW p \in Proc, RailRefuses(p) PROVE DataInv'
    <2>1. PICK s \in {"conflict", "rejected"} :
            answer' = [answer EXCEPT ![p].status = s]
      BY <1>23 DEF RailRefuses
    <2>2. [answer[p] EXCEPT !.status = s] \in Answers
      BY StatusChanged
    <2>3. answer' \in [Proc -> Answers]
      BY <2>1, <2>2
    <2> QED BY <1>23, <2>3 DEF RailRefuses
  <1>24. ASSUME NEW p \in Proc, PostLost(p) PROVE DataInv'
    <2>1. PICK s \in {"absent", "lost"} :
            answer' = [answer EXCEPT ![p].status = s]
      BY <1>24 DEF PostLost
    <2>2. [answer[p] EXCEPT !.status = s] \in Answers
      BY StatusChanged
    <2>3. answer' \in [Proc -> Answers]
      BY <2>1, <2>2
    <2> QED BY <1>24, <2>3 DEF PostLost
  <1>25. ASSUME NEW p \in Proc, RailFinishes(p) PROVE DataInv'
    <2>1. PICK s \in {"ok", "fail"} :
            answer' = [answer EXCEPT ![p].status = s]
      BY <1>25 DEF RailFinishes
    <2>2. [answer[p] EXCEPT !.status = s] \in Answers
      BY StatusChanged
    <2>3. answer' \in [Proc -> Answers]
      BY <2>1, <2>2
    <2> QED BY <1>25, <2>3 DEF RailFinishes
  <1>26. ASSUME NEW p \in Proc, FinishRefused(p) PROVE DataInv'
    <2>1. PICK s \in {"fail"} :
            answer' = [answer EXCEPT ![p].status = s]
      BY <1>26 DEF FinishRefused
    <2>2. [answer[p] EXCEPT !.status = s] \in Answers
      BY StatusChanged
    <2>3. answer' \in [Proc -> Answers]
      BY <2>1, <2>2
    <2> QED BY <1>26, <2>3 DEF FinishRefused
  <1>27. ASSUME NEW p \in Proc, RailHeartbeat(p) PROVE DataInv'
    BY <1>27, Nothings, ResultsReturned DEF RailHeartbeat
  <1>28. ASSUME NEW p \in Proc, BeatLost(p) PROVE DataInv'
    BY <1>28, Nothings, ResultsReturned DEF BeatLost
  <1>29. ASSUME NEW r \in Run, LeaseLapses(r) PROVE DataInv'
    BY <1>29, Nothings, ResultsReturned DEF LeaseLapses
  <1>30. ASSUME NEW r \in Run, Sweep(r) PROVE DataInv'
    BY <1>30, Nothings, ResultsReturned DEF Sweep
  <1>31. ASSUME NEW r \in Run, OthersAct(r) PROVE DataInv'
    BY <1>31, Nothings, ResultsReturned DEF OthersAct
  <1>32. CASE OthersContinue
    BY <1>32, Nothings, ResultsReturned DEF OthersContinue, Grant
  <1>33. CASE CycleMoves
    BY <1>33, Nothings, ResultsReturned DEF CycleMoves
  <1>34. CASE UNCHANGED vars
    BY <1>34 DEF vars
  <1> QED
    BY <1>1, <1>2, <1>3, <1>4, <1>5, <1>6, <1>7, <1>8, <1>9, <1>10, <1>11, <1>12,
       <1>13, <1>14, <1>15, <1>16, <1>17, <1>18, <1>19, <1>20, <1>21, <1>22, <1>23,
       <1>24, <1>25, <1>26, <1>27, <1>28, <1>29, <1>30, <1>31, <1>32, <1>33, <1>34
    DEF Next, Ask, TakeAnswer, Conclude, Supervise, RailServes

\* Making a Run keeps the types.
LEMMA GrantTyped ==
  ASSUME TypeOK, NEW r \in Run, NEW l, NEW h \in Proc \cup {Others}, Grant(r, l, h)
  PROVE  /\ rail' \in [Run -> RunState] /\ lapsed' \in [Run -> BOOLEAN]
         /\ history' \in Seq(Run) /\ Len(history') > 0
         /\ holder' \in [Run -> Proc \cup {Others, Nothing}]
         /\ born' \in [Run -> CycleState \cup {Nothing}]
  <1> USE DEF TypeOK, Grant
  <1>1. rail' \in [Run -> RunState]
    BY DEF RunState, RunOutcome
  <1>2. lapsed' \in [Run -> BOOLEAN]
    OBVIOUS
  <1>3. history' \in Seq(Run) /\ Len(history') > 0
    OBVIOUS
  <1>4. /\ holder' \in [Run -> Proc \cup {Others, Nothing}]
        /\ born' \in [Run -> CycleState \cup {Nothing}]
    OBVIOUS
  <1> QED BY <1>1, <1>2, <1>3, <1>4

\* So does finishing one, with an outcome.
LEMMA SafeFinishTyped ==
  ASSUME TypeOK, NEW p \in Proc, NEW o \in RunOutcome, NEW res, SafeFinish(p, o, res)
  PROVE  /\ pc' \in [Proc -> Awaiting \cup Ended] /\ body' \in [Proc -> Run \cup {NoRun}]
         /\ runFinished' \in [Proc -> BOOLEAN]
         /\ closing' \in [Proc -> RunOutcome \cup {"none"}]
  <1> USE DEF TypeOK, SafeFinish, Forget
  <1>1. pc' \in [Proc -> Awaiting \cup Ended] /\ body' \in [Proc -> Run \cup {NoRun}]
    BY DEF Awaiting, Ended
  <1>2. runFinished' \in [Proc -> BOOLEAN]
    OBVIOUS
  <1>3. closing' \in [Proc -> RunOutcome \cup {"none"}]
    OBVIOUS
  <1> QED BY <1>1, <1>2, <1>3

\* Every step keeps the types.
LEMMA TypeStep ==
  ASSUME IInv, [Next]_vars, DataInv'
  PROVE  TypeOK'
  <1> USE DEF IInv, TypeOK, railVars, callVars, runVars
  <1>0. \A q \in Proc :
          /\ answer'[q].status \in
               {"none", "2xx", "absent", "conflict", "rejected", "lost", "ok", "fail"}
          /\ answer'[q].id \in Run \cup {NoRun} /\ answer'[q].from \in Run \cup {NoRun}
          /\ ExitCode(result'[q]) \in 0 .. 2
    BY ExitCodes DEF DataInv, Answers
  <1>1. ASSUME NEW p \in Proc, TicketReadFails(p) PROVE TypeOK'
    BY <1>1, <1>0
    DEF TicketReadFails, Return, Forget, Awaiting, Ended, RunOutcome, RunState, ExecState, Verdict
  <1>2. ASSUME NEW p \in Proc, Refuse(p) PROVE TypeOK'
    BY <1>2, <1>0
    DEF Refuse, Return, Forget, Awaiting, Ended, RunOutcome, RunState, ExecState, Verdict
  <1>3. ASSUME NEW p \in Proc, Post(p) PROVE TypeOK'
    BY <1>3, <1>0 DEF Post, Awaiting
  <1>4. ASSUME NEW p \in Proc, PostThrows(p) PROVE TypeOK'
    BY <1>4, <1>0
    DEF PostThrows, Return, Forget, Awaiting, Ended, RunOutcome, RunState, ExecState, Verdict
  <1>5. ASSUME NEW p \in Proc, Unusable(p) PROVE TypeOK'
    BY <1>5, <1>0
    DEF Unusable, Forget, Awaiting, Ended, RunOutcome, RunState, ExecState, Verdict
  <1>6. ASSUME NEW p \in Proc, RecheckReturns(p) PROVE TypeOK'
    BY <1>6, <1>0
    DEF RecheckReturns, Return, Forget, Awaiting, Ended, RunOutcome, RunState, ExecState, Verdict
  <1>7. ASSUME NEW p \in Proc, WrongRun(p) PROVE TypeOK'
    BY <1>7, <1>0
    DEF WrongRun, Return, Forget, Awaiting, Ended, RunOutcome, RunState, ExecState, Verdict
  <1>8. ASSUME NEW p \in Proc, Execute(p) PROVE TypeOK'
    <2>1. answer[p].id \in Run
      BY <1>8 DEF Execute, IsContinuation
    <2>2. detail[p] \in Details /\ answer[p] \in Answers
      BY <1>8 DEF Execute, DataInv, IProcs, AskInv
    <2>3. PreservedCycleState(p) \in CycleState
      BY <2>2 DEF Answers, Details, PreservedCycleState
    <2> QED BY <1>8, <1>0, <2>1, <2>3 DEF Execute, Forget, Awaiting, ExecState
  <1>9. ASSUME NEW p \in Proc, StopBeforeExecuting(p) PROVE TypeOK'
    <2>1. "RELEASED" \in RunOutcome /\ answer[p].id \in Run
      BY <1>9 DEF RunOutcome, StopBeforeExecuting, IsContinuation
    <2> QED BY <1>9, <1>0, <2>1, SafeFinishTyped DEF StopBeforeExecuting
  <1>10. ASSUME NEW p \in Proc, ExecuteFails(p) PROVE TypeOK'
    <2>1. "FAILED" \in RunOutcome /\ answer[p].id \in Run
      BY <1>10 DEF RunOutcome, ExecuteFails, IsContinuation
    <2> QED BY <1>10, <1>0, <2>1, SafeFinishTyped DEF ExecuteFails
  <1>11. ASSUME NEW p \in Proc, CancelReturns(p) PROVE TypeOK'
    <2>1. "RELEASED" \in RunOutcome
      BY DEF RunOutcome
    <2> QED BY <1>11, <1>0, <2>1, SafeFinishTyped DEF CancelReturns
  <1>12. ASSUME NEW p \in Proc, DrainEnds(p) PROVE TypeOK'
    BY <1>12, <1>0
    DEF DrainEnds, Return, Forget, Awaiting, Ended, RunOutcome, RunState, ExecState, Verdict
  <1>13. ASSUME NEW p \in Proc, FinishReturns(p) PROVE TypeOK'
    BY <1>13, <1>0
    DEF FinishReturns, Forget, Awaiting, Ended, RunOutcome, RunState, ExecState, Verdict
  <1>14. ASSUME NEW p \in Proc, Beats(p) PROVE TypeOK'
    BY <1>14, <1>0 DEF Beats, Awaiting, Ended, RunOutcome, RunState, ExecState, Verdict
  <1>15. ASSUME NEW p \in Proc, BeatReturns(p) PROVE TypeOK'
    BY <1>15, <1>0
    DEF BeatReturns, Awaiting, Ended, RunOutcome, RunState, ExecState, Verdict
  <1>16. ASSUME NEW p \in Proc, BeatRejected(p) PROVE TypeOK'
    BY <1>16, <1>0
    DEF BeatRejected, Cancelled, Awaiting, Ended, RunOutcome, RunState, ExecState, Verdict
  <1>17. ASSUME NEW p \in Proc, NEW v \in Report, ExecutionSettles(p, v) PROVE TypeOK'
    <2>1. v \in ExecState /\ FinishOutcome(v) \in RunOutcome
      BY Constants, FinishOutcomes DEF ExecState, Verdict, RunOutcome
    <2> QED BY <1>17, <1>0, <2>1, SafeFinishTyped DEF ExecutionSettles
  <1>18. ASSUME NEW p \in Proc, ExecutionWindsDown(p) PROVE TypeOK'
    BY <1>18, <1>0
    DEF ExecutionWindsDown, Awaiting, Ended, RunOutcome, RunState, ExecState, Verdict
  <1>19. ASSUME NEW p \in Proc, RequestStop(p) PROVE TypeOK'
    BY <1>19, <1>0
    DEF RequestStop, Cancelled, Awaiting, Ended, RunOutcome, RunState, ExecState, Verdict
  <1>20. ASSUME NEW p \in Proc, Crash(p) PROVE TypeOK'
    BY <1>20, <1>0 DEF Crash, Awaiting, Ended, RunOutcome, RunState, ExecState, Verdict
  <1>21. ASSUME NEW p \in Proc, RailAnswersGet(p) PROVE TypeOK'
    BY <1>21, <1>0
    DEF RailAnswersGet, Awaiting, Ended, RunOutcome, RunState, ExecState, Verdict
  <1>22. ASSUME NEW p \in Proc, RailContinues(p) PROVE TypeOK'
    <2>1. PICK r \in Run : Grant(r, body[p], p)
      BY <1>22 DEF RailContinues
    <2> QED BY <1>22, <1>0, <2>1, GrantTyped DEF RailContinues
  <1>23. ASSUME NEW p \in Proc, RailRefuses(p) PROVE TypeOK'
    BY <1>23, <1>0
    DEF RailRefuses, Awaiting, Ended, RunOutcome, RunState, ExecState, Verdict
  <1>24. ASSUME NEW p \in Proc, PostLost(p) PROVE TypeOK'
    BY <1>24, <1>0 DEF PostLost, Awaiting, Ended, RunOutcome, RunState, ExecState, Verdict
  <1>25. ASSUME NEW p \in Proc, RailFinishes(p) PROVE TypeOK'
    <2>1. closing[p] \in RunOutcome
      BY <1>25, FinishOutcomes DEF RailFinishes, IProcs, EndInv, RunOutcome
    <2> QED BY <1>25, <1>0, <2>1 DEF RailFinishes, RunState
  <1>26. ASSUME NEW p \in Proc, FinishRefused(p) PROVE TypeOK'
    BY <1>26, <1>0
    DEF FinishRefused, Awaiting, Ended, RunOutcome, RunState, ExecState, Verdict
  <1>27. ASSUME NEW p \in Proc, RailHeartbeat(p) PROVE TypeOK'
    <2>1. lapsed' \in [Run -> BOOLEAN]
      BY <1>27 DEF RailHeartbeat
    <2>2. beat' \in [Proc -> {"none", "sent", "ok", "rejected", "transient"}]
      BY <1>27 DEF RailHeartbeat
    <2>3. UNCHANGED <<cycle, blocked, rail, history, holder, born, op, pc, callVars, runVars,
                      stopRequested, fenced, result>>
      BY <1>27 DEF RailHeartbeat
    <2> QED BY <1>0, <2>1, <2>2, <2>3
  <1>28. ASSUME NEW p \in Proc, BeatLost(p) PROVE TypeOK'
    BY <1>28, <1>0 DEF BeatLost, Awaiting, Ended, RunOutcome, RunState, ExecState, Verdict
  <1>29. ASSUME NEW r \in Run, LeaseLapses(r) PROVE TypeOK'
    BY <1>29, <1>0
    DEF LeaseLapses, Awaiting, Ended, RunOutcome, RunState, ExecState, Verdict
  <1>30. ASSUME NEW r \in Run, Sweep(r) PROVE TypeOK'
    BY <1>30, <1>0 DEF Sweep, Awaiting, Ended, RunOutcome, RunState, ExecState, Verdict
  <1>31. ASSUME NEW r \in Run, OthersAct(r) PROVE TypeOK'
    <2>1. OthersOutcome \subseteq RunState
      BY Constants DEF RunState, RunOutcome
    <2> QED BY <1>31, <1>0, <2>1 DEF OthersAct
  <1>32. CASE OthersContinue
    <2>1. PICK r \in Run : Grant(r, Latest, Others)
      BY <1>32 DEF OthersContinue
    <2> QED BY <1>32, <1>0, <2>1, GrantTyped DEF OthersContinue
  <1>33. CASE CycleMoves
    BY <1>33, <1>0
    DEF CycleMoves, Awaiting, Ended, RunOutcome, RunState, ExecState, Verdict
  <1>34. CASE UNCHANGED vars
    BY <1>34 DEF vars
  <1> QED
    BY <1>1, <1>2, <1>3, <1>4, <1>5, <1>6, <1>7, <1>8, <1>9, <1>10, <1>11, <1>12,
       <1>13, <1>14, <1>15, <1>16, <1>17, <1>18, <1>19, <1>20, <1>21, <1>22, <1>23,
       <1>24, <1>25, <1>26, <1>27, <1>28, <1>29, <1>30, <1>31, <1>32, <1>33, <1>34
    DEF Next, Ask, TakeAnswer, Conclude, Supervise, RailServes

-----------------------------------------------------------------------------
(* Rail *)

\* The Run that is continued is there, so it is not the one that is made; the one
\* that is made is the latest now, and the only one open.
LEMMA GrantMakesRun ==
  ASSUME TypeOK, RailInv, NEW r \in Run, NEW h \in Proc \cup {Others}, Grant(r, Latest, h)
  PROVE  RailInv' /\ r # Latest
  <1> USE DEF TypeOK, RailInv, Grant
  <1>1. r # Latest /\ rail[Latest] # "NONE" /\ Latest \in Run
    BY DEF Latest
  <1>2. h # Nothing
    BY Constants DEF Nothing
  <1>3. \A x \in Run : rail'[x] = "NONE" <=> holder'[x] = Nothing
    BY <1>1, <1>2
  <1>4. rail'[r] # "NONE" /\ \A x \in Run : rail[x] # "NONE" => rail'[x] # "NONE"
    BY <1>1
  <1>5. \A i \in 1 .. Len(history') :
          history'[i] = r \/ (history'[i] = history[i] /\ i \in 1 .. Len(history))
    OBVIOUS
  <1>6. \A i \in 1 .. Len(history') : rail'[history'[i]] # "NONE"
    BY <1>4, <1>5
  <1>7. /\ Latest' = r /\ Len(history') = Len(history) + 1
        /\ \A i \in 1 .. Len(history) : history'[i] = history[i]
    BY DEF Latest
  <1>8. StartedAt[Latest] <= StartedAt[r]
    OBVIOUS
  <1>9. \A i \in 1 .. Len(history) :
          history[i] \in Run /\ StartedAt[history[i]] <= StartedAt[Latest]
    OBVIOUS
  <1>10. \A x \in Run : rail'[x] = "OPEN" => x = Latest'
    <2>1. \A x \in Run : rail'[x] = "OPEN" => x = r \/ (x # Latest /\ rail[x] = "OPEN")
      BY <1>1
    <2>2. \A x \in Run : rail[x] = "OPEN" => x = Latest
      OBVIOUS
    <2> QED BY <2>1, <2>2, <1>7
  <1> HIDE DEF TypeOK, RailInv, Grant
  <1>11. \A i \in 1 .. Len(history') : StartedAt[history'[i]] <= StartedAt[Latest']
    <2> SUFFICES ASSUME NEW i \in 1 .. Len(history')
                 PROVE  StartedAt[history'[i]] <= StartedAt[r]
      BY <1>7
    <2>1. \A x \in Run : StartedAt[x] \in Nat
      BY Constants
    <2>2. CASE history'[i] = r
      BY <2>1, <2>2
    <2>3. CASE history'[i] = history[i] /\ i \in 1 .. Len(history)
      BY <1>1, <1>8, <1>9, <2>1, <2>3
    <2> QED BY <1>5, <2>2, <2>3
  <1> QED BY <1>1, <1>3, <1>6, <1>10, <1>11 DEF RailInv

\* Ending Runs keeps the record.
LEMMA FewerOpen ==
  ASSUME TypeOK, RailInv, holder' = holder, history' = history,
         \A x \in Run : /\ rail'[x] = "NONE" <=> rail[x] = "NONE"
                        /\ rail'[x] = "OPEN" => rail[x] = "OPEN"
  PROVE  RailInv'
  <1>1. Latest' = Latest
    BY DEF Latest
  <1>2. \A i \in 1 .. Len(history) : history[i] \in Run
    BY DEF TypeOK
  <1>3. \A x \in Run : rail'[x] = "NONE" <=> holder'[x] = Nothing
    BY DEF RailInv
  <1>4. \A i \in 1 .. Len(history') : rail'[history'[i]] # "NONE"
    BY <1>2 DEF RailInv
  <1>5. \A i \in 1 .. Len(history') : StartedAt[history'[i]] <= StartedAt[Latest']
    BY <1>1 DEF RailInv
  <1>6. \A x \in Run : rail'[x] = "OPEN" => x = Latest'
    BY <1>1 DEF RailInv
  <1> QED BY <1>3, <1>4, <1>5, <1>6 DEF RailInv

\* Rail makes a Run once; from then on it has a holder and a state.
LEMMA RailStep ==
  ASSUME IInv, [Next]_vars
  PROVE  RailInv'
  <1> USE DEF IInv, railVars
  <1>0. rail' = rail /\ holder' = holder /\ history' = history => RailInv'
    BY DEF RailInv, Latest
  <1>1. ASSUME NEW p \in Proc, TicketReadFails(p) PROVE RailInv'
    BY <1>1, <1>0 DEF TicketReadFails
  <1>2. ASSUME NEW p \in Proc, Refuse(p) PROVE RailInv'
    BY <1>2, <1>0 DEF Refuse
  <1>3. ASSUME NEW p \in Proc, Post(p) PROVE RailInv'
    BY <1>3, <1>0 DEF Post
  <1>4. ASSUME NEW p \in Proc, PostThrows(p) PROVE RailInv'
    BY <1>4, <1>0 DEF PostThrows
  <1>5. ASSUME NEW p \in Proc, Unusable(p) PROVE RailInv'
    BY <1>5, <1>0 DEF Unusable
  <1>6. ASSUME NEW p \in Proc, RecheckReturns(p) PROVE RailInv'
    BY <1>6, <1>0 DEF RecheckReturns
  <1>7. ASSUME NEW p \in Proc, WrongRun(p) PROVE RailInv'
    BY <1>7, <1>0 DEF WrongRun
  <1>8. ASSUME NEW p \in Proc, Execute(p) PROVE RailInv'
    BY <1>8, <1>0 DEF Execute
  <1>9. ASSUME NEW p \in Proc, StopBeforeExecuting(p) PROVE RailInv'
    BY <1>9, <1>0 DEF StopBeforeExecuting
  <1>10. ASSUME NEW p \in Proc, ExecuteFails(p) PROVE RailInv'
    BY <1>10, <1>0 DEF ExecuteFails
  <1>11. ASSUME NEW p \in Proc, CancelReturns(p) PROVE RailInv'
    BY <1>11, <1>0 DEF CancelReturns
  <1>12. ASSUME NEW p \in Proc, DrainEnds(p) PROVE RailInv'
    BY <1>12, <1>0 DEF DrainEnds
  <1>13. ASSUME NEW p \in Proc, FinishReturns(p) PROVE RailInv'
    BY <1>13, <1>0 DEF FinishReturns
  <1>14. ASSUME NEW p \in Proc, Beats(p) PROVE RailInv'
    BY <1>14, <1>0 DEF Beats
  <1>15. ASSUME NEW p \in Proc, BeatReturns(p) PROVE RailInv'
    BY <1>15, <1>0 DEF BeatReturns
  <1>16. ASSUME NEW p \in Proc, BeatRejected(p) PROVE RailInv'
    BY <1>16, <1>0 DEF BeatRejected
  <1>17. ASSUME NEW p \in Proc, NEW v \in Report, ExecutionSettles(p, v) PROVE RailInv'
    BY <1>17, <1>0 DEF ExecutionSettles
  <1>18. ASSUME NEW p \in Proc, ExecutionWindsDown(p) PROVE RailInv'
    BY <1>18, <1>0 DEF ExecutionWindsDown
  <1>19. ASSUME NEW p \in Proc, RequestStop(p) PROVE RailInv'
    BY <1>19, <1>0 DEF RequestStop
  <1>20. ASSUME NEW p \in Proc, Crash(p) PROVE RailInv'
    BY <1>20, <1>0 DEF Crash
  <1>21. ASSUME NEW p \in Proc, RailAnswersGet(p) PROVE RailInv'
    BY <1>21, <1>0 DEF RailAnswersGet
  <1>22. ASSUME NEW p \in Proc, RailContinues(p) PROVE RailInv'
    <2>1. PICK r \in Run : Grant(r, Latest, p)
      BY <1>22 DEF RailContinues, Acceptable
    <2> QED BY <2>1, GrantMakesRun
  <1>23. ASSUME NEW p \in Proc, RailRefuses(p) PROVE RailInv'
    BY <1>23, <1>0 DEF RailRefuses
  <1>24. ASSUME NEW p \in Proc, PostLost(p) PROVE RailInv'
    BY <1>24, <1>0 DEF PostLost
  <1>25. ASSUME NEW p \in Proc, RailFinishes(p) PROVE RailInv'
    <2>1. closing[p] \notin {"NONE", "OPEN"}
      BY <1>25, FinishOutcomes DEF RailFinishes, IProcs, EndInv, RunOutcome
    <2>2. rail' = [rail EXCEPT ![run[p]] = closing[p]] /\ rail[run[p]] = "OPEN"
      BY <1>25 DEF RailFinishes, Opens
    <2>3. \A x \in Run : /\ rail'[x] = "NONE" <=> rail[x] = "NONE"
                         /\ rail'[x] = "OPEN" => rail[x] = "OPEN"
      BY <2>1, <2>2 DEF TypeOK
    <2> QED BY <1>25, <2>3, FewerOpen DEF RailFinishes
  <1>26. ASSUME NEW p \in Proc, FinishRefused(p) PROVE RailInv'
    BY <1>26, <1>0 DEF FinishRefused
  <1>27. ASSUME NEW p \in Proc, RailHeartbeat(p) PROVE RailInv'
    BY <1>27, <1>0 DEF RailHeartbeat
  <1>28. ASSUME NEW p \in Proc, BeatLost(p) PROVE RailInv'
    BY <1>28, <1>0 DEF BeatLost
  <1>29. ASSUME NEW r \in Run, LeaseLapses(r) PROVE RailInv'
    BY <1>29, <1>0 DEF LeaseLapses
  <1>30. ASSUME NEW r \in Run, Sweep(r) PROVE RailInv'
    <2>1. \A x \in Run : /\ rail'[x] = "NONE" <=> rail[x] = "NONE"
                         /\ rail'[x] = "OPEN" => rail[x] = "OPEN"
      BY <1>30 DEF TypeOK, Sweep
    <2> QED BY <1>30, <2>1, FewerOpen DEF Sweep
  <1>31. ASSUME NEW r \in Run, OthersAct(r) PROVE RailInv'
    <2>1. \A o \in OthersOutcome : o # "NONE"
      BY Constants
    <2>2. \A x \in Run : /\ rail'[x] = "NONE" <=> rail[x] = "NONE"
                         /\ rail'[x] = "OPEN" => rail[x] = "OPEN"
      BY <1>31, <2>1 DEF TypeOK, OthersAct
    <2> QED BY <1>31, <2>2, FewerOpen DEF OthersAct
  <1>32. CASE OthersContinue
    <2>1. PICK r \in Run : Grant(r, Latest, Others)
      BY <1>32 DEF OthersContinue
    <2> QED BY <2>1, GrantMakesRun
  <1>33. CASE CycleMoves
    BY <1>33, <1>0 DEF CycleMoves
  <1>34. CASE UNCHANGED vars
    BY <1>34, <1>0 DEF vars
  <1> QED
    BY <1>1, <1>2, <1>3, <1>4, <1>5, <1>6, <1>7, <1>8, <1>9, <1>10, <1>11, <1>12,
       <1>13, <1>14, <1>15, <1>16, <1>17, <1>18, <1>19, <1>20, <1>21, <1>22, <1>23,
       <1>24, <1>25, <1>26, <1>27, <1>28, <1>29, <1>30, <1>31, <1>32, <1>33, <1>34
    DEF Next, Ask, TakeAnswer, Conclude, Supervise, RailServes

-----------------------------------------------------------------------------
(* Processes: what a step of one leaves of another *)

\* The state of process q, and Rail's record of the Runs it holds, stay.
KeptLocals(q) ==
  /\ op'[q] = op[q] /\ pc'[q] = pc[q]
  /\ detail'[q] = detail[q] /\ body'[q] = body[q] /\ answer'[q] = answer[q]
  /\ run'[q] = run[q] /\ start'[q] = start[q]
  /\ stopRequested'[q] = stopRequested[q] /\ fenced'[q] = fenced[q]
  /\ runFinished'[q] = runFinished[q] /\ closing'[q] = closing[q]
  /\ timer'[q] = timer[q] /\ beat'[q] = beat[q] /\ exec'[q] = exec[q]
  /\ result'[q] = result[q]

KeptRuns(q) ==
  /\ \A r \in Run : holder'[r] = q <=> holder[r] = q
  /\ \A r \in Run : holder[r] = q => born'[r] = born[r]

Kept(q) == KeptLocals(q) /\ KeptRuns(q)

\* The verdict of the preflight depends on what the process asked and read.
LEMMA RecoverableKept ==
  ASSUME NEW q \in Proc, op'[q] = op[q], detail'[q] = detail[q]
  PROVE  \A late, l : Recoverable(q, late, l)' <=> Recoverable(q, late, l)
  BY DEF Recoverable, ResumeTarget, RecoveryTarget

\* The invariants of a process speak of its state and its Runs only.
LEMMA KeptInvariant ==
  ASSUME IInv, NEW q \in Proc, Kept(q)
  PROVE  (AskInv(q) /\ GrantInv(q) /\ PhaseInv(q) /\ EndInv(q))'
  <1> USE DEF IInv, IProcs, Kept, KeptLocals, KeptRuns
  <1>1. AskInv(q)'
    BY RecoverableKept DEF AskInv
  <1>2. GrantInv(q)'
    <2> USE DEF TypeOK
    <2>1. NoGrant(q) => NoGrant(q)'
      BY DEF NoGrant
    <2>2. GrantInv(q)
      OBVIOUS
    <2> QED BY <2>1, <2>2 DEF GrantInv
  <1>3. PhaseInv(q)'
    BY DEF PhaseInv, MayFinish
  <1>4. EndInv(q)'
    BY DEF EndInv
  <1> QED BY <1>1, <1>2, <1>3, <1>4

\* Making a Run for somebody else keeps the Runs of q.
LEMMA GrantKept ==
  ASSUME IInv, NEW q \in Proc, NEW r \in Run, NEW l, NEW h \in Proc \cup {Others},
         h # q, Grant(r, l, h)
  PROVE  KeptRuns(q)
  <1>1. holder[r] = Nothing /\ Nothing # q
    BY Constants DEF IInv, RailInv, Grant, Nothing
  <1> QED BY <1>1 DEF IInv, TypeOK, Grant, KeptRuns

\* A step of process p, or of Rail on its behalf, keeps the others.
LEMMA OthersKept ==
  ASSUME IInv, NEW p \in Proc, NEW q \in Proc, q # p,
         \/ Ask(p) \/ TakeAnswer(p) \/ Conclude(p) \/ Supervise(p)
         \/ \E v \in Report : ExecutionSettles(p, v)
         \/ ExecutionWindsDown(p) \/ RequestStop(p) \/ Crash(p)
         \/ RailServes(p) \/ RailHeartbeat(p) \/ BeatLost(p)
  PROVE  Kept(q)
  <1> USE DEF IInv, TypeOK, DataInv, Kept, KeptLocals, railVars, callVars, runVars
  <1>0. holder' = holder /\ born' = born => KeptRuns(q)
    BY DEF KeptRuns
  <1>1. CASE TicketReadFails(p)
    BY <1>1, <1>0 DEF TicketReadFails, Return, Forget
  <1>2. CASE Refuse(p)
    BY <1>2, <1>0 DEF Refuse, Return, Forget
  <1>3. CASE Post(p)
    BY <1>3, <1>0 DEF Post
  <1>4. CASE PostThrows(p)
    BY <1>4, <1>0 DEF PostThrows, Return, Forget
  <1>5. CASE Unusable(p)
    BY <1>5, <1>0 DEF Unusable, Forget
  <1>6. CASE RecheckReturns(p)
    BY <1>6, <1>0 DEF RecheckReturns, Return, Forget
  <1>7. CASE WrongRun(p)
    BY <1>7, <1>0 DEF WrongRun, Return, Forget
  <1>8. CASE Execute(p)
    BY <1>8, <1>0 DEF Execute, Forget
  <1>9. CASE StopBeforeExecuting(p)
    BY <1>9, <1>0 DEF StopBeforeExecuting, SafeFinish, Forget, MayFinish
  <1>10. CASE ExecuteFails(p)
    BY <1>10, <1>0 DEF ExecuteFails, SafeFinish, Forget, MayFinish
  <1>11. CASE CancelReturns(p)
    BY <1>11, <1>0 DEF CancelReturns, SafeFinish, Forget, MayFinish
  <1>12. CASE DrainEnds(p)
    BY <1>12, <1>0 DEF DrainEnds, Return, Forget
  <1>13. CASE FinishReturns(p)
    BY <1>13, <1>0 DEF FinishReturns, Forget
  <1>14. CASE Beats(p)
    BY <1>14, <1>0 DEF Beats
  <1>15. CASE BeatReturns(p)
    BY <1>15, <1>0 DEF BeatReturns
  <1>16. CASE BeatRejected(p)
    BY <1>16, <1>0 DEF BeatRejected, Cancelled
  <1>17. ASSUME NEW v \in Report, ExecutionSettles(p, v) PROVE Kept(q)
    BY <1>17, <1>0 DEF ExecutionSettles, SafeFinish, Forget, MayFinish
  <1>18. CASE ExecutionWindsDown(p)
    BY <1>18, <1>0 DEF ExecutionWindsDown
  <1>19. CASE RequestStop(p)
    BY <1>19, <1>0 DEF RequestStop, Cancelled
  <1>20. CASE Crash(p)
    BY <1>20, <1>0 DEF Crash
  <1>21. CASE RailAnswersGet(p)
    BY <1>21, <1>0 DEF RailAnswersGet
  <1>22. CASE RailContinues(p)
    <2>1. PICK r \in Run : Grant(r, body[p], p)
      BY <1>22 DEF RailContinues
    <2>2. KeptRuns(q)
      BY <2>1, GrantKept
    <2> QED BY <1>22, <2>2 DEF RailContinues
  <1>23. CASE RailRefuses(p)
    BY <1>23, <1>0 DEF RailRefuses
  <1>24. CASE PostLost(p)
    BY <1>24, <1>0 DEF PostLost
  <1>25. CASE RailFinishes(p)
    BY <1>25, <1>0 DEF RailFinishes
  <1>26. CASE FinishRefused(p)
    BY <1>26, <1>0 DEF FinishRefused
  <1>27. CASE RailHeartbeat(p)
    BY <1>27, <1>0 DEF RailHeartbeat
  <1>28. CASE BeatLost(p)
    BY <1>28, <1>0 DEF BeatLost
  <1> QED
    BY <1>1, <1>2, <1>3, <1>4, <1>5, <1>6, <1>7, <1>8, <1>9, <1>10, <1>11, <1>12,
       <1>13, <1>14, <1>15, <1>16, <1>17, <1>18, <1>19, <1>20, <1>21, <1>22, <1>23,
       <1>24, <1>25, <1>26, <1>27, <1>28
    DEF Ask, TakeAnswer, Conclude, Supervise, RailServes

\* Time, the sweeper and the others on the cycle keep every process.
LEMMA ProcessesKept ==
  ASSUME IInv, NEW q \in Proc,
         \/ \E r \in Run : LeaseLapses(r) \/ Sweep(r) \/ OthersAct(r)
         \/ OthersContinue \/ CycleMoves \/ UNCHANGED vars
  PROVE  Kept(q)
  <1> USE DEF IInv, TypeOK, DataInv, Kept, KeptLocals, railVars, callVars, runVars
  <1>0. holder' = holder /\ born' = born => KeptRuns(q)
    BY DEF KeptRuns
  <1>1. ASSUME NEW r \in Run, LeaseLapses(r) PROVE Kept(q)
    BY <1>1, <1>0 DEF LeaseLapses
  <1>2. ASSUME NEW r \in Run, Sweep(r) PROVE Kept(q)
    BY <1>2, <1>0 DEF Sweep
  <1>3. ASSUME NEW r \in Run, OthersAct(r) PROVE Kept(q)
    BY <1>3, <1>0 DEF OthersAct
  <1>4. CASE OthersContinue
    <2>1. PICK r \in Run : Grant(r, Latest, Others)
      BY <1>4 DEF OthersContinue
    <2>2. KeptRuns(q)
      BY <2>1, GrantKept, Constants
    <2> QED BY <1>4, <2>2 DEF OthersContinue
  <1>5. CASE CycleMoves
    BY <1>5, <1>0 DEF CycleMoves
  <1>6. CASE UNCHANGED vars
    BY <1>6, <1>0 DEF vars
  <1> QED
    BY <1>1, <1>2, <1>3, <1>4, <1>5, <1>6

-----------------------------------------------------------------------------
(* Processes: what a step of one leaves of its own *)

\* A process asks only for what its own reading allows, with the Run it names.
LEMMA AskStep ==
  ASSUME IInv, NEW p \in Proc,
         \/ Ask(p) \/ TakeAnswer(p) \/ Conclude(p) \/ Supervise(p)
         \/ \E v \in Report : ExecutionSettles(p, v)
         \/ ExecutionWindsDown(p) \/ RequestStop(p) \/ Crash(p)
         \/ RailServes(p) \/ RailHeartbeat(p) \/ BeatLost(p)
  PROVE  AskInv(p)'
  <1> USE DEF IInv, TypeOK, DataInv, IProcs, railVars, callVars, runVars, AskInv
  <1>0. op'[p] = op[p] /\ detail'[p] = detail[p] =>
          \A late, l : Recoverable(p, late, l)' <=> Recoverable(p, late, l)
    BY RecoverableKept
  <1>1. CASE TicketReadFails(p)
    BY <1>1, <1>0 DEF TicketReadFails, Return, Forget
  <1>2. CASE Refuse(p)
    BY <1>2, <1>0 DEF Refuse, Return, Forget
  <1>3. CASE Post(p)
    BY <1>3, <1>0 DEF Post
  <1>4. CASE PostThrows(p)
    BY <1>4, <1>0 DEF PostThrows, Return, Forget
  <1>5. CASE Unusable(p)
    BY <1>5, <1>0 DEF Unusable, Forget
  <1>6. CASE RecheckReturns(p)
    BY <1>6, <1>0 DEF RecheckReturns, Return, Forget
  <1>7. CASE WrongRun(p)
    BY <1>7, <1>0 DEF WrongRun, Return, Forget
  <1>8. CASE Execute(p)
    BY <1>8, <1>0 DEF Execute, Forget
  <1>9. CASE StopBeforeExecuting(p)
    BY <1>9, <1>0 DEF StopBeforeExecuting, SafeFinish, Forget, MayFinish
  <1>10. CASE ExecuteFails(p)
    BY <1>10, <1>0 DEF ExecuteFails, SafeFinish, Forget, MayFinish
  <1>11. CASE CancelReturns(p)
    BY <1>11, <1>0 DEF CancelReturns, SafeFinish, Forget, MayFinish
  <1>12. CASE DrainEnds(p)
    BY <1>12, <1>0 DEF DrainEnds, Return, Forget
  <1>13. CASE FinishReturns(p)
    BY <1>13, <1>0 DEF FinishReturns, Forget
  <1>14. CASE Beats(p)
    BY <1>14, <1>0 DEF Beats
  <1>15. CASE BeatReturns(p)
    BY <1>15, <1>0 DEF BeatReturns
  <1>16. CASE BeatRejected(p)
    BY <1>16, <1>0 DEF BeatRejected, Cancelled
  <1>17. ASSUME NEW v \in Report, ExecutionSettles(p, v) PROVE AskInv(p)'
    BY <1>17, <1>0 DEF ExecutionSettles, SafeFinish, Forget, MayFinish
  <1>18. CASE ExecutionWindsDown(p)
    BY <1>18, <1>0 DEF ExecutionWindsDown
  <1>19. CASE RequestStop(p)
    BY <1>19, <1>0 DEF RequestStop, Cancelled
  <1>20. CASE Crash(p)
    BY <1>20, <1>0 DEF Crash
  <1>21. CASE RailAnswersGet(p)
    BY <1>21, <1>0 DEF RailAnswersGet
  <1>22. CASE RailContinues(p)
    BY <1>22, <1>0 DEF RailContinues, Grant
  <1>23. CASE RailRefuses(p)
    BY <1>23, <1>0 DEF RailRefuses
  <1>24. CASE PostLost(p)
    BY <1>24, <1>0 DEF PostLost
  <1>25. CASE RailFinishes(p)
    BY <1>25, <1>0 DEF RailFinishes
  <1>26. CASE FinishRefused(p)
    BY <1>26, <1>0 DEF FinishRefused
  <1>27. CASE RailHeartbeat(p)
    BY <1>27, <1>0 DEF RailHeartbeat
  <1>28. CASE BeatLost(p)
    BY <1>28, <1>0 DEF BeatLost
  <1> QED
    BY <1>1, <1>2, <1>3, <1>4, <1>5, <1>6, <1>7, <1>8, <1>9, <1>10, <1>11, <1>12,
       <1>13, <1>14, <1>15, <1>16, <1>17, <1>18, <1>19, <1>20, <1>21, <1>22, <1>23,
       <1>24, <1>25, <1>26, <1>27, <1>28
    DEF Ask, TakeAnswer, Conclude, Supervise, RailServes

\* At every await the Run of the process, its execution, its timer and its fence
\* agree.
LEMMA PhaseStep ==
  ASSUME IInv, NEW p \in Proc,
         \/ Ask(p) \/ TakeAnswer(p) \/ Conclude(p) \/ Supervise(p)
         \/ \E v \in Report : ExecutionSettles(p, v)
         \/ ExecutionWindsDown(p) \/ RequestStop(p) \/ Crash(p)
         \/ RailServes(p) \/ RailHeartbeat(p) \/ BeatLost(p)
  PROVE  PhaseInv(p)'
  <1> USE DEF IInv, TypeOK, DataInv, IProcs, railVars, callVars, runVars, PhaseInv,
              MayFinish
  <1>0. pc[p] = "post" /\ IsContinuation(p) =>
          /\ body[p] \in Run /\ answer[p].id # NoRun /\ answer[p].id # body[p]
          /\ run[p] = NoRun /\ exec[p] = "none" /\ ~timer[p] /\ beat[p] = "none"
          /\ ~fenced[p] /\ ~runFinished[p]
    BY DEF AskInv, IsContinuation
  <1>1. CASE TicketReadFails(p)
    BY <1>1 DEF TicketReadFails, Return, Forget
  <1>2. CASE Refuse(p)
    BY <1>2 DEF Refuse, Return, Forget
  <1>3. CASE Post(p)
    BY <1>3 DEF Post
  <1>4. CASE PostThrows(p)
    BY <1>4 DEF PostThrows, Return, Forget
  <1>5. CASE Unusable(p)
    BY <1>5 DEF Unusable, Forget
  <1>6. CASE RecheckReturns(p)
    BY <1>6 DEF RecheckReturns, Return, Forget
  <1>7. CASE WrongRun(p)
    BY <1>7 DEF WrongRun, Return, Forget
  <1>8. CASE Execute(p)
    <2>1. /\ run'[p] = answer[p].id /\ pc'[p] = "race" /\ exec'[p] = "running"
          /\ body' = body /\ UNCHANGED <<fenced, runFinished>>
      BY <1>8 DEF Execute, Forget
    <2> QED BY <1>0, <1>8, <2>1 DEF Execute
  <1>9. CASE StopBeforeExecuting(p)
    <2>1. pc[p] = "post" /\ IsContinuation(p) /\ MayFinish(p)
      BY <1>0, <1>9 DEF StopBeforeExecuting
    <2>2. /\ run'[p] = answer[p].id /\ pc'[p] = "finish" /\ runFinished'[p]
          /\ body' = body /\ UNCHANGED <<exec, timer, beat>>
      BY <1>9, <2>1 DEF StopBeforeExecuting, SafeFinish, Forget
    <2> QED BY <1>0, <2>1, <2>2
  <1>10. CASE ExecuteFails(p)
    <2>1. pc[p] = "post" /\ IsContinuation(p) /\ MayFinish(p)
      BY <1>0, <1>10 DEF ExecuteFails
    <2>2. /\ run'[p] = answer[p].id /\ pc'[p] = "finish" /\ runFinished'[p]
          /\ body' = body /\ UNCHANGED <<exec, timer, beat>>
      BY <1>10, <2>1 DEF ExecuteFails, SafeFinish, Forget
    <2> QED BY <1>0, <2>1, <2>2
  <1>11. CASE CancelReturns(p)
    BY <1>11 DEF CancelReturns, SafeFinish, Forget, MayFinish
  <1>12. CASE DrainEnds(p)
    BY <1>12 DEF DrainEnds, Return, Forget
  <1>13. CASE FinishReturns(p)
    BY <1>13 DEF FinishReturns, Forget
  <1>14. CASE Beats(p)
    BY <1>14 DEF Beats
  <1>15. CASE BeatReturns(p)
    BY <1>15 DEF BeatReturns
  <1>16. CASE BeatRejected(p)
    BY <1>16 DEF BeatRejected, Cancelled
  <1>17. ASSUME NEW v \in Report, ExecutionSettles(p, v) PROVE PhaseInv(p)'
    <2>1. v # "running"
      BY Constants
    <2>2. PhaseInv(p) /\ MayFinish(p) /\ run[p] # NoRun
      BY <1>17 DEF ExecutionSettles
    <2>3. /\ pc'[p] = "finish" /\ runFinished'[p] /\ exec'[p] = v
          /\ run' = run /\ body' = body
      BY <1>17, <2>2 DEF ExecutionSettles, SafeFinish, Forget
    <2> QED BY <2>1, <2>2, <2>3
  <1>18. CASE ExecutionWindsDown(p)
    BY <1>18 DEF ExecutionWindsDown
  <1>19. CASE RequestStop(p)
    BY <1>19 DEF RequestStop, Cancelled
  <1>20. CASE Crash(p)
    BY <1>20 DEF Crash
  <1>21. CASE RailAnswersGet(p)
    BY <1>21 DEF RailAnswersGet
  <1>22. CASE RailContinues(p)
    BY <1>22 DEF RailContinues, Grant
  <1>23. CASE RailRefuses(p)
    BY <1>23 DEF RailRefuses
  <1>24. CASE PostLost(p)
    BY <1>24 DEF PostLost
  <1>25. CASE RailFinishes(p)
    BY <1>25 DEF RailFinishes
  <1>26. CASE FinishRefused(p)
    BY <1>26 DEF FinishRefused
  <1>27. CASE RailHeartbeat(p)
    BY <1>27 DEF RailHeartbeat
  <1>28. CASE BeatLost(p)
    BY <1>28 DEF BeatLost
  <1> QED
    BY <1>1, <1>2, <1>3, <1>4, <1>5, <1>6, <1>7, <1>8, <1>9, <1>10, <1>11, <1>12,
       <1>13, <1>14, <1>15, <1>16, <1>17, <1>18, <1>19, <1>20, <1>21, <1>22, <1>23,
       <1>24, <1>25, <1>26, <1>27, <1>28
    DEF Ask, TakeAnswer, Conclude, Supervise, RailServes

\* The outcome a process ends its Run with is what its execution reported, or one
\* that needs no report.
LEMMA EndStep ==
  ASSUME IInv, NEW p \in Proc,
         \/ Ask(p) \/ TakeAnswer(p) \/ Conclude(p) \/ Supervise(p)
         \/ \E v \in Report : ExecutionSettles(p, v)
         \/ ExecutionWindsDown(p) \/ RequestStop(p) \/ Crash(p)
         \/ RailServes(p) \/ RailHeartbeat(p) \/ BeatLost(p)
  PROVE  EndInv(p)'
  <1> USE DEF IInv, TypeOK, DataInv, IProcs, railVars, callVars, runVars, PhaseInv,
              EndInv, MayFinish
  <1>1. CASE TicketReadFails(p)
    BY <1>1 DEF TicketReadFails, Return, Forget
  <1>2. CASE Refuse(p)
    BY <1>2 DEF Refuse, Return, Forget
  <1>3. CASE Post(p)
    BY <1>3 DEF Post
  <1>4. CASE PostThrows(p)
    BY <1>4 DEF PostThrows, Return, Forget
  <1>5. CASE Unusable(p)
    BY <1>5 DEF Unusable, Forget
  <1>6. CASE RecheckReturns(p)
    BY <1>6 DEF RecheckReturns, Return, Forget
  <1>7. CASE WrongRun(p)
    BY <1>7 DEF WrongRun, Return, Forget
  <1>8. CASE Execute(p)
    BY <1>8 DEF Execute, Forget
  <1>9. CASE StopBeforeExecuting(p)
    BY <1>9 DEF StopBeforeExecuting, SafeFinish, Forget, MayFinish, Verdict, RunOutcome
  <1>10. CASE ExecuteFails(p)
    BY <1>10 DEF ExecuteFails, SafeFinish, Forget, MayFinish, Verdict, RunOutcome
  <1>11. CASE CancelReturns(p)
    BY <1>11 DEF CancelReturns, SafeFinish, Forget, MayFinish, Verdict, RunOutcome
  <1>12. CASE DrainEnds(p)
    BY <1>12 DEF DrainEnds, Return, Forget
  <1>13. CASE FinishReturns(p)
    BY <1>13 DEF FinishReturns, Forget
  <1>14. CASE Beats(p)
    BY <1>14 DEF Beats
  <1>15. CASE BeatReturns(p)
    BY <1>15 DEF BeatReturns
  <1>16. CASE BeatRejected(p)
    BY <1>16 DEF BeatRejected, Cancelled
  <1>17. ASSUME NEW v \in Report, ExecutionSettles(p, v) PROVE EndInv(p)'
    BY <1>17, Constants
    DEF ExecutionSettles, SafeFinish, Forget, MayFinish, Verdict, RunOutcome
  <1>18. CASE ExecutionWindsDown(p)
    BY <1>18 DEF ExecutionWindsDown, Verdict, RunOutcome
  <1>19. CASE RequestStop(p)
    BY <1>19 DEF RequestStop, Cancelled
  <1>20. CASE Crash(p)
    BY <1>20 DEF Crash
  <1>21. CASE RailAnswersGet(p)
    BY <1>21 DEF RailAnswersGet
  <1>22. CASE RailContinues(p)
    BY <1>22 DEF RailContinues, Grant
  <1>23. CASE RailRefuses(p)
    BY <1>23 DEF RailRefuses
  <1>24. CASE PostLost(p)
    BY <1>24 DEF PostLost
  <1>25. CASE RailFinishes(p)
    BY <1>25 DEF RailFinishes
  <1>26. CASE FinishRefused(p)
    BY <1>26 DEF FinishRefused
  <1>27. CASE RailHeartbeat(p)
    BY <1>27 DEF RailHeartbeat
  <1>28. CASE BeatLost(p)
    BY <1>28 DEF BeatLost
  <1> QED
    BY <1>1, <1>2, <1>3, <1>4, <1>5, <1>6, <1>7, <1>8, <1>9, <1>10, <1>11, <1>12,
       <1>13, <1>14, <1>15, <1>16, <1>17, <1>18, <1>19, <1>20, <1>21, <1>22, <1>23,
       <1>24, <1>25, <1>26, <1>27, <1>28
    DEF Ask, TakeAnswer, Conclude, Supervise, RailServes

\* A grant is worded as "2xx", with the state of the cycle if Rail echoes it,
\* whatever Runs it names; or it is lost.
LEMMA OfferedAnswers ==
  ASSUME NEW a \in Handoffs \cup {[NoAnswer EXCEPT !.status = "lost"]}
  PROVE  /\ a.status \in {"2xx", "lost"}
         /\ a.status = "2xx" /\ EchoesState => a.cycle = cycle
  BY DEF Handoffs, NoAnswer

\* A process starts from the state the cycle was in when Rail made it a Run.
LEMMA GrantStep ==
  ASSUME IInv, NEW p \in Proc,
         \/ Ask(p) \/ TakeAnswer(p) \/ Conclude(p) \/ Supervise(p)
         \/ \E v \in Report : ExecutionSettles(p, v)
         \/ ExecutionWindsDown(p) \/ RequestStop(p) \/ Crash(p)
         \/ RailServes(p) \/ RailHeartbeat(p) \/ BeatLost(p)
  PROVE  GrantInv(p)'
  <1> USE DEF IInv, TypeOK, DataInv, IProcs, railVars, callVars, runVars, GrantInv,
              NoGrant, IsContinuation
  <1>1. CASE TicketReadFails(p)
    BY <1>1 DEF TicketReadFails, Return, Forget
  <1>2. CASE Refuse(p)
    BY <1>2 DEF Refuse, Return, Forget
  <1>3. CASE Post(p)
    <2>1. answer[p].status = "none"
      BY <1>3 DEF Post, AskInv, NoAnswer
    <2> QED BY <1>3, <2>1 DEF Post
  <1>4. CASE PostThrows(p)
    BY <1>4 DEF PostThrows, Return, Forget, NoOpCodes, Stopped, Recovered
  <1>5. CASE Unusable(p)
    BY <1>5 DEF Unusable, Forget
  <1>6. CASE RecheckReturns(p)
    BY <1>6 DEF RecheckReturns, Return, Forget, NoOpCodes, Stopped, Recovered
  <1>7. CASE WrongRun(p)
    BY <1>7 DEF WrongRun, Return, Forget, NoOpCodes
  <1>8. CASE Execute(p)
    <2>1. PreservedCycleState(p) = answer[p].cycle \/ ~EchoesState
      BY <1>8 DEF Execute, PreservedCycleState
    <2>2. result[p].code \notin NoOpCodes
      BY <1>8 DEF Execute
    <2> QED BY <1>8, <2>1, <2>2 DEF Execute, Forget
  <1>9. CASE StopBeforeExecuting(p)
    <2>1. run[p] = NoRun /\ start[p] = Nothing
      BY <1>9 DEF StopBeforeExecuting, PhaseInv
    <2>2. result'[p].code \notin NoOpCodes
      BY <1>9 DEF StopBeforeExecuting, SafeFinish, Stopped, NoOpCodes
    <2> QED BY <1>9, <2>1, <2>2 DEF StopBeforeExecuting, SafeFinish, Forget
  <1>10. CASE ExecuteFails(p)
    <2>1. run[p] = NoRun /\ start[p] = Nothing
      BY <1>10 DEF ExecuteFails, PhaseInv
    <2>2. result'[p].code \notin NoOpCodes
      BY <1>10 DEF ExecuteFails, SafeFinish, Recovered, NoOpCodes
    <2> QED BY <1>10, <2>1, <2>2 DEF ExecuteFails, SafeFinish, Forget
  <1>11. CASE CancelReturns(p)
    BY <1>11
    DEF CancelReturns, SafeFinish, Forget, MayFinish, NoOpCodes, Stopped, Recovered
  <1>12. CASE DrainEnds(p)
    BY <1>12 DEF DrainEnds, Return, Forget, NoOpCodes, Stopped, Recovered
  <1>13. CASE FinishReturns(p)
    BY <1>13 DEF FinishReturns, Forget
  <1>14. CASE Beats(p)
    BY <1>14 DEF Beats
  <1>15. CASE BeatReturns(p)
    BY <1>15 DEF BeatReturns
  <1>16. CASE BeatRejected(p)
    BY <1>16 DEF BeatRejected, Cancelled
  <1>17. ASSUME NEW v \in Report, ExecutionSettles(p, v) PROVE GrantInv(p)'
    BY <1>17
    DEF ExecutionSettles, SafeFinish, Forget, MayFinish, NoOpCodes, Stopped, Recovered
  <1>18. CASE ExecutionWindsDown(p)
    BY <1>18 DEF ExecutionWindsDown
  <1>19. CASE RequestStop(p)
    BY <1>19 DEF RequestStop, Cancelled
  <1>20. CASE Crash(p)
    <2>1. pc[p] # "exited"
      BY <1>20 DEF Crash, Alive, Awaiting
    <2> QED BY <1>20, <2>1 DEF Crash
  <1>21. CASE RailAnswersGet(p)
    BY <1>21 DEF RailAnswersGet
  <1>22. CASE RailContinues(p)
    <2>1. PICK r \in Run : Grant(r, body[p], p)
      BY <1>22 DEF RailContinues
    <2>2. PICK a \in Handoffs \cup {[NoAnswer EXCEPT !.status = "lost"]} :
            answer' = [answer EXCEPT ![p] = a]
      BY <1>22 DEF RailContinues
    <2>3. answer'[p] = a
      BY <2>2
    <2>4. a.status \in {"2xx", "lost"} /\ (a.status = "2xx" /\ EchoesState => a.cycle = cycle)
      BY OfferedAnswers
    <2>5. /\ pc[p] = "post" /\ pc'[p] = "post" /\ answer[p].status = "none"
          /\ UNCHANGED <<result, run, start>>
      BY <1>22 DEF RailContinues
    <2>6. \A x \in Run : holder'[x] = p => x = r
      BY <2>1, <2>5 DEF Grant
    <2>7. born'[r] = cycle /\ cycle # Nothing
      <3>1. born' = [born EXCEPT ![r] = cycle] /\ born \in [Run -> CycleState \cup {Nothing}]
        BY <2>1 DEF Grant
      <3>2. cycle # Nothing
        BY Constants DEF Nothing
      <3> QED BY <3>1, <3>2
    <2>8. run[p] = NoRun /\ start[p] = Nothing
      BY <2>5 DEF PhaseInv
    <2>9. result[p].code \notin NoOpCodes
      BY <2>5
    <2> QED BY <2>3, <2>4, <2>5, <2>6, <2>7, <2>8, <2>9
  <1>23. CASE RailRefuses(p)
    BY <1>23 DEF RailRefuses
  <1>24. CASE PostLost(p)
    BY <1>24 DEF PostLost
  <1>25. CASE RailFinishes(p)
    BY <1>25 DEF RailFinishes
  <1>26. CASE FinishRefused(p)
    BY <1>26 DEF FinishRefused
  <1>27. CASE RailHeartbeat(p)
    BY <1>27 DEF RailHeartbeat
  <1>28. CASE BeatLost(p)
    BY <1>28 DEF BeatLost
  <1> QED
    BY <1>1, <1>2, <1>3, <1>4, <1>5, <1>6, <1>7, <1>8, <1>9, <1>10, <1>11, <1>12,
       <1>13, <1>14, <1>15, <1>16, <1>17, <1>18, <1>19, <1>20, <1>21, <1>22, <1>23,
       <1>24, <1>25, <1>26, <1>27, <1>28
    DEF Ask, TakeAnswer, Conclude, Supervise, RailServes

-----------------------------------------------------------------------------
(* The inductive invariant holds, and the safety properties follow *)

\* Every step keeps what the processes know and hold.
LEMMA ProcsStep ==
  ASSUME IInv, [Next]_vars
  PROVE  IProcs'
  <1> SUFFICES ASSUME NEW q \in Proc
               PROVE  (AskInv(q) /\ GrantInv(q) /\ PhaseInv(q) /\ EndInv(q))'
    BY DEF IProcs
  <1>1. ASSUME NEW p \in Proc,
               \/ Ask(p) \/ TakeAnswer(p) \/ Conclude(p) \/ Supervise(p)
               \/ \E v \in Report : ExecutionSettles(p, v)
               \/ ExecutionWindsDown(p) \/ RequestStop(p) \/ Crash(p)
               \/ RailServes(p) \/ RailHeartbeat(p) \/ BeatLost(p)
        PROVE  (AskInv(q) /\ GrantInv(q) /\ PhaseInv(q) /\ EndInv(q))'
    <2>1. CASE q = p
      <3>1. (AskInv(p) /\ GrantInv(p) /\ PhaseInv(p) /\ EndInv(p))'
        BY <1>1, AskStep, GrantStep, PhaseStep, EndStep
      <3> QED BY <2>1, <3>1
    <2>2. CASE q # p
      BY <1>1, <2>2, OthersKept, KeptInvariant
    <2> QED BY <2>1, <2>2
  <1>2. CASE \/ \E r \in Run : LeaseLapses(r) \/ Sweep(r) \/ OthersAct(r)
             \/ OthersContinue \/ CycleMoves \/ UNCHANGED vars
    BY <1>2, ProcessesKept, KeptInvariant
  <1> QED BY <1>1, <1>2 DEF Next

\* A program that starts satisfies the invariant.
LEMMA Initially == Init => IInv
  <1> SUFFICES ASSUME Init PROVE IInv
    OBVIOUS
  <1> USE DEF Init
  <1>1. TypeOK
    <2>1. /\ cycle \in CycleState /\ blocked \in BOOLEAN
          /\ history \in Seq(Run) /\ Len(history) > 0
          /\ op \in [Proc -> {"resume", "recover"}]
      BY Constants
    <2>2. rail \in [Run -> RunState]
      BY Constants DEF RunState, RunOutcome
    <2>3. lapsed \in [Run -> BOOLEAN]
      OBVIOUS
    <2>4. /\ holder \in [Run -> Proc \cup {Others, Nothing}]
          /\ born \in [Run -> CycleState \cup {Nothing}]
      OBVIOUS
    <2>5. /\ pc \in [Proc -> Awaiting \cup Ended] /\ body \in [Proc -> Run \cup {NoRun}]
          /\ run \in [Proc -> Run \cup {NoRun}] /\ start \in [Proc -> CycleState \cup {Nothing}]
          /\ closing \in [Proc -> RunOutcome \cup {"none"}]
          /\ beat \in [Proc -> {"none", "sent", "ok", "rejected", "transient"}]
          /\ exec \in [Proc -> ExecState]
      BY DEF Awaiting, ExecState
    <2>6. /\ stopRequested \in [Proc -> BOOLEAN] /\ fenced \in [Proc -> BOOLEAN]
          /\ runFinished \in [Proc -> BOOLEAN] /\ timer \in [Proc -> BOOLEAN]
      OBVIOUS
    <2>7. \A p \in Proc : ExitCode(result[p]) \in 0 .. 2
      BY ExitCodes
    <2>8. \A p \in Proc :
            /\ answer[p].status \in {"none", "2xx", "absent", "conflict", "rejected", "lost",
                                     "ok", "fail"}
            /\ answer[p].id \in Run \cup {NoRun} /\ answer[p].from \in Run \cup {NoRun}
      BY DEF NoAnswer
    <2> QED BY <2>1, <2>2, <2>3, <2>4, <2>5, <2>6, <2>7, <2>8 DEF TypeOK
  <1>2. DataInv
    BY Nothings DEF DataInv
  <1>3. RailInv
    <2>1. \A r \in Run : IsEarlier(r) => rail[r] # "NONE" /\ holder[r] = Others
      BY Constants
    <2>2. \A r \in Run : ~IsEarlier(r) => r # Latest
      BY Constants DEF IsEarlier, Latest
    <2>3. \A i \in 1 .. Len(history) : IsEarlier(history[i]) /\ history[i] \in Run
      BY Constants DEF IsEarlier
    <2>4. Others # Nothing
      BY Constants DEF Nothing
    <2>5. \A r \in Run : ~IsEarlier(r) => rail[r] = "NONE" /\ holder[r] = Nothing
      BY <2>2
    <2>6. \A i \in 1 .. Len(history) : StartedAt[history[i]] <= StartedAt[Latest]
      BY Constants DEF Latest
    <2>7. \A r \in Run : rail[r] = "OPEN" => r = Latest
      OBVIOUS
    <2> QED BY <2>1, <2>3, <2>4, <2>5, <2>6, <2>7 DEF RailInv
  <1>4. IProcs
    <2> SUFFICES ASSUME NEW p \in Proc
                 PROVE  AskInv(p) /\ GrantInv(p) /\ PhaseInv(p) /\ EndInv(p)
      BY DEF IProcs
    <2>1. NoGrant(p)
      BY Constants DEF NoGrant, Nothing
    <2>2. result[p].code \notin NoOpCodes
      BY DEF NoResult, NoOpCodes
    <2>3. AskInv(p)
      BY DEF AskInv
    <2>4. GrantInv(p)
      BY <2>1, <2>2 DEF GrantInv
    <2>5. PhaseInv(p)
      BY DEF PhaseInv
    <2>6. EndInv(p)
      BY DEF EndInv
    <2> QED BY <2>3, <2>4, <2>5, <2>6
  <1> QED BY <1>1, <1>2, <1>3, <1>4 DEF IInv

\* The invariant holds of every state: what a process knows and holds, and how
\* far it is, always fit what Rail has.
THEOREM Invariance == Spec => []IInv
  <1>1. IInv /\ [Next]_vars => IInv'
    BY DataStep, TypeStep, RailStep, ProcsStep DEF IInv
  <1> QED BY Initially, <1>1, PTL DEF Spec

\* Rail, the messages and the state of every process keep their types, and
\* cli.js exits with 0, 1 or 2.
THEOREM Typing == Spec => []TypeOK
  BY Invariance, PTL DEF IInv

\* "exit 2: a fail-closed no-op (nothing mutated)": a process that exits 2 was
\* granted no Run, whatever was refused, lost or malformed on the way.
THEOREM NoOpLeavesNoRun == Spec => []ExitTwoMutatesNothing
  <1>1. IInv => ExitTwoMutatesNothing
    <2> SUFFICES ASSUME IInv, NEW p \in Proc, ExitCode(result[p]) = 2
                 PROVE  NoGrant(p)
      BY DEF ExitTwoMutatesNothing, NoGrant
    <2>1. result[p].code \in NoOpCodes
      BY DEF ExitCode
    <2> QED BY <2>1 DEF IInv, IProcs, GrantInv
  <1> QED BY Invariance, <1>1, PTL

\* "The cycle state is PRESERVED EXACTLY", however stale the preflight's reading:
\* if Rail's answer carries the state, the execution starts where the cycle was
\* when Rail made the Run.
THEOREM StaleReadIsNotUsed == EchoesState => (Spec => []StartsWhereRailIs)
  <1> SUFFICES ASSUME EchoesState PROVE Spec => []StartsWhereRailIs
    OBVIOUS
  <1>1. IInv => StartsWhereRailIs
    BY DEF IInv, IProcs, GrantInv, StartsWhereRailIs
  <1> QED BY Invariance, <1>1, PTL

\* A process that returned has cancelled its execution and has tried to finish
\* its Run, unless it was fenced out of it.
THEOREM ReturnLeavesNothing == Spec => []LeavesNothingBehind
  <1>1. IInv => LeavesNothingBehind
    BY DEF IInv, IProcs, PhaseInv, LeavesNothingBehind
  <1> QED BY Invariance, <1>1, PTL

-----------------------------------------------------------------------------
(* The action properties *)

\* The mirror: what the preflight lets through, Rail accepts if nothing has changed
\* since it was read, Rail too has the lease expired, and no tie was broken.
LEMMA PreflightIsExact ==
  ASSUME IInv, NEW p \in Proc, pc[p] = "post", Unchanged(p),
         ~LeaseLive(body[p]), ~Tied(body[p], Latest)
  PROVE  Acceptable(op[p], body[p])
  <1> DEFINE d == detail[p]
             l == body[p]
  <1>1. PICK late \in BOOLEAN : Recoverable(p, late, l)
    BY DEF IInv, IProcs, AskInv
  <1>2. d \in Details /\ l \in Run /\ Latest \in Run
    BY DEF IInv, IProcs, AskInv, TypeOK, Latest
  <1>3. d.cycle = cycle /\ d.blocked = blocked /\ d.runs = CycleRuns /\ d.rail = rail
    BY DEF Unchanged
  <1>4. op[p] \in {"resume", "recover"} /\ ~LeaseLive(l) /\ ~Tied(l, Latest)
    BY DEF IInv, TypeOK
  <1>5. \/ op[p] = "resume" /\ ResumeTarget(d, late, l)
        \/ op[p] = "recover" /\ RecoveryTarget(d, late, l)
    BY <1>1 DEF Recoverable
  <1> HIDE DEF d, l
  <1>6. l = Latest
    <2>1. CASE d.active # NoRun
      <3>1. l = d.active
        BY <1>5, <2>1 DEF ResumeTarget, RecoveryTarget
      <3>2. rail[l] = "OPEN"
        BY <1>2, <1>3, <2>1, <3>1 DEF Details
      <3> QED BY <1>2, <3>2 DEF IInv, RailInv
    <2>2. CASE d.active = NoRun
      <3>1. l \in PickLastRun(d.runs)
        BY <1>5, <2>2 DEF ResumeTarget, RecoveryTarget
      <3>2. Latest \in CycleRuns
        BY DEF IInv, TypeOK, Latest, CycleRuns
      <3>3. l = Latest \/ Newer(l, Latest)
        BY <1>3, <3>1, <3>2 DEF PickLastRun
      <3>4. StartedAt[l] <= StartedAt[Latest]
        BY <1>3, <3>1 DEF PickLastRun, CycleRuns, IInv, RailInv, TypeOK
      <3>5. StartedAt[l] \in Nat /\ StartedAt[Latest] \in Nat
        BY <1>2, Constants
      <3> QED BY <1>4, <3>3, <3>4, <3>5 DEF Newer, Tied
    <2> QED BY <2>1, <2>2
  <1>7. d.active # NoRun => l = d.active /\ rail[l] = "OPEN"
    BY <1>2, <1>3, <1>5 DEF Details, ResumeTarget, RecoveryTarget
  <1>8. CASE op[p] = "resume" /\ ResumeTarget(d, late, l)
    BY <1>3, <1>4, <1>6, <1>8 DEF ResumeTarget, Acceptable, l
  <1>9. CASE op[p] = "recover" /\ RecoveryTarget(d, late, l)
    BY <1>3, <1>4, <1>6, <1>7, <1>9 DEF RecoveryTarget, Acceptable, l
  <1> QED BY <1>5, <1>8, <1>9

\* So Rail refuses a POST only if it has one of the three excuses.
Excused(p) == ~Unchanged(p) \/ LeaseLive(body[p]) \/ Tied(body[p], Latest)

LEMMA OnlyAChangeIsRefused ==
  ASSUME IInv, NEW p \in Proc,
         \/ Ask(p) \/ TakeAnswer(p) \/ Conclude(p) \/ Supervise(p)
         \/ \E v \in Report : ExecutionSettles(p, v)
         \/ ExecutionWindsDown(p) \/ RequestStop(p) \/ Crash(p)
         \/ RailServes(p) \/ RailHeartbeat(p) \/ BeatLost(p)
  PROVE  Refused(p) => Excused(p)
  <1> USE DEF IInv, TypeOK, DataInv, IProcs, PhaseInv, railVars, callVars, runVars,
              Refused
  <1>1. CASE TicketReadFails(p)
    BY <1>1, Nothings DEF TicketReadFails, Return, Forget, NoAnswer
  <1>2. CASE Refuse(p)
    BY <1>2, Nothings DEF Refuse, Return, Forget, NoAnswer
  <1>3. CASE Post(p)
    BY <1>3, Nothings DEF Post, NoAnswer
  <1>4. CASE PostThrows(p)
    BY <1>4, Nothings DEF PostThrows, Return, Forget, NoAnswer
  <1>5. CASE Unusable(p)
    BY <1>5, Nothings DEF Unusable, Forget, NoAnswer
  <1>6. CASE RecheckReturns(p)
    BY <1>6, Nothings DEF RecheckReturns, Return, Forget, NoAnswer
  <1>7. CASE WrongRun(p)
    BY <1>7, Nothings DEF WrongRun, Return, Forget, NoAnswer
  <1>8. CASE Execute(p)
    BY <1>8, Nothings DEF Execute, Forget, NoAnswer
  <1>9. CASE StopBeforeExecuting(p)
    BY <1>9, Nothings DEF StopBeforeExecuting, SafeFinish, Forget, MayFinish, NoAnswer
  <1>10. CASE ExecuteFails(p)
    BY <1>10, Nothings DEF ExecuteFails, SafeFinish, Forget, MayFinish, NoAnswer
  <1>11. CASE CancelReturns(p)
    BY <1>11, Nothings DEF CancelReturns, SafeFinish, Forget, MayFinish, NoAnswer
  <1>12. CASE DrainEnds(p)
    BY <1>12, Nothings DEF DrainEnds, Return, Forget, NoAnswer
  <1>13. CASE FinishReturns(p)
    BY <1>13, Nothings DEF FinishReturns, Forget, NoAnswer
  <1>14. CASE Beats(p)
    BY <1>14, Nothings DEF Beats, NoAnswer
  <1>15. CASE BeatReturns(p)
    BY <1>15, Nothings DEF BeatReturns, NoAnswer
  <1>16. CASE BeatRejected(p)
    BY <1>16, Nothings DEF BeatRejected, Cancelled, NoAnswer
  <1>17. ASSUME NEW v \in Report, ExecutionSettles(p, v) PROVE Refused(p) => Excused(p)
    BY <1>17, Nothings DEF ExecutionSettles, SafeFinish, Forget, MayFinish, NoAnswer
  <1>18. CASE ExecutionWindsDown(p)
    BY <1>18, Nothings DEF ExecutionWindsDown, NoAnswer
  <1>19. CASE RequestStop(p)
    BY <1>19, Nothings DEF RequestStop, Cancelled, NoAnswer
  <1>20. CASE Crash(p)
    BY <1>20, Nothings DEF Crash, NoAnswer
  <1>21. CASE RailAnswersGet(p)
    BY <1>21, Nothings DEF RailAnswersGet, NoAnswer
  <1>22. CASE RailContinues(p)
    <2>1. PICK a \in Handoffs \cup {[NoAnswer EXCEPT !.status = "lost"]} :
            answer' = [answer EXCEPT ![p] = a]
      BY <1>22 DEF RailContinues
    <2>2. answer'[p].status \in {"2xx", "lost"}
      BY <2>1, OfferedAnswers
    <2> QED BY <2>2
  <1>23. CASE RailRefuses(p)
    <2>1. pc[p] = "post" /\ ~Acceptable(op[p], body[p])
      BY <1>23 DEF RailRefuses
    <2> QED BY <2>1, PreflightIsExact DEF Excused
  <1>24. CASE PostLost(p)
    BY <1>24, Nothings DEF PostLost, NoAnswer
  <1>25. CASE RailFinishes(p)
    BY <1>25, Nothings DEF RailFinishes, NoAnswer
  <1>26. CASE FinishRefused(p)
    BY <1>26, Nothings DEF FinishRefused, NoAnswer
  <1>27. CASE RailHeartbeat(p)
    BY <1>27, Nothings DEF RailHeartbeat, NoAnswer
  <1>28. CASE BeatLost(p)
    BY <1>28, Nothings DEF BeatLost, NoAnswer
  <1> QED
    BY <1>1, <1>2, <1>3, <1>4, <1>5, <1>6, <1>7, <1>8, <1>9, <1>10, <1>11, <1>12,
       <1>13, <1>14, <1>15, <1>16, <1>17, <1>18, <1>19, <1>20, <1>21, <1>22, <1>23,
       <1>24, <1>25, <1>26, <1>27, <1>28
    DEF Ask, TakeAnswer, Conclude, Supervise, RailServes

\* A process starts a heartbeat or a finishRun only for a Run other than the one it
\* continues, that it was not fenced out of and has not finished.
NewRunWritten(p) ==
  Writes(p) => /\ body'[p] \in Run /\ run'[p] \in Run \ {body'[p]}
               /\ ~fenced[p] /\ ~runFinished[p]

LEMMA OnlyNewRunWritten ==
  ASSUME IInv, NEW p \in Proc,
         \/ Ask(p) \/ TakeAnswer(p) \/ Conclude(p) \/ Supervise(p)
         \/ \E v \in Report : ExecutionSettles(p, v)
         \/ ExecutionWindsDown(p) \/ RequestStop(p) \/ Crash(p)
         \/ RailServes(p) \/ RailHeartbeat(p) \/ BeatLost(p)
  PROVE  NewRunWritten(p)
  <1> USE DEF IInv, TypeOK, DataInv, IProcs, PhaseInv, railVars, callVars, runVars,
              Writes, NewRunWritten
  <1>1. CASE TicketReadFails(p)
    BY <1>1 DEF TicketReadFails, Return, Forget
  <1>2. CASE Refuse(p)
    BY <1>2 DEF Refuse, Return, Forget
  <1>3. CASE Post(p)
    BY <1>3 DEF Post
  <1>4. CASE PostThrows(p)
    BY <1>4 DEF PostThrows, Return, Forget
  <1>5. CASE Unusable(p)
    BY <1>5 DEF Unusable, Forget
  <1>6. CASE RecheckReturns(p)
    BY <1>6 DEF RecheckReturns, Return, Forget
  <1>7. CASE WrongRun(p)
    BY <1>7 DEF WrongRun, Return, Forget
  <1>8. CASE Execute(p)
    BY <1>8 DEF Execute, Forget
  <1>9. CASE StopBeforeExecuting(p)
    BY <1>9 DEF StopBeforeExecuting, SafeFinish, Forget, MayFinish, IsContinuation, AskInv
  <1>10. CASE ExecuteFails(p)
    BY <1>10 DEF ExecuteFails, SafeFinish, Forget, MayFinish, IsContinuation, AskInv
  <1>11. CASE CancelReturns(p)
    BY <1>11 DEF CancelReturns, SafeFinish, Forget, MayFinish
  <1>12. CASE DrainEnds(p)
    BY <1>12 DEF DrainEnds, Return, Forget
  <1>13. CASE FinishReturns(p)
    BY <1>13 DEF FinishReturns, Forget
  <1>14. CASE Beats(p)
    BY <1>14 DEF Beats
  <1>15. CASE BeatReturns(p)
    BY <1>15 DEF BeatReturns
  <1>16. CASE BeatRejected(p)
    BY <1>16 DEF BeatRejected, Cancelled
  <1>17. ASSUME NEW v \in Report, ExecutionSettles(p, v) PROVE NewRunWritten(p)
    BY <1>17 DEF ExecutionSettles, SafeFinish, Forget, MayFinish
  <1>18. CASE ExecutionWindsDown(p)
    BY <1>18 DEF ExecutionWindsDown
  <1>19. CASE RequestStop(p)
    BY <1>19 DEF RequestStop, Cancelled
  <1>20. CASE Crash(p)
    BY <1>20 DEF Crash
  <1>21. CASE RailAnswersGet(p)
    BY <1>21 DEF RailAnswersGet
  <1>22. CASE RailContinues(p)
    BY <1>22 DEF RailContinues, Grant
  <1>23. CASE RailRefuses(p)
    BY <1>23 DEF RailRefuses
  <1>24. CASE PostLost(p)
    BY <1>24 DEF PostLost
  <1>25. CASE RailFinishes(p)
    BY <1>25 DEF RailFinishes
  <1>26. CASE FinishRefused(p)
    BY <1>26 DEF FinishRefused
  <1>27. CASE RailHeartbeat(p)
    BY <1>27 DEF RailHeartbeat
  <1>28. CASE BeatLost(p)
    BY <1>28 DEF BeatLost
  <1> QED
    BY <1>1, <1>2, <1>3, <1>4, <1>5, <1>6, <1>7, <1>8, <1>9, <1>10, <1>11, <1>12,
       <1>13, <1>14, <1>15, <1>16, <1>17, <1>18, <1>19, <1>20, <1>21, <1>22, <1>23,
       <1>24, <1>25, <1>26, <1>27, <1>28
    DEF Ask, TakeAnswer, Conclude, Supervise, RailServes

\* The preflight mirrors Rail's own rules, up to the clocks and to Runs that share a
\* startedAt: unless one of these intervenes, Rail refuses a POST only if something
\* changed since the preflight's read.
THEOREM PreflightMirrors == Spec => PreflightMirrorsRail
  <1>1. IInv /\ [Next]_vars => [\A p \in Proc : Refused(p) => Excused(p)]_vars
    <2> SUFFICES ASSUME IInv, Next, NEW q \in Proc PROVE Refused(q) => Excused(q)
      OBVIOUS
    <2>1. Kept(q) => ~Refused(q)
      BY DEF Kept, KeptLocals, Refused
    <2> QED BY <2>1, OnlyAChangeIsRefused, OthersKept, ProcessesKept DEF Next
  <1> QED BY <1>1, Invariance, PTL DEF Spec, PreflightMirrorsRail, Excused

\* "The previous Run is never finished": whatever Runs Rail's answer named, a
\* process heartbeats or finishes neither the Run it continued, nor one it was
\* fenced out of or has finished already.
THEOREM OldRunsAreUntouched == Spec => OldRunUntouched
  <1>1. IInv /\ [Next]_vars => [\A p \in Proc : NewRunWritten(p)]_vars
    <2> SUFFICES ASSUME IInv, Next, NEW q \in Proc PROVE NewRunWritten(q)
      OBVIOUS
    <2>1. Kept(q) => ~Writes(q)
      BY DEF Kept, KeptLocals, Writes
    <2> QED BY <2>1, OnlyNewRunWritten, OthersKept, ProcessesKept DEF Next, NewRunWritten
  <1> QED BY <1>1, Invariance, PTL DEF Spec, OldRunUntouched, NewRunWritten

-----------------------------------------------------------------------------
(* A continuation keeps RunLifecycle *)

\* What the execution of a Run reported, told by the holder of the Run.
Told == [r \in Run |-> IF /\ holder[r] \in Proc /\ run[holder[r]] = r
                          /\ exec[holder[r]] \in Verdict
                       THEN exec[holder[r]] ELSE "none"]
ToldByHolder == Verdicts = Told

\* What counts as the verdict of a Run is its holder's.
LEMMA HolderDrives == IInv => ToldByHolder
  <1> SUFFICES ASSUME IInv, NEW r \in Run PROVE Verdicts[r] = Told[r]
    BY DEF ToldByHolder, Verdicts, Told
  <1>1. \A p \in Driven(r) : p \in Proc /\ holder[r] = p /\ run[p] = r /\ exec[p] \in Verdict
    BY DEF Driven
  <1>2. CASE Driven(r) = {}
    BY <1>2 DEF Driven, Verdicts, Told
  <1>3. CASE Driven(r) # {}
    <2>1. (CHOOSE p \in Driven(r) : TRUE) \in Driven(r)
      BY <1>3
    <2> HIDE DEF Driven
    <2> QED BY <1>1, <1>3, <2>1 DEF Verdicts, Told
  <1> QED BY <1>2, <1>3

JInv == IInv /\ ToldByHolder

\* A verdict is neither "none" nor an execution that is still at work.
LEMMA VerdictIsFinal == Verdict \cap {"none", "running", "stopping", "stopped"} = {}
  BY DEF Verdict, RunOutcome

\* A step that changes no Run of a process, no verdict and no stop is no step of
\* RunLifecycle.
LEMMA Uneventful ==
  ASSUME Lives' = Lives, Verdicts' = Verdicts, Asked' = Asked
  PROVE  [Lifecycle!Next]_(Lifecycle!vars)
  BY DEF Lifecycle!vars

\* Nothing is told of a step that settles no execution.
LEMMA NothingTold ==
  ASSUME JInv, JInv', holder' = holder,
         \A p \in Proc : \/ run'[p] = run[p] /\ exec'[p] = exec[p]
                         \/ exec[p] \notin Verdict /\ exec'[p] \notin Verdict
  PROVE  Verdicts' = Verdicts
  <1>1. Told' = Told
    BY DEF Told
  <1> QED BY <1>1 DEF JInv, ToldByHolder

\* The Runs of processes live and are asked as Rail and the stops have it.
LEMMA SameLives ==
  ASSUME rail' = rail, holder' = holder
  PROVE  Lives' = Lives
  BY DEF Lives

LEMMA SameAsked ==
  ASSUME stopRequested' = stopRequested, holder' = holder
  PROVE  Asked' = Asked
  BY DEF Asked

\* Rail makes a Run, for a process or for others, in continuation of the latest:
\* one that a process held open is ABANDONED in the same step.
LEMMA GrantBegins ==
  ASSUME JInv, JInv', NEW r \in Run, NEW h \in Proc \cup {Others}, Grant(r, Latest, h),
         h \in Proc => run[h] = NoRun,
         UNCHANGED <<run, exec, stopRequested>>
  PROVE  [Lifecycle!Next]_(Lifecycle!vars)
  <1> USE DEF JInv, IInv
  <1> DEFINE l == Latest
  <1>1. /\ r # l /\ l \in Run /\ rail[r] = "NONE" /\ holder[r] = Nothing
        /\ Nothing \notin Proc /\ Others \notin Proc
    BY GrantMakesRun, Constants DEF TypeOK, RailInv, Grant, Latest, Nothing
  <1>2. /\ rail' = [rail EXCEPT ![r] = "OPEN",
                                ![l] = IF @ = "OPEN" THEN "ABANDONED" ELSE @]
        /\ holder' = [holder EXCEPT ![r] = h]
    BY DEF Grant
  <1> HIDE DEF l
  <1>3. Told' = Told
    <2>1. \A x \in Run \ {r} : holder'[x] = holder[x]
      BY <1>2 DEF TypeOK
    <2>2. holder'[r] = h /\ (h \in Proc => run[h] # r)
      BY <1>2, Constants DEF TypeOK
    <2>3. run' = run /\ exec' = exec
      OBVIOUS
    <2>4. SUFFICES ASSUME NEW x \in Run PROVE Told'[x] = Told[x]
      BY DEF Told
    <2>5. CASE x = r
      BY <1>1, <2>2, <2>3, <2>5 DEF Told
    <2>6. CASE x # r
      BY <2>1, <2>3, <2>6 DEF Told
    <2> QED BY <2>5, <2>6
  <1>4. Verdicts' = Verdicts
    BY <1>3 DEF ToldByHolder
  <1>5. /\ Lives[r] = "NONE"
        /\ Lives[l] = IF holder[l] \in Proc THEN rail[l] ELSE "NONE"
        /\ \A x \in Run : Lives'[x] = IF x = r THEN (IF h \in Proc THEN "OPEN" ELSE "NONE")
                                      ELSE IF x = l /\ Lives[l] = "OPEN" THEN "ABANDONED"
                                      ELSE Lives[x]
    BY <1>1, <1>2 DEF Lives, TypeOK
  <1>6. Lives \in [Run -> RunState] /\ Lives' \in [Run -> RunState]
    BY <1>1 DEF Lives, TypeOK, RunState
  <1>7. Asked' \in {Asked, Asked \cup {r}}
    <2>1. \A x \in Run \ {r} : x \in Asked' <=> x \in Asked
      BY <1>2 DEF Asked, TypeOK
    <2>2. r \notin Asked
      BY <1>1 DEF Asked
    <2> QED BY <2>1, <2>2 DEF Asked
  <1>8. h = Others => Asked' = Asked
    BY <1>1, <1>2 DEF Asked, TypeOK
  <1>9. CASE h \in Proc /\ Lives[l] = "OPEN"
    <2>1. Lives' = [Lives EXCEPT ![l] = "ABANDONED", ![r] = "OPEN"]
      BY <1>1, <1>5, <1>6, <1>9
    <2>2. Lifecycle!Supersede(l, r)
      BY <1>4, <1>5, <1>7, <1>9, <2>1 DEF Lifecycle!Supersede
    <2> QED BY <1>1, <2>2 DEF Lifecycle!Next
  <1>10. CASE h \in Proc /\ Lives[l] # "OPEN"
    <2>1. Lives' = [Lives EXCEPT ![r] = "OPEN"]
      BY <1>1, <1>5, <1>6, <1>10
    <2>2. Lifecycle!Begin(r)
      BY <1>4, <1>5, <1>7, <1>10, <2>1 DEF Lifecycle!Begin
    <2> QED BY <2>2 DEF Lifecycle!Next
  <1>11. CASE h = Others /\ Lives[l] = "OPEN"
    <2>1. Lives' = [Lives EXCEPT ![l] = "ABANDONED"]
      BY <1>1, <1>5, <1>6, <1>11
    <2>2. "ABANDONED" \in Lifecycle!Permitted(l)
      BY DEF Lifecycle!Permitted
    <2>3. Lifecycle!End(l)
      BY <1>4, <1>8, <1>11, <2>1, <2>2 DEF Lifecycle!End
    <2> QED BY <1>1, <2>3 DEF Lifecycle!Next
  <1>12. CASE h = Others /\ Lives[l] # "OPEN"
    <2>1. Lives' = Lives
      BY <1>1, <1>5, <1>6, <1>12
    <2> QED BY <1>4, <1>8, <1>12, <2>1, Uneventful
  <1> QED BY <1>9, <1>10, <1>11, <1>12

\* Rail ends a Run with the outcome of the finishRun: what its execution reported,
\* or an outcome that needs no report.
LEMMA FinishEnds ==
  ASSUME JInv, JInv', NEW p \in Proc, RailFinishes(p)
  PROVE  [Lifecycle!Next]_(Lifecycle!vars)
  <1> USE DEF JInv, IInv
  <1> DEFINE r == run[p]
             o == closing[p]
  <1>1. /\ pc[p] = "finish" /\ rail[r] = "OPEN" /\ rail' = [rail EXCEPT ![r] = o]
        /\ holder[r] = p
        /\ UNCHANGED <<holder, stopRequested, exec, run>>
    BY DEF RailFinishes, Opens, runVars
  <1>2. r \in Run /\ holder[r] = p
    BY <1>1 DEF IProcs, PhaseInv, TypeOK
  <1>3. Verdicts' = Verdicts /\ Asked' = Asked
    BY <1>1, NothingTold, SameAsked
  <1>4. o \in Lifecycle!Permitted(r)
    <2>1. \/ exec[p] \in Verdict /\ o = FinishOutcome(exec[p])
          \/ exec[p] \notin Verdict /\ o = "FAILED"
          \/ exec[p] \notin Verdict /\ o = "RELEASED" /\ stopRequested[p]
      BY <1>1 DEF IProcs, EndInv
    <2>2. RunOutcome = Lifecycle!Outcome /\ "none" \notin Verdict
      BY DEF RunOutcome, Lifecycle!Outcome, Verdict
    <2>3. Verdicts[r] = IF exec[p] \in Verdict THEN exec[p] ELSE "none"
      BY <1>2 DEF ToldByHolder, Told
    <2>4. stopRequested[p] => r \in Asked
      BY <1>2 DEF Asked
    <2> QED BY <2>1, <2>2, <2>3, <2>4 DEF Lifecycle!Permitted, FinishOutcome
  <1> HIDE DEF r, o
  <1>5. Lives[r] = "OPEN" /\ Lives' = [Lives EXCEPT ![r] = o]
    <2>1. rail \in [Run -> RunState] /\ holder' = holder /\ p \in Proc
      BY <1>1 DEF TypeOK
    <2> QED BY <1>1, <1>2, <2>1 DEF Lives
  <1>6. Lifecycle!End(r)
    BY <1>3, <1>4, <1>5 DEF Lifecycle!End
  <1> QED BY <1>2, <1>6 DEF Lifecycle!Next

\* The sweeper ends an open Run as ABANDONED.
LEMMA SweepEnds ==
  ASSUME JInv, JInv', NEW r \in Run, Sweep(r)
  PROVE  [Lifecycle!Next]_(Lifecycle!vars)
  <1> USE DEF JInv, IInv
  <1>1. /\ rail[r] = "OPEN" /\ rail' = [rail EXCEPT ![r] = "ABANDONED"]
        /\ UNCHANGED <<holder, stopRequested, exec, run>>
    BY DEF Sweep, runVars
  <1>2. Verdicts' = Verdicts /\ Asked' = Asked
    BY <1>1, NothingTold, SameAsked
  <1>3. CASE holder[r] \in Proc
    <2>1. Lives[r] = "OPEN" /\ Lives' = [Lives EXCEPT ![r] = "ABANDONED"]
      BY <1>1, <1>3 DEF Lives, TypeOK
    <2>2. "ABANDONED" \in Lifecycle!Permitted(r)
      BY DEF Lifecycle!Permitted
    <2>3. Lifecycle!End(r)
      BY <1>2, <2>1, <2>2 DEF Lifecycle!End
    <2> QED BY <2>3 DEF Lifecycle!Next
  <1>4. CASE holder[r] \notin Proc
    <2>1. Lives' = Lives
      BY <1>1, <1>4 DEF Lives, TypeOK
    <2> QED BY <1>2, <2>1, Uneventful
  <1> QED BY <1>3, <1>4

\* An execution reports once, of the Run its process holds; of any other Run that
\* Rail's answer named, nothing is told.
LEMMA SettlingJudges ==
  ASSUME JInv, JInv', NEW p \in Proc, NEW v \in Report, ExecutionSettles(p, v)
  PROVE  [Lifecycle!Next]_(Lifecycle!vars)
  <1> USE DEF JInv, IInv
  <1> DEFINE r == run[p]
  <1>1. /\ pc[p] = "race" /\ exec[p] = "running" /\ exec' = [exec EXCEPT ![p] = v]
        /\ UNCHANGED <<rail, holder, stopRequested, run>>
    BY DEF ExecutionSettles, railVars
  <1>3. Lives' = Lives /\ Asked' = Asked
    BY <1>1, SameLives, SameAsked
  <1>n. CASE holder[r] # p
    <2>1. Told' = Told
      BY <1>1, <1>n, VerdictIsFinal DEF Told, TypeOK
    <2> QED BY <1>3, <2>1, Uneventful DEF ToldByHolder
  <1> SUFFICES ASSUME holder[r] = p
               PROVE  [Lifecycle!Next]_(Lifecycle!vars)
    BY <1>n
  <1>2. r \in Run /\ holder[r] = p
    BY <1>1 DEF IProcs, PhaseInv, TypeOK
  <1>4. rail[r] # "NONE" /\ p # Nothing
    BY <1>2, Constants DEF RailInv, Nothing
  <1>5. v \in Verdict /\ v \in Lifecycle!Verdicts
    BY Constants DEF Verdict, RunOutcome, Lifecycle!Verdicts, Lifecycle!Outcome
  <1> HIDE DEF r
  <1>6. Told[r] = "none"
    BY <1>1, <1>2, VerdictIsFinal DEF Told
  <1>7. Told' = [Told EXCEPT ![r] = v]
    <2>1. run[p] = r
      BY DEF r
    <2>2. Told'[r] = v
      BY <1>1, <1>2, <1>5, <2>1 DEF Told, TypeOK
    <2>3. \A x \in Run \ {r} : Told'[x] = Told[x]
      BY <1>1, <1>2, <1>5, <2>1, VerdictIsFinal DEF Told, TypeOK
    <2>4. /\ Told = [x \in Run |-> Told[x]]
          /\ Told' = [x \in Run |-> Told'[x]]
      BY DEF Told
    <2> HIDE DEF Told
    <2> QED BY <1>2, <2>2, <2>3, <2>4
  <1>8. Lives[r] # "NONE"
    BY <1>2, <1>4 DEF Lives
  <1>9. Lifecycle!Judge(r, v)
    BY <1>3, <1>6, <1>7, <1>8 DEF Lifecycle!Judge, ToldByHolder
  <1> QED BY <1>2, <1>5, <1>9 DEF Lifecycle!Next

\* A stop request asks the Run of the process, and no other.
LEMMA StopAsks ==
  ASSUME JInv, JInv', NEW p \in Proc, RequestStop(p)
  PROVE  [Lifecycle!Next]_(Lifecycle!vars)
  <1> USE DEF JInv, IInv
  <1>1. stopRequested' = [stopRequested EXCEPT ![p] = TRUE] /\ UNCHANGED <<rail, holder, run>>
    BY DEF RequestStop, railVars
  <1>2. \A q \in Proc : \/ run'[q] = run[q] /\ exec'[q] = exec[q]
                        \/ exec[q] \notin Verdict /\ exec'[q] \notin Verdict
    BY <1>1, VerdictIsFinal DEF RequestStop, Cancelled, IProcs, PhaseInv, TypeOK
  <1>3. Verdicts' = Verdicts /\ Lives' = Lives
    BY <1>1, <1>2, NothingTold, SameLives
  <1>4. Asked' = Asked \cup {r \in Run : holder[r] = p}
    BY <1>1 DEF Asked, TypeOK
  <1>5. Lifecycle!Ask
    BY <1>3, <1>4 DEF Lifecycle!Ask
  <1> QED BY <1>5 DEF Lifecycle!Next

\* Every other step leaves the lives of the Runs as they are.
LEMMA LifecycleStep ==
  ASSUME JInv, JInv', [Next]_vars
  PROVE  [Lifecycle!Next]_(Lifecycle!vars)
  <1> USE DEF JInv, IInv, TypeOK, railVars, callVars, runVars
  <1> DEFINE LNext == [Lifecycle!Next]_(Lifecycle!vars)
  <1>0. (/\ rail' = rail /\ holder' = holder /\ stopRequested' = stopRequested
         /\ \A p \in Proc : \/ run'[p] = run[p] /\ exec'[p] = exec[p]
                            \/ exec[p] \notin Verdict /\ exec'[p] \notin Verdict)
        => LNext
    BY NothingTold, SameLives, SameAsked, Uneventful
  <1> HIDE DEF LNext
  <1>1. ASSUME NEW p \in Proc, TicketReadFails(p) PROVE LNext
    BY <1>1, <1>0 DEF TicketReadFails
  <1>2. ASSUME NEW p \in Proc, Refuse(p) PROVE LNext
    BY <1>2, <1>0 DEF Refuse
  <1>3. ASSUME NEW p \in Proc, Post(p) PROVE LNext
    BY <1>3, <1>0 DEF Post
  <1>4. ASSUME NEW p \in Proc, PostThrows(p) PROVE LNext
    BY <1>4, <1>0 DEF PostThrows
  <1>5. ASSUME NEW p \in Proc, Unusable(p) PROVE LNext
    BY <1>5, <1>0 DEF Unusable
  <1>6. ASSUME NEW p \in Proc, RecheckReturns(p) PROVE LNext
    BY <1>6, <1>0 DEF RecheckReturns
  <1>7. ASSUME NEW p \in Proc, WrongRun(p) PROVE LNext
    BY <1>7, <1>0 DEF WrongRun
  <1>8. ASSUME NEW p \in Proc, Execute(p) PROVE LNext
    <2>1. exec[p] = "none" /\ exec' \in {exec, [exec EXCEPT ![p] = "running"]}
      BY <1>8 DEF Execute, IProcs, PhaseInv
    <2> QED BY <1>8, <1>0, <2>1, VerdictIsFinal DEF Execute
  <1>9. ASSUME NEW p \in Proc, StopBeforeExecuting(p) PROVE LNext
    <2>1. exec[p] = "none" /\ exec' \in {exec, [exec EXCEPT ![p] = "running"]}
      BY <1>9 DEF StopBeforeExecuting, IProcs, PhaseInv
    <2> QED BY <1>9, <1>0, <2>1, VerdictIsFinal DEF StopBeforeExecuting
  <1>10. ASSUME NEW p \in Proc, ExecuteFails(p) PROVE LNext
    <2>1. exec[p] = "none" /\ exec' \in {exec, [exec EXCEPT ![p] = "running"]}
      BY <1>10 DEF ExecuteFails, IProcs, PhaseInv
    <2> QED BY <1>10, <1>0, <2>1, VerdictIsFinal DEF ExecuteFails
  <1>11. ASSUME NEW p \in Proc, CancelReturns(p) PROVE LNext
    BY <1>11, <1>0 DEF CancelReturns
  <1>12. ASSUME NEW p \in Proc, DrainEnds(p) PROVE LNext
    BY <1>12, <1>0 DEF DrainEnds
  <1>13. ASSUME NEW p \in Proc, FinishReturns(p) PROVE LNext
    BY <1>13, <1>0 DEF FinishReturns
  <1>14. ASSUME NEW p \in Proc, Beats(p) PROVE LNext
    BY <1>14, <1>0 DEF Beats
  <1>15. ASSUME NEW p \in Proc, BeatReturns(p) PROVE LNext
    BY <1>15, <1>0 DEF BeatReturns
  <1>16. ASSUME NEW p \in Proc, BeatRejected(p) PROVE LNext
    BY <1>16, <1>0, VerdictIsFinal DEF BeatRejected, Cancelled
  <1>17. ASSUME NEW p \in Proc, NEW v \in Report, ExecutionSettles(p, v) PROVE LNext
    BY <1>17, SettlingJudges DEF LNext
  <1>18. ASSUME NEW p \in Proc, ExecutionWindsDown(p) PROVE LNext
    BY <1>18, <1>0, VerdictIsFinal DEF ExecutionWindsDown, Cancelled
  <1>19. ASSUME NEW p \in Proc, RequestStop(p) PROVE LNext
    BY <1>19, StopAsks DEF LNext
  <1>20. ASSUME NEW p \in Proc, Crash(p) PROVE LNext
    BY <1>20, <1>0 DEF Crash
  <1>21. ASSUME NEW p \in Proc, RailAnswersGet(p) PROVE LNext
    BY <1>21, <1>0 DEF RailAnswersGet
  <1>22. ASSUME NEW p \in Proc, RailContinues(p) PROVE LNext
    <2>1. PICK r \in Run : Grant(r, Latest, p)
      BY <1>22 DEF RailContinues, Acceptable
    <2>2. run[p] = NoRun /\ UNCHANGED <<run, exec, stopRequested>>
      BY <1>22 DEF RailContinues, IProcs, PhaseInv
    <2> QED BY <2>1, <2>2, GrantBegins DEF LNext
  <1>23. ASSUME NEW p \in Proc, RailRefuses(p) PROVE LNext
    BY <1>23, <1>0 DEF RailRefuses
  <1>24. ASSUME NEW p \in Proc, PostLost(p) PROVE LNext
    BY <1>24, <1>0 DEF PostLost
  <1>25. ASSUME NEW p \in Proc, RailFinishes(p) PROVE LNext
    BY <1>25, FinishEnds DEF LNext
  <1>26. ASSUME NEW p \in Proc, FinishRefused(p) PROVE LNext
    BY <1>26, <1>0 DEF FinishRefused
  <1>27. ASSUME NEW p \in Proc, RailHeartbeat(p) PROVE LNext
    BY <1>27, <1>0 DEF RailHeartbeat
  <1>28. ASSUME NEW p \in Proc, BeatLost(p) PROVE LNext
    BY <1>28, <1>0 DEF BeatLost
  <1>29. ASSUME NEW r \in Run, LeaseLapses(r) PROVE LNext
    BY <1>29, <1>0 DEF LeaseLapses
  <1>30. ASSUME NEW r \in Run, Sweep(r) PROVE LNext
    BY <1>30, SweepEnds DEF LNext
  <1>31. ASSUME NEW r \in Run, OthersAct(r) PROVE LNext
    <2>1. Lives' = Lives
      BY <1>31, Constants DEF OthersAct, Lives
    <2>2. UNCHANGED <<holder, run, exec, stopRequested>>
      BY <1>31 DEF OthersAct
    <2> QED BY <2>1, <2>2, NothingTold, SameAsked, Uneventful DEF LNext
  <1>32. CASE OthersContinue
    <2>1. PICK r \in Run : Grant(r, Latest, Others)
      BY <1>32 DEF OthersContinue
    <2>2. UNCHANGED <<run, exec, stopRequested>>
      BY <1>32 DEF OthersContinue
    <2> QED BY <2>1, <2>2, GrantBegins, Constants DEF LNext
  <1>33. CASE CycleMoves
    <2>1. UNCHANGED <<rail, holder, run, exec, stopRequested>>
      BY <1>33 DEF CycleMoves
    <2> QED BY <1>0, <2>1 DEF LNext
  <1>34. CASE UNCHANGED vars
    <2>1. UNCHANGED <<rail, holder, run, exec, stopRequested>>
      BY <1>34 DEF vars
    <2> QED BY <1>0, <2>1 DEF LNext
  <1> QED
    BY <1>1, <1>2, <1>3, <1>4, <1>5, <1>6, <1>7, <1>8, <1>9, <1>10, <1>11, <1>12,
       <1>13, <1>14, <1>15, <1>16, <1>17, <1>18, <1>19, <1>20, <1>21, <1>22, <1>23,
       <1>24, <1>25, <1>26, <1>27, <1>28, <1>29, <1>30, <1>31, <1>32, <1>33, <1>34
    DEF LNext, Next, Ask, TakeAnswer, Conclude, Supervise, RailServes

\* The Runs granted to continuations, however many continue the cycle, are begun
\* and ended once, with what their execution reported, or abandoned.
THEOREM LifecycleIsKept == Spec => ImplementsLifecycle
  <1>1. Init => Lifecycle!Init
    <2> SUFFICES ASSUME Init PROVE Lifecycle!Init
      OBVIOUS
    <2>1. \A r \in Run : holder[r] \notin Proc
      BY Constants DEF Init, Nothing
    <2>2. \A r \in Run : Driven(r) = {}
      BY DEF Init, Driven, Verdict, RunOutcome
    <2>3. Lives = [r \in Run |-> "NONE"] /\ Asked = {}
      BY <2>1 DEF Lives, Asked
    <2>4. Verdicts = [r \in Run |-> "none"]
      BY <2>2 DEF Verdicts
    <2> QED BY <2>3, <2>4 DEF Lifecycle!Init
  <1>2. JInv /\ JInv' /\ [Next]_vars => [Lifecycle!Next]_(Lifecycle!vars)
    BY LifecycleStep
  <1>3. IInv => JInv
    BY HolderDrives DEF JInv
  <1> QED
    BY <1>1, <1>2, <1>3, Invariance, PTL DEF Spec, ImplementsLifecycle, Lifecycle!Spec

\* What the refinement means.  A Run of a continuation that Rail has as COMPLETED
\* is one whose execution reported COMPLETED: neither the sweeper, nor others, nor
\* an answer that was lost makes a success of anything else.
THEOREM CompletedIsReported ==
  Spec => [](\A r \in Run : holder[r] \in Proc /\ rail[r] = "COMPLETED" =>
                              run[holder[r]] = r /\ exec[holder[r]] = "COMPLETED")
  <1> DEFINE Honest == \A r \in Run : Lives[r] = "COMPLETED" => Verdicts[r] = "COMPLETED"
             Claim == \A r \in Run : holder[r] \in Proc /\ rail[r] = "COMPLETED" =>
                        run[holder[r]] = r /\ exec[holder[r]] = "COMPLETED"
  <1>1. Init => Honest
    <2> SUFFICES ASSUME Init, NEW r \in Run PROVE Lives[r] # "COMPLETED"
      OBVIOUS
    <2>1. holder[r] \notin Proc
      BY Constants DEF Init, Nothing
    <2> QED BY <2>1 DEF Lives
  <1>2. JInv /\ JInv' /\ Honest /\ [Next]_vars => Honest'
    <2> SUFFICES ASSUME JInv, JInv', Honest, [Next]_vars PROVE Honest'
      OBVIOUS
    <2>1. [Lifecycle!Next]_(Lifecycle!vars)
      BY LifecycleStep
    <2>2. /\ Lives = [r \in Run |-> Lives[r]]
          /\ Verdicts = [r \in Run |-> Verdicts[r]]
      BY DEF Lives, Verdicts
    <2> USE DEF Lifecycle!Outcome, Lifecycle!Verdicts
    <2>3. ASSUME NEW l \in Run, NEW r \in Run, Lifecycle!Supersede(l, r) PROVE Honest'
      BY <2>2, <2>3 DEF Lifecycle!Supersede
    <2>4. ASSUME NEW r \in Run, Lifecycle!Begin(r) PROVE Honest'
      BY <2>2, <2>4 DEF Lifecycle!Begin
    <2>5. ASSUME NEW r \in Run, Lifecycle!End(r) PROVE Honest'
      BY <2>2, <2>5 DEF Lifecycle!End, Lifecycle!Permitted
    <2>6. ASSUME NEW r \in Run, NEW v, Lifecycle!Judge(r, v) PROVE Honest'
      BY <2>2, <2>6 DEF Lifecycle!Judge
    <2>7. CASE Lifecycle!Ask
      BY <2>7 DEF Lifecycle!Ask
    <2>8. CASE UNCHANGED Lifecycle!vars
      BY <2>8 DEF Lifecycle!vars
    <2> QED BY <2>1, <2>3, <2>4, <2>5, <2>6, <2>7, <2>8 DEF Lifecycle!Next
  <1>3. JInv /\ Honest => Claim
    <2> SUFFICES ASSUME JInv, Honest, NEW r \in Run,
                        holder[r] \in Proc, rail[r] = "COMPLETED"
                 PROVE  run[holder[r]] = r /\ exec[holder[r]] = "COMPLETED"
      OBVIOUS
    <2>1. Told[r] = "COMPLETED"
      BY DEF JInv, ToldByHolder, Lives
    <2> QED BY <2>1 DEF Told
  <1>4. IInv => JInv
    BY HolderDrives DEF JInv
  <1> QED BY <1>1, <1>2, <1>3, <1>4, Invariance, PTL DEF Spec

=============================================================================
