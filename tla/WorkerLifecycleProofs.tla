------------------------ MODULE WorkerLifecycleProofs ------------------------
(***************************************************************************)
(* WorkerCore implements RunLifecycle, for every set of processes, tickets,*)
(* Runs and heartbeats: step by step, every Run Rail sees lives the life   *)
(* RunLifecycle promises.  The last thing to happen to a Run is decided    *)
(* steps before: when Rail reads the outcome of a finishRun, the process   *)
(* has long chosen it.  EndInv carries that choice along.                  *)
(***************************************************************************)
EXTENDS WorkerCoreProofs

\* Nobody holds a Run that was never claimed.
FreshInv == \A r \in Run : rail[r] = "NONE" => holder[r] = NoWorker

\* A Run is torn down only after a stop request, with an execution that has
\* reported nothing; the outcome of a finishRun in flight is what the execution
\* reported, or one that needs no report.
EndInv(w) ==
  /\ pc[w] = "cancel" => stopRequested[w] /\ exec[active[w]] \in {"stopping", "stopped"}
  /\ pc[w] = "finish" =>
       \/ exec[active[w]] \in Verdict /\ closing[w] = FinishOutcome(exec[active[w]])
       \/ exec[active[w]] \notin Verdict /\ closing[w] = "FAILED"
       \/ exec[active[w]] \notin Verdict /\ closing[w] = "RELEASED" /\ stopRequested[w]

\* The inductive invariant of the refinement.
LInv == IInv /\ FreshInv /\ \A w \in Worker : EndInv(w)

-----------------------------------------------------------------------------
(* The invariant *)

\* FreshInv survives every step: only a claim changes a holder, with the Run.
LEMMA FreshStep ==
  ASSUME LInv, [Next]_vars
  PROVE  FreshInv'
  <1> USE DEF LInv, IInv, TypeOK, FreshInv, railVars
  <1>1. ASSUME NEW w \in Worker, Connect(w) PROVE FreshInv'
    BY <1>1 DEF Connect
  <1>2. ASSUME NEW w \in Worker, List(w) PROVE FreshInv'
    BY <1>2 DEF List
  <1>3. ASSUME NEW w \in Worker, GetTicket(w) PROVE FreshInv'
    BY <1>3 DEF GetTicket
  <1>4. ASSUME NEW w \in Worker, ReadFails(w) PROVE FreshInv'
    BY <1>4 DEF ReadFails
  <1>5. ASSUME NEW w \in Worker, ClaimThrows(w) PROVE FreshInv'
    BY <1>5 DEF ClaimThrows
  <1>6. ASSUME NEW w \in Worker, ClaimMalformed(w) PROVE FreshInv'
    BY <1>6 DEF ClaimMalformed
  <1>7. ASSUME NEW w \in Worker, ClaimedButStopping(w) PROVE FreshInv'
    BY <1>7 DEF ClaimedButStopping
  <1>8. ASSUME NEW w \in Worker, StartRun(w) PROVE FreshInv'
    BY <1>8 DEF StartRun
  <1>9. ASSUME NEW w \in Worker, StartFails(w) PROVE FreshInv'
    BY <1>9 DEF StartFails
  <1>10. ASSUME NEW w \in Worker, CancelReturns(w) PROVE FreshInv'
    BY <1>10 DEF CancelReturns
  <1>11. ASSUME NEW w \in Worker, DrainEnds(w) PROVE FreshInv'
    BY <1>11 DEF DrainEnds
  <1>12. ASSUME NEW w \in Worker, FinishReturns(w) PROVE FreshInv'
    BY <1>12 DEF FinishReturns
  <1>13. ASSUME NEW w \in Worker, Wake(w) PROVE FreshInv'
    BY <1>13 DEF Wake
  <1>14. ASSUME NEW w \in Worker, LoopDrains(w) PROVE FreshInv'
    BY <1>14 DEF LoopDrains
  <1>15. ASSUME NEW w \in Worker, RequestStop(w) PROVE FreshInv'
    BY <1>15 DEF RequestStop
  <1>16. ASSUME NEW w \in Worker, Crash(w) PROVE FreshInv'
    BY <1>16 DEF Crash
  <1>17. ASSUME NEW w \in Worker, RailClaims(w) PROVE FreshInv'
    BY <1>17 DEF RailClaims
  <1>18. ASSUME NEW w \in Worker, ClaimRefused(w) PROVE FreshInv'
    BY <1>18 DEF ClaimRefused
  <1>19. ASSUME NEW w \in Worker, RailFinishes(w) PROVE FreshInv'
    <2>1. closing[w] \in RunOutcome
      BY <1>19 DEF RailFinishes, IWorkers, PhaseInv
    <2>2. \A r \in Run : rail'[r] = "NONE" => rail[r] = "NONE"
      BY <1>19, <2>1 DEF RailFinishes, RunOutcome
    <2> QED
      BY <1>19, <2>2 DEF RailFinishes
  <1>20. ASSUME NEW w \in Worker, FinishRefused(w) PROVE FreshInv'
    BY <1>20 DEF FinishRefused
  <1>21. ASSUME NEW w \in Worker, NEW v \in Report, ExecutionSettles(w, v) PROVE FreshInv'
    BY <1>21 DEF ExecutionSettles
  <1>22. ASSUME NEW r \in Run, ExecutionWindsDown(r) PROVE FreshInv'
    BY <1>22 DEF ExecutionWindsDown
  <1>23. ASSUME NEW r \in Run, LeaseLapses(r) PROVE FreshInv'
    BY <1>23 DEF LeaseLapses
  <1>24. ASSUME NEW r \in Run, Sweep(r) PROVE FreshInv'
    BY <1>24 DEF Sweep
  <1>25. ASSUME NEW r \in Run, NEW b \in Beat, Beats(r, b) PROVE FreshInv'
    BY <1>25 DEF Beats
  <1>26. ASSUME NEW r \in Run, NEW b \in Beat, BeatReturns(r, b) PROVE FreshInv'
    BY <1>26 DEF BeatReturns
  <1>27. ASSUME NEW r \in Run, NEW b \in Beat, BeatRejected(r, b) PROVE FreshInv'
    BY <1>27 DEF BeatRejected
  <1>28. ASSUME NEW r \in Run, NEW b \in Beat, RailHeartbeat(r, b) PROVE FreshInv'
    BY <1>28 DEF RailHeartbeat
  <1>29. ASSUME NEW r \in Run, NEW b \in Beat, BeatLost(r, b) PROVE FreshInv'
    BY <1>29 DEF BeatLost
  <1>30. ASSUME NEW t \in Ticket, MoveTicket(t) PROVE FreshInv'
    BY <1>30 DEF MoveTicket
  <1>31. CASE UNCHANGED vars
    BY <1>31 DEF vars
  <1> QED
    BY <1>1, <1>2, <1>3, <1>4, <1>5, <1>6, <1>7, <1>8, <1>9, <1>10, <1>11, <1>12,
       <1>13, <1>14, <1>15, <1>16, <1>17, <1>18, <1>19, <1>20, <1>21, <1>22, <1>23,
       <1>24, <1>25, <1>26, <1>27, <1>28, <1>29, <1>30, <1>31
    DEF Next, Discover, Claim, Drive, Supervise, RailServes, RailKeepsTime

\* EndInv(p) survives a step in which p neither starts a teardown nor sends a
\* finishRun, and its execution at most winds down.
LEMMA EndKept ==
  ASSUME NEW p \in Worker, EndInv(p), stopRequested[p] => stopRequested'[p],
         pc'[p] \in {"cancel", "finish"} =>
           /\ UNCHANGED <<pc[p], active[p], closing[p]>>
           /\ \/ exec'[active[p]] = exec[active[p]]
              \/ exec[active[p]] \in {"running", "stopping"}
                 /\ exec'[active[p]] \in {"stopping", "stopped"}
  PROVE  EndInv(p)'
  BY DEF EndInv, Verdict, RunOutcome

\* A finishRun is sent for a Run whose execution never started.
LEMMA EndUnstarted ==
  ASSUME LInv, NEW w \in Worker, NEW o \in {"RELEASED", "FAILED"},
         pc[w] = "claim", reply[w] = "won", SafeFinish(w, handoff[w], o),
         o = "RELEASED" => stopRequested[w],
         UNCHANGED <<stopRequested, exec>>
  PROVE  \A p \in Worker : EndInv(p)'
  <1> USE DEF LInv, IInv, TypeOK, SafeFinish, Retire, LoopTop
  <1>1. handoff[w] \in Run /\ exec[handoff[w]] = "none"
    BY DEF IWorkers, HandoffInv, Untouched
  <1>2. ASSUME NEW p \in Worker, p # w PROVE EndInv(p)'
    BY <1>2, EndKept
  <1>3. CASE pc'[w] = "finish"
    <2>1. active'[w] = handoff[w] /\ closing'[w] = o
      BY <1>3
    <2>2. exec'[active'[w]] \notin Verdict
      BY <1>1, <2>1 DEF Verdict, RunOutcome
    <2> QED
      BY <1>3, <2>1, <2>2 DEF EndInv
  <1>4. CASE pc'[w] # "finish"
    <2>1. pc'[w] \notin {"cancel", "finish"}
      BY <1>4
    <2> QED
      BY <2>1, EndKept
  <1> QED
    BY <1>2, <1>3, <1>4

\* Every step keeps the choice of the last outcome in line with the report.
LEMMA EndStep ==
  ASSUME LInv, [Next]_vars
  PROVE  \A p \in Worker : EndInv(p)'
  <1> USE DEF LInv, IInv, TypeOK, railVars, procVars, runVars
  <1>a. ASSUME NEW p \in Worker, pc[p] \in Driving PROVE active[p] \in Run /\ holder[active[p]] = p
    BY <1>a, Constants DEF IWorkers, ActiveInv
  <1>1. ASSUME NEW w \in Worker, Connect(w) PROVE \A p \in Worker : EndInv(p)'
    BY <1>1, EndKept DEF Connect, LoopTop
  <1>2. ASSUME NEW w \in Worker, List(w) PROVE \A p \in Worker : EndInv(p)'
    BY <1>2, EndKept DEF List, NothingClaimed
  <1>3. ASSUME NEW w \in Worker, GetTicket(w) PROVE \A p \in Worker : EndInv(p)'
    BY <1>3, EndKept DEF GetTicket, NothingClaimed
  <1>4. ASSUME NEW w \in Worker, ReadFails(w) PROVE \A p \in Worker : EndInv(p)'
    BY <1>4, EndKept DEF ReadFails, NothingClaimed
  <1>5. ASSUME NEW w \in Worker, ClaimThrows(w) PROVE \A p \in Worker : EndInv(p)'
    BY <1>5, EndKept DEF ClaimThrows, NothingClaimed
  <1>6. ASSUME NEW w \in Worker, ClaimMalformed(w) PROVE \A p \in Worker : EndInv(p)'
    BY <1>6, EndKept DEF ClaimMalformed
  <1>7. ASSUME NEW w \in Worker, ClaimedButStopping(w) PROVE \A p \in Worker : EndInv(p)'
    BY <1>7, EndUnstarted DEF ClaimedButStopping
  <1>8. ASSUME NEW w \in Worker, StartRun(w) PROVE \A p \in Worker : EndInv(p)'
    <2>1. handoff[w] \in Run /\ holder[handoff[w]] = w
      BY <1>8 DEF StartRun, IWorkers, HandoffInv
    <2>2. ASSUME NEW p \in Worker PROVE EndInv(p)'
      <3>1. CASE p = w
        BY <1>8, <3>1 DEF StartRun, EndInv
      <3>2. CASE p # w
        <4>1. UNCHANGED <<pc[p], active[p], closing[p], stopRequested>>
          BY <1>8, <3>2 DEF StartRun
        <4>2. pc[p] \in Driving => exec'[active[p]] = exec[active[p]]
          BY <1>8, <1>a, <2>1, <3>2 DEF StartRun
        <4> QED
          BY <4>1, <4>2, EndKept DEF Driving
      <3> QED
        BY <3>1, <3>2
    <2> QED
      BY <2>2
  <1>9. ASSUME NEW w \in Worker, StartFails(w) PROVE \A p \in Worker : EndInv(p)'
    BY <1>9, EndUnstarted DEF StartFails
  <1>10. ASSUME NEW w \in Worker, CancelReturns(w) PROVE \A p \in Worker : EndInv(p)'
    <2>1. ASSUME NEW p \in Worker, p # w PROVE EndInv(p)'
      BY <1>10, <2>1, EndKept DEF CancelReturns, SafeFinish, Retire, LoopTop
    <2>2. EndInv(w)'
      <3>1. /\ stopRequested[w] /\ exec[active[w]] \notin Verdict
            /\ UNCHANGED <<stopRequested, exec>>
        BY <1>10 DEF CancelReturns, EndInv, Verdict, RunOutcome
      <3>2. /\ pc'[w] # "cancel"
            /\ pc'[w] = "finish" => active'[w] = active[w] /\ closing'[w] = "RELEASED"
        BY <1>10 DEF CancelReturns, SafeFinish, Retire, LoopTop
      <3> QED
        BY <3>1, <3>2 DEF EndInv
    <2> QED
      BY <2>1, <2>2
  <1>11. ASSUME NEW w \in Worker, DrainEnds(w) PROVE \A p \in Worker : EndInv(p)'
    BY <1>11, EndKept DEF DrainEnds, Retire, LoopTop
  <1>12. ASSUME NEW w \in Worker, FinishReturns(w) PROVE \A p \in Worker : EndInv(p)'
    BY <1>12, EndKept DEF FinishReturns, Retire, LoopTop
  <1>13. ASSUME NEW w \in Worker, Wake(w) PROVE \A p \in Worker : EndInv(p)'
    BY <1>13, EndKept DEF Wake, LoopTop
  <1>14. ASSUME NEW w \in Worker, LoopDrains(w) PROVE \A p \in Worker : EndInv(p)'
    BY <1>14, EndKept DEF LoopDrains
  <1>15. ASSUME NEW w \in Worker, RequestStop(w) PROVE \A p \in Worker : EndInv(p)'
    <2>1. ASSUME NEW p \in Worker, p # w PROVE EndInv(p)'
      <3>1. UNCHANGED <<pc[p], active[p], closing[p], stopRequested[p]>>
        BY <1>15, <2>1 DEF RequestStop
      <3>2. pc[p] \in Driving => exec'[active[p]] = exec[active[p]]
        BY <1>15, <1>a, <2>1 DEF RequestStop, Driving
      <3> QED
        BY <3>1, <3>2, EndKept DEF Driving
    <2>2. EndInv(w)'
      <3>1. CASE pc[w] = "race"
        <4>1. active[w] \in Run /\ exec[active[w]] = "running"
          BY <1>a, <3>1 DEF Driving, IWorkers, PhaseInv
        <4>2. stopRequested'[w] /\ exec'[active'[w]] = "stopping" /\ pc'[w] = "cancel"
          BY <1>15, <3>1, <4>1 DEF RequestStop, Cancelled
        <4> QED
          BY <4>2 DEF EndInv
      <3>2. CASE pc[w] # "race"
        BY <1>15, <3>2, EndKept DEF RequestStop
      <3> QED
        BY <3>1, <3>2
    <2> QED
      BY <2>1, <2>2
  <1>16. ASSUME NEW w \in Worker, Crash(w) PROVE \A p \in Worker : EndInv(p)'
    BY <1>16, EndKept DEF Crash
  <1>17. ASSUME NEW w \in Worker, RailClaims(w) PROVE \A p \in Worker : EndInv(p)'
    BY <1>17, EndKept DEF RailClaims
  <1>18. ASSUME NEW w \in Worker, ClaimRefused(w) PROVE \A p \in Worker : EndInv(p)'
    BY <1>18, EndKept DEF ClaimRefused
  <1>19. ASSUME NEW w \in Worker, RailFinishes(w) PROVE \A p \in Worker : EndInv(p)'
    BY <1>19, EndKept DEF RailFinishes
  <1>20. ASSUME NEW w \in Worker, FinishRefused(w) PROVE \A p \in Worker : EndInv(p)'
    BY <1>20, EndKept DEF FinishRefused
  <1>21. ASSUME NEW w \in Worker, NEW v \in Report, ExecutionSettles(w, v)
        PROVE \A p \in Worker : EndInv(p)'
    <2>1. active[w] \in Run /\ holder[active[w]] = w
      BY <1>21, <1>a DEF ExecutionSettles, Driving
    <2>2. ASSUME NEW p \in Worker, p # w PROVE EndInv(p)'
      <3>1. UNCHANGED <<pc[p], active[p], closing[p], stopRequested[p]>>
        BY <1>21, <2>2 DEF ExecutionSettles, SafeFinish, Retire
      <3>2. pc[p] \in Driving => exec'[active[p]] = exec[active[p]]
        BY <1>21, <1>a, <2>1, <2>2 DEF ExecutionSettles
      <3> QED
        BY <3>1, <3>2, EndKept DEF Driving
    <2>3. EndInv(w)'
      <3>1. v \in Verdict
        BY Constants DEF Verdict, RunOutcome
      <3>2. exec'[active[w]] = v /\ pc'[w] # "cancel"
        BY <1>21, <2>1 DEF ExecutionSettles, SafeFinish, Retire, LoopTop
      <3>3. pc'[w] = "finish" => active'[w] = active[w] /\ closing'[w] = FinishOutcome(v)
        BY <1>21 DEF ExecutionSettles, SafeFinish, Retire, LoopTop
      <3> QED
        BY <3>1, <3>2, <3>3 DEF EndInv, FinishOutcome
    <2> QED
      BY <2>2, <2>3
  <1>22. ASSUME NEW r \in Run, ExecutionWindsDown(r) PROVE \A p \in Worker : EndInv(p)'
    BY <1>22, EndKept DEF ExecutionWindsDown
  <1>23. ASSUME NEW r \in Run, LeaseLapses(r) PROVE \A p \in Worker : EndInv(p)'
    BY <1>23, EndKept DEF LeaseLapses
  <1>24. ASSUME NEW r \in Run, Sweep(r) PROVE \A p \in Worker : EndInv(p)'
    BY <1>24, EndKept DEF Sweep
  <1>25. ASSUME NEW r \in Run, NEW b \in Beat, Beats(r, b)
        PROVE \A p \in Worker : EndInv(p)'
    BY <1>25, EndKept DEF Beats
  <1>26. ASSUME NEW r \in Run, NEW b \in Beat, BeatReturns(r, b)
        PROVE \A p \in Worker : EndInv(p)'
    BY <1>26, EndKept DEF BeatReturns
  <1>27. ASSUME NEW r \in Run, NEW b \in Beat, BeatRejected(r, b)
        PROVE \A p \in Worker : EndInv(p)'
    <2>1. holder[r] \in Worker
      BY <1>27, Constants DEF BeatRejected, IRuns, RunInv
    <2>2. ASSUME NEW p \in Worker PROVE EndInv(p)'
      <3>1. UNCHANGED <<active, closing, stopRequested>>
        BY <1>27 DEF BeatRejected
      <3>2. pc'[p] \in {"cancel", "finish"} => pc'[p] = pc[p]
        BY <1>27, <2>1 DEF BeatRejected, OnOwnershipLost
      <3>3. ASSUME active[p] \in Run
            PROVE  \/ exec'[active[p]] = exec[active[p]]
                   \/ exec[active[p]] = "running" /\ exec'[active[p]] = "stopping"
        BY <1>27, <2>1, <3>3 DEF BeatRejected, OnOwnershipLost, Cancelled
      <3> QED
        BY <1>a, <3>1, <3>2, <3>3, EndKept DEF Driving
    <2> QED
      BY <2>2
  <1>28. ASSUME NEW r \in Run, NEW b \in Beat, RailHeartbeat(r, b)
        PROVE \A p \in Worker : EndInv(p)'
    BY <1>28, EndKept DEF RailHeartbeat
  <1>29. ASSUME NEW r \in Run, NEW b \in Beat, BeatLost(r, b)
        PROVE \A p \in Worker : EndInv(p)'
    BY <1>29, EndKept DEF BeatLost
  <1>30. ASSUME NEW t \in Ticket, MoveTicket(t) PROVE \A p \in Worker : EndInv(p)'
    BY <1>30, EndKept DEF MoveTicket
  <1>31. CASE UNCHANGED vars
    BY <1>31 DEF vars, EndInv
  <1> QED
    BY <1>1, <1>2, <1>3, <1>4, <1>5, <1>6, <1>7, <1>8, <1>9, <1>10, <1>11, <1>12,
       <1>13, <1>14, <1>15, <1>16, <1>17, <1>18, <1>19, <1>20, <1>21, <1>22, <1>23,
       <1>24, <1>25, <1>26, <1>27, <1>28, <1>29, <1>30, <1>31
    DEF Next, Discover, Claim, Drive, Supervise, RailServes, RailKeepsTime

\* LInv holds in every reachable state.
THEOREM LifecycleInvariance == Spec => []LInv
  <1>1. Init => FreshInv /\ \A w \in Worker : EndInv(w)
    BY DEF Init, FreshInv, EndInv
  <1>2. LInv /\ [Next]_vars => FreshInv' /\ \A w \in Worker : EndInv(w)'
    BY FreshStep, EndStep
  <1> DEFINE Rest == FreshInv /\ \A w \in Worker : EndInv(w)
  <1>3. Init => Rest
    BY <1>1
  <1>4. IInv /\ Rest /\ [Next]_vars => Rest'
    BY <1>2 DEF LInv
  <1>5. IInv /\ Rest => LInv
    BY DEF LInv
  <1> HIDE DEF Rest
  <1> QED
    BY <1>3, <1>4, <1>5, Invariance, PTL DEF Spec

-----------------------------------------------------------------------------
(* The steps of a life *)

\* What RunLifecycle knows of the Runs: their reports, and who was asked to stop.
Reported == [r \in Run |-> IF exec[r] \in Verdict THEN exec[r] ELSE "none"]
Asked    == {r \in Run : holder[r] \in Worker /\ stopRequested[holder[r]]}

\* No report, so no change, as long as an execution goes on or winds down.
LEMMA NoReport ==
  ASSUME \A r \in Run : \/ exec'[r] = exec[r]
                        \/ (exec[r] \notin Verdict /\ exec'[r] \notin Verdict)
  PROVE  Reported' = Reported
  BY DEF Reported

\* A step that concerns neither the Runs' states nor their reports nor the stop
\* requests leaves their lives as they are.
LEMMA Uneventful ==
  ASSUME UNCHANGED <<rail, holder, stopRequested>>, Reported' = Reported
  PROVE  [Lifecycle!Next]_(Lifecycle!vars)
  BY DEF Lifecycle!vars, Reported

\* Rail makes a Run for a claim: its life begins, in a process that may already
\* have been asked to stop.
LEMMA ClaimBegins ==
  ASSUME LInv, NEW w \in Worker, RailClaims(w)
  PROVE  Lifecycle!Next
  <1> USE DEF LInv, IInv, TypeOK
  <1>1. PICK r \in Run : /\ rail[r] = "NONE"
                         /\ rail' = [rail EXCEPT ![r] = "OPEN"]
                         /\ holder' = [holder EXCEPT ![r] = w]
    BY DEF RailClaims
  <1>2. UNCHANGED <<exec, stopRequested>>
    BY DEF RailClaims, runVars, procVars
  <1>3. holder[r] \notin Worker
    BY <1>1, Constants DEF FreshInv
  <1>4. Asked' \in {Asked, Asked \cup {r}}
    <2>1. Asked' = IF stopRequested[w] THEN Asked \cup {r} ELSE Asked
      BY <1>1, <1>2, <1>3 DEF Asked
    <2> QED
      BY <2>1
  <1>5. Reported' = Reported
    BY <1>2, NoReport
  <1>6. Lifecycle!Begin(r)
    BY <1>1, <1>4, <1>5 DEF Lifecycle!Begin, Asked, Reported
  <1> QED
    BY <1>6 DEF Lifecycle!Next

\* An execution that settles judges its Run, once.
LEMMA SettlingJudges ==
  ASSUME LInv, NEW w \in Worker, NEW v \in Report, ExecutionSettles(w, v)
  PROVE  Lifecycle!Next
  <1> USE DEF LInv, IInv, TypeOK
  <1> DEFINE r == active[w]
  <1>1. r \in Run /\ rail[r] # "NONE" /\ exec[r] = "running"
    BY Constants DEF ExecutionSettles, IWorkers, ActiveInv, PhaseInv, Driving
  <1>2. exec' = [exec EXCEPT ![r] = v] /\ UNCHANGED <<rail, holder, stopRequested>>
    BY DEF ExecutionSettles, railVars
  <1>3. v \in Verdict /\ v \in Lifecycle!Verdicts
    BY Constants DEF Verdict, RunOutcome, Lifecycle!Verdicts, Lifecycle!Outcome
  <1>4. Reported[r] = "none" /\ Reported' = [Reported EXCEPT ![r] = v]
    BY <1>1, <1>2, <1>3 DEF Reported, Verdict, RunOutcome
  <1>5. Asked' = Asked
    BY <1>2 DEF Asked
  <1> HIDE DEF r
  <1>6. Lifecycle!Judge(r, v)
    BY <1>1, <1>2, <1>4, <1>5 DEF Lifecycle!Judge, Reported, Asked
  <1> QED
    BY <1>1, <1>3, <1>6 DEF Lifecycle!Next

\* A stop request asks the process's Runs, and no other.
LEMMA StopAsks ==
  ASSUME LInv, NEW w \in Worker, RequestStop(w)
  PROVE  Lifecycle!Next
  <1> USE DEF LInv, IInv, TypeOK
  <1>1. stopRequested' = [stopRequested EXCEPT ![w] = TRUE] /\ UNCHANGED <<rail, holder>>
    BY DEF RequestStop, railVars
  <1>2. Reported' = Reported
    <2>1. CASE pc[w] = "race"
      <3>1. active[w] \in Run /\ exec[active[w]] = "running"
        BY <2>1, Constants DEF IWorkers, ActiveInv, PhaseInv, Driving
      <3>2. exec' = [exec EXCEPT ![active[w]] = "stopping"]
        BY <2>1, <3>1 DEF RequestStop, Cancelled
      <3> QED
        BY <3>1, <3>2, NoReport DEF Verdict, RunOutcome
    <2>2. CASE pc[w] # "race"
      BY <2>2, NoReport DEF RequestStop
    <2> QED
      BY <2>1, <2>2
  <1>3. PICK S \in SUBSET Run : Asked' = Asked \cup S
    <2> DEFINE S == {r \in Run : holder[r] = w}
    <2>1. Asked' = Asked \cup S
      BY <1>1 DEF Asked
    <2> QED
      BY <2>1
  <1>4. Lifecycle!Ask
    BY <1>1, <1>2, <1>3 DEF Lifecycle!Ask, Asked, Reported
  <1> QED
    BY <1>4 DEF Lifecycle!Next

\* Rail ends a Run with the outcome of the finishRun: the one its execution
\* reported, or one that needs no report.
LEMMA FinishEnds ==
  ASSUME LInv, NEW w \in Worker, RailFinishes(w)
  PROVE  Lifecycle!Next
  <1> USE DEF LInv, IInv, TypeOK
  <1> DEFINE r == active[w]
             o == closing[w]
  <1>1. r \in Run /\ holder[r] = w
    BY Constants DEF RailFinishes, IWorkers, ActiveInv, Driving
  <1>2. /\ rail[r] = "OPEN" /\ rail' = [rail EXCEPT ![r] = o]
        /\ UNCHANGED <<holder, stopRequested, exec>>
    BY DEF RailFinishes, procVars, runVars
  <1>3. Reported' = Reported /\ Asked' = Asked
    BY <1>2 DEF Reported, Asked
  <1>4. o \in Lifecycle!Permitted(r)
    <2>1. \/ exec[r] \in Verdict /\ o = FinishOutcome(exec[r])
          \/ exec[r] \notin Verdict /\ o = "FAILED"
          \/ exec[r] \notin Verdict /\ o = "RELEASED" /\ stopRequested[w]
      BY DEF RailFinishes, EndInv
    <2>2. RunOutcome = Lifecycle!Outcome /\ "none" \notin Verdict
      BY DEF RunOutcome, Lifecycle!Outcome, Verdict
    <2> QED
      BY <1>1, <2>1, <2>2 DEF Lifecycle!Permitted, FinishOutcome
  <1> HIDE DEF r, o
  <1>5. Lifecycle!End(r)
    BY <1>2, <1>3, <1>4 DEF Lifecycle!End, Reported, Asked
  <1> QED
    BY <1>1, <1>5 DEF Lifecycle!Next

\* The sweeper ends an open Run as ABANDONED.
LEMMA SweepEnds ==
  ASSUME LInv, NEW r \in Run, Sweep(r)
  PROVE  Lifecycle!Next
  <1>1. /\ rail[r] = "OPEN" /\ rail' = [rail EXCEPT ![r] = "ABANDONED"]
        /\ UNCHANGED <<holder, stopRequested, exec>>
    BY DEF Sweep, procVars, runVars
  <1>2. Reported' = Reported /\ Asked' = Asked
    BY <1>1 DEF Reported, Asked
  <1>3. "ABANDONED" \in Lifecycle!Permitted(r)
    BY DEF Lifecycle!Permitted
  <1>4. Lifecycle!End(r)
    BY <1>1, <1>2, <1>3 DEF Lifecycle!End, Reported, Asked
  <1> QED
    BY <1>4 DEF Lifecycle!Next

\* Every other step leaves the lives of the Runs as they are.
LEMMA LifecycleStep ==
  ASSUME LInv, [Next]_vars
  PROVE  [Lifecycle!Next]_(Lifecycle!vars)
  <1> USE DEF LInv, IInv, TypeOK, railVars, procVars, runVars
  <1>1. ASSUME NEW w \in Worker, Connect(w) PROVE [Lifecycle!Next]_(Lifecycle!vars)
    BY <1>1, NoReport, Uneventful DEF Connect
  <1>2. ASSUME NEW w \in Worker, List(w) PROVE [Lifecycle!Next]_(Lifecycle!vars)
    BY <1>2, NoReport, Uneventful DEF List
  <1>3. ASSUME NEW w \in Worker, GetTicket(w) PROVE [Lifecycle!Next]_(Lifecycle!vars)
    BY <1>3, NoReport, Uneventful DEF GetTicket
  <1>4. ASSUME NEW w \in Worker, ReadFails(w) PROVE [Lifecycle!Next]_(Lifecycle!vars)
    BY <1>4, NoReport, Uneventful DEF ReadFails
  <1>5. ASSUME NEW w \in Worker, ClaimThrows(w) PROVE [Lifecycle!Next]_(Lifecycle!vars)
    BY <1>5, NoReport, Uneventful DEF ClaimThrows
  <1>6. ASSUME NEW w \in Worker, ClaimMalformed(w) PROVE [Lifecycle!Next]_(Lifecycle!vars)
    BY <1>6, NoReport, Uneventful DEF ClaimMalformed
  <1>7. ASSUME NEW w \in Worker, ClaimedButStopping(w)
        PROVE [Lifecycle!Next]_(Lifecycle!vars)
    BY <1>7, NoReport, Uneventful DEF ClaimedButStopping
  <1>8. ASSUME NEW w \in Worker, StartRun(w) PROVE [Lifecycle!Next]_(Lifecycle!vars)
    <2>1. handoff[w] \in Run /\ exec[handoff[w]] = "none"
      BY <1>8 DEF StartRun, IWorkers, HandoffInv, Untouched
    <2>2. Reported' = Reported
      BY <1>8, <2>1, NoReport DEF StartRun, Verdict, RunOutcome
    <2> QED
      BY <1>8, <2>2, Uneventful DEF StartRun
  <1>9. ASSUME NEW w \in Worker, StartFails(w) PROVE [Lifecycle!Next]_(Lifecycle!vars)
    BY <1>9, NoReport, Uneventful DEF StartFails
  <1>10. ASSUME NEW w \in Worker, CancelReturns(w) PROVE [Lifecycle!Next]_(Lifecycle!vars)
    BY <1>10, NoReport, Uneventful DEF CancelReturns
  <1>11. ASSUME NEW w \in Worker, DrainEnds(w) PROVE [Lifecycle!Next]_(Lifecycle!vars)
    BY <1>11, NoReport, Uneventful DEF DrainEnds
  <1>12. ASSUME NEW w \in Worker, FinishReturns(w) PROVE [Lifecycle!Next]_(Lifecycle!vars)
    BY <1>12, NoReport, Uneventful DEF FinishReturns
  <1>13. ASSUME NEW w \in Worker, Wake(w) PROVE [Lifecycle!Next]_(Lifecycle!vars)
    BY <1>13, NoReport, Uneventful DEF Wake
  <1>14. ASSUME NEW w \in Worker, LoopDrains(w) PROVE [Lifecycle!Next]_(Lifecycle!vars)
    BY <1>14, NoReport, Uneventful DEF LoopDrains
  <1>15. ASSUME NEW w \in Worker, RequestStop(w) PROVE [Lifecycle!Next]_(Lifecycle!vars)
    BY <1>15, StopAsks
  <1>16. ASSUME NEW w \in Worker, Crash(w) PROVE [Lifecycle!Next]_(Lifecycle!vars)
    BY <1>16, NoReport, Uneventful DEF Crash
  <1>17. ASSUME NEW w \in Worker, RailClaims(w) PROVE [Lifecycle!Next]_(Lifecycle!vars)
    BY <1>17, ClaimBegins
  <1>18. ASSUME NEW w \in Worker, ClaimRefused(w) PROVE [Lifecycle!Next]_(Lifecycle!vars)
    BY <1>18, NoReport, Uneventful DEF ClaimRefused
  <1>19. ASSUME NEW w \in Worker, RailFinishes(w) PROVE [Lifecycle!Next]_(Lifecycle!vars)
    BY <1>19, FinishEnds
  <1>20. ASSUME NEW w \in Worker, FinishRefused(w) PROVE [Lifecycle!Next]_(Lifecycle!vars)
    BY <1>20, NoReport, Uneventful DEF FinishRefused
  <1>21. ASSUME NEW w \in Worker, NEW v \in Report, ExecutionSettles(w, v)
        PROVE [Lifecycle!Next]_(Lifecycle!vars)
    BY <1>21, SettlingJudges
  <1>22. ASSUME NEW r \in Run, ExecutionWindsDown(r) PROVE [Lifecycle!Next]_(Lifecycle!vars)
    <2>1. Reported' = Reported
      BY <1>22, NoReport DEF ExecutionWindsDown, Verdict, RunOutcome
    <2> QED
      BY <1>22, <2>1, Uneventful DEF ExecutionWindsDown
  <1>23. ASSUME NEW r \in Run, LeaseLapses(r) PROVE [Lifecycle!Next]_(Lifecycle!vars)
    BY <1>23, NoReport, Uneventful DEF LeaseLapses
  <1>24. ASSUME NEW r \in Run, Sweep(r) PROVE [Lifecycle!Next]_(Lifecycle!vars)
    BY <1>24, SweepEnds
  <1>25. ASSUME NEW r \in Run, NEW b \in Beat, Beats(r, b)
        PROVE [Lifecycle!Next]_(Lifecycle!vars)
    BY <1>25, NoReport, Uneventful DEF Beats
  <1>26. ASSUME NEW r \in Run, NEW b \in Beat, BeatReturns(r, b)
        PROVE [Lifecycle!Next]_(Lifecycle!vars)
    BY <1>26, NoReport, Uneventful DEF BeatReturns
  <1>27. ASSUME NEW r \in Run, NEW b \in Beat, BeatRejected(r, b)
        PROVE [Lifecycle!Next]_(Lifecycle!vars)
    <2>1. Reported' = Reported
      BY <1>27, NoReport DEF BeatRejected, OnOwnershipLost, Cancelled, Verdict, RunOutcome
    <2> QED
      BY <1>27, <2>1, Uneventful DEF BeatRejected
  <1>28. ASSUME NEW r \in Run, NEW b \in Beat, RailHeartbeat(r, b)
        PROVE [Lifecycle!Next]_(Lifecycle!vars)
    BY <1>28, NoReport, Uneventful DEF RailHeartbeat
  <1>29. ASSUME NEW r \in Run, NEW b \in Beat, BeatLost(r, b)
        PROVE [Lifecycle!Next]_(Lifecycle!vars)
    BY <1>29, NoReport, Uneventful DEF BeatLost
  <1>30. ASSUME NEW t \in Ticket, MoveTicket(t) PROVE [Lifecycle!Next]_(Lifecycle!vars)
    BY <1>30, NoReport, Uneventful DEF MoveTicket
  <1>31. CASE UNCHANGED vars
    BY <1>31, NoReport, Uneventful DEF vars
  <1> QED
    BY <1>1, <1>2, <1>3, <1>4, <1>5, <1>6, <1>7, <1>8, <1>9, <1>10, <1>11, <1>12,
       <1>13, <1>14, <1>15, <1>16, <1>17, <1>18, <1>19, <1>20, <1>21, <1>22, <1>23,
       <1>24, <1>25, <1>26, <1>27, <1>28, <1>29, <1>30, <1>31
    DEF Next, Discover, Claim, Drive, Supervise, RailServes, RailKeepsTime

\* The worker keeps the promise of RunLifecycle: a Run is begun and ended once,
\* and COMPLETED only if its execution reported COMPLETED.
THEOREM LifecycleIsKept == Spec => ImplementsLifecycle
  <1>1. Init => Lifecycle!Init
    <2> SUFFICES ASSUME Init PROVE Lifecycle!Init
      OBVIOUS
    <2>1. Reported = [r \in Run |-> "none"]
      BY DEF Init, Reported, Verdict, RunOutcome
    <2>2. Asked = {}
      BY DEF Init, Asked
    <2> QED
      BY <2>1, <2>2 DEF Init, Lifecycle!Init, Reported, Asked
  <1>2. LInv /\ [Next]_vars => [Lifecycle!Next]_(Lifecycle!vars)
    BY LifecycleStep
  <1> QED
    BY <1>1, <1>2, LifecycleInvariance, PTL DEF Spec, ImplementsLifecycle, Lifecycle!Spec

\* What the refinement means.  A Run that Rail has as COMPLETED is one whose execution
\* reported COMPLETED: no stop, fence, sweep, crash or lost answer makes a success of
\* anything else.
THEOREM CompletedIsReported ==
  Spec => [](\A r \in Run : rail[r] = "COMPLETED" => exec[r] = "COMPLETED")
  <1> DEFINE Honest == \A r \in Run : rail[r] = "COMPLETED" => Reported[r] = "COMPLETED"
             Truth  == \A r \in Run : rail[r] = "COMPLETED" => exec[r] = "COMPLETED"
  <1>1. Init => Honest
    BY DEF Init
  <1>2. LInv /\ LInv' /\ Honest /\ [Next]_vars => Honest'
    <2> SUFFICES ASSUME LInv, LInv', Honest, [Next]_vars PROVE Honest'
      OBVIOUS
    <2>1. [Lifecycle!Next]_(Lifecycle!vars)
      BY LifecycleStep
    <2>2. rail = [r \in Run |-> rail[r]] /\ rail' = [r \in Run |-> rail'[r]]
      BY DEF LInv, IInv, TypeOK
    <2> USE DEF Lifecycle!Outcome, Lifecycle!Verdicts, Reported
    <2>3. ASSUME NEW l \in Run, NEW r \in Run, Lifecycle!Supersede(l, r) PROVE Honest'
      BY <2>2, <2>3 DEF Lifecycle!Supersede
    <2>4. ASSUME NEW r \in Run, Lifecycle!Begin(r) PROVE Honest'
      BY <2>2, <2>4 DEF Lifecycle!Begin
    <2>5. ASSUME NEW r \in Run, Lifecycle!End(r) PROVE Honest'
      BY <2>2, <2>5 DEF Lifecycle!End, Lifecycle!Permitted
    <2>6. ASSUME NEW r \in Run, NEW v, Lifecycle!Judge(r, v) PROVE Honest'
      BY <2>2, <2>6 DEF Lifecycle!Judge
    <2>7. CASE Lifecycle!Ask
      BY <2>7 DEF Lifecycle!Ask
    <2>8. CASE UNCHANGED Lifecycle!vars
      BY <2>8 DEF Lifecycle!vars
    <2> QED
      BY <2>1, <2>3, <2>4, <2>5, <2>6, <2>7, <2>8 DEF Lifecycle!Next
  <1>3. LInv /\ Honest => Truth
    BY DEF Reported
  <1> QED
    BY <1>1, <1>2, <1>3, LifecycleInvariance, PTL DEF Spec

=============================================================================
