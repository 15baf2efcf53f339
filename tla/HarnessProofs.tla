---------------------------- MODULE HarnessProofs ----------------------------
(***************************************************************************)
(* Theorems about Harness, for every set of processes, tickets, Runs,      *)
(* heartbeats and outcomes.  The harness is a worker in the first place:   *)
(* each of its steps is a step of WorkerCore or leaves the worker alone,   *)
(* so what WorkerLifecycleProofs shows holds of it.  To that this module   *)
(* adds what Rail (RailInv) and the children (ChildInv) contribute.        *)
(***************************************************************************)
EXTENDS Harness, WorkerLifecycleProofs

\* The ticket of an open Run is CLAIMED, and it is the only open Run of it; a
\* Run that is neither open nor swept was finished by its process.
RailInv ==
  /\ \A r \in Run : rail[r] = "OPEN" => of[r] \in Ticket /\ ticket[of[r]] = "CLAIMED"
  /\ \A r, s \in Run :
       rail[r] = "OPEN" /\ rail[s] = "OPEN" /\ of[r] = of[s] => r = s
  /\ \A r \in Run : rail[r] \notin {"NONE", "OPEN", "ABANDONED"} => runFinished[r]

\* A process that looks at a candidate, or claims one, has one.
CandInv == \A w \in Worker : pc[w] \in {"get", "claim"} => cand[w] \in Ticket

\* A child that has not closed has a pending promise; an execution that was not
\* started has no role; a pending role in a live process is wanted, or has
\* been cancelled together with its execution.
ChildInv(r) ==
  /\ child[r] \in Claude!Live \cup Claude!Over => done[r] = "pending"
  /\ exec[r] = "none" => done[r] = "none"
  /\ r \in Hosted /\ done[r] = "pending" =>
       \/ exec[r] = "running" /\ ~cancelled[r]
       \/ exec[r] = "stopping" /\ cancelled[r]

HInv ==
  IInv /\ CandInv /\ RailInv /\ ChildTypeOK /\ \A r \in Run : ChildInv(r)

-----------------------------------------------------------------------------
(* Every step of the harness is a step of the worker *)

\* Whatever the harness does, the worker takes one of its own steps or none.
LEMMA WorkerStep ==
  ASSUME [HarnessNext]_harnessVars
  PROVE  [Next]_vars
  <1>1. CASE Elsewhere
    BY <1>1 DEF Elsewhere, Next, Drive, Supervise
  <1>2. ASSUME NEW w \in Worker, Stops(w) PROVE Next
    BY <1>2 DEF Stops, Next
  <1>3. ASSUME NEW w \in Worker, NEW v \in Report, Settles(w, v) PROVE Next
    BY <1>3 DEF Settles, Next, Drive
  <1>4. ASSUME NEW r \in Run, RoleStarts(r) PROVE UNCHANGED vars
    BY <1>4 DEF RoleStarts
  <1>5. ASSUME NEW r \in Run, WindsDown(r) PROVE Next
    BY <1>5 DEF WindsDown, Next
  <1>6. ASSUME NEW r \in Run, ChildSteps(r) PROVE UNCHANGED vars
    BY <1>6 DEF ChildSteps
  <1>7. ASSUME NEW r \in Run, NEW b \in Beat, Fences(r, b) PROVE Next
    BY <1>7 DEF Fences, Next, Supervise
  <1>8. CASE UNCHANGED harnessVars
    BY <1>8 DEF harnessVars
  <1> QED
    BY <1>1, <1>2, <1>3, <1>4, <1>5, <1>6, <1>7, <1>8 DEF HarnessNext

\* The harness is a worker: every theorem about WorkerCore is one about it.
THEOREM HarnessIsAWorker == HarnessSpec => Spec
  <1>1. HarnessInit => Init
    BY DEF HarnessInit
  <1>2. [HarnessNext]_harnessVars => [Next]_vars
    BY WorkerStep
  <1> QED
    BY <1>1, <1>2, PTL DEF HarnessSpec, Spec

\* In the composition too every Run lives the life RunLifecycle promises: what
\* the children do never shows in the Runs but through their execution.
THEOREM HarnessKeepsLifecycle == HarnessSpec => ImplementsLifecycle
  BY HarnessIsAWorker, LifecycleIsKept

-----------------------------------------------------------------------------
(* Candidates *)

\* A process only leaves the listing with a candidate (discoverAndClaimOne).
LEMMA CandStep ==
  ASSUME IInv, CandInv, [Next]_vars
  PROVE  CandInv'
  <1> USE DEF CandInv, IInv, TypeOK, railVars, procVars, runVars
  <1>1. ASSUME NEW w \in Worker, Connect(w) PROVE CandInv'
    BY <1>1 DEF Connect, LoopTop
  <1>2. ASSUME NEW w \in Worker, List(w) PROVE CandInv'
    BY <1>2 DEF List, NothingClaimed, Heads
  <1>3. ASSUME NEW w \in Worker, GetTicket(w) PROVE CandInv'
    BY <1>3 DEF GetTicket, NothingClaimed
  <1>4. ASSUME NEW w \in Worker, ReadFails(w) PROVE CandInv'
    BY <1>4 DEF ReadFails, NothingClaimed
  <1>5. ASSUME NEW w \in Worker, ClaimThrows(w) PROVE CandInv'
    BY <1>5 DEF ClaimThrows, NothingClaimed
  <1>6. ASSUME NEW w \in Worker, ClaimMalformed(w) PROVE CandInv'
    BY <1>6 DEF ClaimMalformed
  <1>7. ASSUME NEW w \in Worker, ClaimedButStopping(w) PROVE CandInv'
    BY <1>7 DEF ClaimedButStopping, SafeFinish, Retire, LoopTop
  <1>8. ASSUME NEW w \in Worker, StartRun(w) PROVE CandInv'
    BY <1>8 DEF StartRun
  <1>9. ASSUME NEW w \in Worker, StartFails(w) PROVE CandInv'
    BY <1>9 DEF StartFails, SafeFinish, Retire, LoopTop
  <1>10. ASSUME NEW w \in Worker, CancelReturns(w) PROVE CandInv'
    BY <1>10 DEF CancelReturns, SafeFinish, Retire, LoopTop
  <1>11. ASSUME NEW w \in Worker, DrainEnds(w) PROVE CandInv'
    BY <1>11 DEF DrainEnds, Retire, LoopTop
  <1>12. ASSUME NEW w \in Worker, FinishReturns(w) PROVE CandInv'
    BY <1>12 DEF FinishReturns, Retire, LoopTop
  <1>13. ASSUME NEW w \in Worker, Wake(w) PROVE CandInv'
    BY <1>13 DEF Wake, LoopTop
  <1>14. ASSUME NEW w \in Worker, LoopDrains(w) PROVE CandInv'
    BY <1>14 DEF LoopDrains
  <1>15. ASSUME NEW w \in Worker, RequestStop(w) PROVE CandInv'
    BY <1>15 DEF RequestStop
  <1>16. ASSUME NEW w \in Worker, Crash(w) PROVE CandInv'
    BY <1>16 DEF Crash
  <1>17. ASSUME NEW w \in Worker, RailClaims(w) PROVE CandInv'
    BY <1>17 DEF RailClaims
  <1>18. ASSUME NEW w \in Worker, ClaimRefused(w) PROVE CandInv'
    BY <1>18 DEF ClaimRefused
  <1>19. ASSUME NEW w \in Worker, RailFinishes(w) PROVE CandInv'
    BY <1>19 DEF RailFinishes
  <1>20. ASSUME NEW w \in Worker, FinishRefused(w) PROVE CandInv'
    BY <1>20 DEF FinishRefused
  <1>21. ASSUME NEW w \in Worker, NEW v \in Report, ExecutionSettles(w, v)
         PROVE  CandInv'
    BY <1>21 DEF ExecutionSettles, SafeFinish, Retire, LoopTop
  <1>22. ASSUME NEW r \in Run, ExecutionWindsDown(r) PROVE CandInv'
    BY <1>22 DEF ExecutionWindsDown
  <1>23. ASSUME NEW r \in Run, LeaseLapses(r) PROVE CandInv'
    BY <1>23 DEF LeaseLapses
  <1>24. ASSUME NEW r \in Run, Sweep(r) PROVE CandInv'
    BY <1>24 DEF Sweep
  <1>25. ASSUME NEW r \in Run, NEW b \in Beat, Beats(r, b) PROVE CandInv'
    BY <1>25 DEF Beats
  <1>26. ASSUME NEW r \in Run, NEW b \in Beat, BeatReturns(r, b) PROVE CandInv'
    BY <1>26 DEF BeatReturns
  <1>27. ASSUME NEW r \in Run, NEW b \in Beat, BeatRejected(r, b) PROVE CandInv'
    <2>1. ASSUME NEW w \in Worker, pc'[w] \in {"get", "claim"} PROVE pc[w] = pc'[w]
      BY <1>27, <2>1 DEF BeatRejected, OnOwnershipLost
    <2>2. UNCHANGED cand
      BY <1>27 DEF BeatRejected
    <2> QED
      BY <2>1, <2>2
  <1>28. ASSUME NEW r \in Run, NEW b \in Beat, RailHeartbeat(r, b) PROVE CandInv'
    BY <1>28 DEF RailHeartbeat
  <1>29. ASSUME NEW r \in Run, NEW b \in Beat, BeatLost(r, b) PROVE CandInv'
    BY <1>29 DEF BeatLost
  <1>30. ASSUME NEW t \in Ticket, MoveTicket(t) PROVE CandInv'
    BY <1>30 DEF MoveTicket
  <1>31. CASE UNCHANGED vars
    BY <1>31 DEF vars
  <1> QED
    BY <1>1, <1>2, <1>3, <1>4, <1>5, <1>6, <1>7, <1>8, <1>9, <1>10, <1>11,
       <1>12, <1>13, <1>14, <1>15, <1>16, <1>17, <1>18, <1>19, <1>20, <1>21,
       <1>22, <1>23, <1>24, <1>25, <1>26, <1>27, <1>28, <1>29, <1>30, <1>31
    DEF Next, Discover, Claim, Drive, Supervise, RailServes, RailKeepsTime

-----------------------------------------------------------------------------
(* Rail *)

\* A step that leaves Rail's tickets and Runs alone and forgets no finishRun.
RailStill ==
  /\ UNCHANGED <<ticket, rail, of>>
  /\ \A r \in Run : runFinished[r] => runFinished'[r]

\* A step that leaves tickets and Runs as they are keeps RailInv.
LEMMA StillStep ==
  ASSUME RailInv, RailStill
  PROVE  RailInv'
  BY DEF RailInv, RailStill

\* Every step of the worker and of Rail keeps RailInv.
LEMMA RailStep ==
  ASSUME IInv, CandInv, RailInv, [Next]_vars
  PROVE  RailInv'
  <1> USE DEF RailStill, IInv, TypeOK, railVars, procVars, runVars
  <1>1. ASSUME NEW w \in Worker, Connect(w) PROVE RailInv'
    <2>1. RailStill
      BY <1>1 DEF Connect, LoopTop
    <2> QED
      BY <2>1, StillStep
  <1>2. ASSUME NEW w \in Worker, List(w) PROVE RailInv'
    <2>1. RailStill
      BY <1>2 DEF List, NothingClaimed
    <2> QED
      BY <2>1, StillStep
  <1>3. ASSUME NEW w \in Worker, GetTicket(w) PROVE RailInv'
    <2>1. RailStill
      BY <1>3 DEF GetTicket, NothingClaimed
    <2> QED
      BY <2>1, StillStep
  <1>4. ASSUME NEW w \in Worker, ReadFails(w) PROVE RailInv'
    <2>1. RailStill
      BY <1>4 DEF ReadFails, NothingClaimed
    <2> QED
      BY <2>1, StillStep
  <1>5. ASSUME NEW w \in Worker, ClaimThrows(w) PROVE RailInv'
    <2>1. RailStill
      BY <1>5 DEF ClaimThrows, NothingClaimed
    <2> QED
      BY <2>1, StillStep
  <1>6. ASSUME NEW w \in Worker, ClaimMalformed(w) PROVE RailInv'
    <2>1. RailStill
      BY <1>6 DEF ClaimMalformed
    <2> QED
      BY <2>1, StillStep
  <1>7. ASSUME NEW w \in Worker, ClaimedButStopping(w) PROVE RailInv'
    <2>1. RailStill
      BY <1>7 DEF ClaimedButStopping, SafeFinish, Retire, LoopTop
    <2> QED
      BY <2>1, StillStep
  <1>8. ASSUME NEW w \in Worker, StartRun(w) PROVE RailInv'
    <2>1. RailStill
      BY <1>8 DEF StartRun
    <2> QED
      BY <2>1, StillStep
  <1>9. ASSUME NEW w \in Worker, StartFails(w) PROVE RailInv'
    <2>1. RailStill
      BY <1>9 DEF StartFails, SafeFinish, Retire, LoopTop
    <2> QED
      BY <2>1, StillStep
  <1>10. ASSUME NEW w \in Worker, CancelReturns(w) PROVE RailInv'
    <2>1. RailStill
      BY <1>10 DEF CancelReturns, SafeFinish, Retire, LoopTop
    <2> QED
      BY <2>1, StillStep
  <1>11. ASSUME NEW w \in Worker, DrainEnds(w) PROVE RailInv'
    <2>1. RailStill
      BY <1>11 DEF DrainEnds, Retire, LoopTop
    <2> QED
      BY <2>1, StillStep
  <1>12. ASSUME NEW w \in Worker, FinishReturns(w) PROVE RailInv'
    <2>1. RailStill
      BY <1>12 DEF FinishReturns, Retire, LoopTop
    <2> QED
      BY <2>1, StillStep
  <1>13. ASSUME NEW w \in Worker, Wake(w) PROVE RailInv'
    <2>1. RailStill
      BY <1>13 DEF Wake, LoopTop
    <2> QED
      BY <2>1, StillStep
  <1>14. ASSUME NEW w \in Worker, LoopDrains(w) PROVE RailInv'
    <2>1. RailStill
      BY <1>14 DEF LoopDrains
    <2> QED
      BY <2>1, StillStep
  <1>15. ASSUME NEW w \in Worker, RequestStop(w) PROVE RailInv'
    <2>1. RailStill
      BY <1>15 DEF RequestStop
    <2> QED
      BY <2>1, StillStep
  <1>16. ASSUME NEW w \in Worker, Crash(w) PROVE RailInv'
    <2>1. RailStill
      BY <1>16 DEF Crash
    <2> QED
      BY <2>1, StillStep
  <1>17. ASSUME NEW w \in Worker, RailClaims(w) PROVE RailInv'
    <2>1. PICK r \in Run :
            /\ rail[r] = "NONE"
            /\ rail' = [rail EXCEPT ![r] = "OPEN"]
            /\ of' = [of EXCEPT ![r] = cand[w]]
      BY <1>17 DEF RailClaims
    <2>2. /\ cand[w] \in Ticket /\ ticket[cand[w]] = "READY"
          /\ ticket' = [ticket EXCEPT ![cand[w]] = "CLAIMED"]
          /\ UNCHANGED runFinished
      BY <1>17 DEF CandInv, RailClaims
    <2>3. ASSUME NEW q \in Run \ {r}, rail[q] = "OPEN" PROVE of[q] # cand[w]
      BY <2>2, <2>3 DEF RailInv
    <2> QED
      BY <2>1, <2>2, <2>3 DEF RailInv
  <1>18. ASSUME NEW w \in Worker, ClaimRefused(w) PROVE RailInv'
    <2>1. RailStill
      BY <1>18 DEF ClaimRefused
    <2> QED
      BY <2>1, StillStep
  <1>19. ASSUME NEW w \in Worker, RailFinishes(w) PROVE RailInv'
    <2>1. active[w] \in Run /\ runFinished[active[w]]
      BY <1>19, Constants DEF RailFinishes, IWorkers, ActiveInv, PhaseInv, Driving
    <2>2. rail[active[w]] = "OPEN" /\ rail' = [rail EXCEPT ![active[w]] = closing[w]]
      BY <1>19 DEF RailFinishes
    <2>3. closing[w] # "OPEN"
      BY <1>19 DEF RailFinishes, RunOutcome
    <2>4. UNCHANGED <<ticket, of, runFinished>>
      BY <1>19 DEF RailFinishes
    <2> QED
      BY <2>1, <2>2, <2>3, <2>4 DEF RailInv
  <1>20. ASSUME NEW w \in Worker, FinishRefused(w) PROVE RailInv'
    <2>1. RailStill
      BY <1>20 DEF FinishRefused
    <2> QED
      BY <2>1, StillStep
  <1>21. ASSUME NEW w \in Worker, NEW v \in Report, ExecutionSettles(w, v)
         PROVE  RailInv'
    <2>1. RailStill
      BY <1>21 DEF ExecutionSettles, SafeFinish, Retire, LoopTop
    <2> QED
      BY <2>1, StillStep
  <1>22. ASSUME NEW r \in Run, ExecutionWindsDown(r) PROVE RailInv'
    <2>1. RailStill
      BY <1>22 DEF ExecutionWindsDown
    <2> QED
      BY <2>1, StillStep
  <1>23. ASSUME NEW r \in Run, LeaseLapses(r) PROVE RailInv'
    <2>1. RailStill
      BY <1>23 DEF LeaseLapses
    <2> QED
      BY <2>1, StillStep
  <1>24. ASSUME NEW r \in Run, Sweep(r) PROVE RailInv'
    BY <1>24 DEF Sweep, RailInv
  <1>25. ASSUME NEW r \in Run, NEW b \in Beat, Beats(r, b) PROVE RailInv'
    <2>1. RailStill
      BY <1>25 DEF Beats
    <2> QED
      BY <2>1, StillStep
  <1>26. ASSUME NEW r \in Run, NEW b \in Beat, BeatReturns(r, b) PROVE RailInv'
    <2>1. RailStill
      BY <1>26 DEF BeatReturns
    <2> QED
      BY <2>1, StillStep
  <1>27. ASSUME NEW r \in Run, NEW b \in Beat, BeatRejected(r, b) PROVE RailInv'
    <2>1. RailStill
      BY <1>27 DEF BeatRejected, OnOwnershipLost
    <2> QED
      BY <2>1, StillStep
  <1>28. ASSUME NEW r \in Run, NEW b \in Beat, RailHeartbeat(r, b) PROVE RailInv'
    <2>1. RailStill
      BY <1>28 DEF RailHeartbeat
    <2> QED
      BY <2>1, StillStep
  <1>29. ASSUME NEW r \in Run, NEW b \in Beat, BeatLost(r, b) PROVE RailInv'
    <2>1. RailStill
      BY <1>29 DEF BeatLost
    <2> QED
      BY <2>1, StillStep
  <1>30. ASSUME NEW t \in Ticket, MoveTicket(t) PROVE RailInv'
    BY <1>30 DEF MoveTicket, RailInv
  <1>31. CASE UNCHANGED vars
    BY <1>31, StillStep DEF vars
  <1> QED
    BY <1>1, <1>2, <1>3, <1>4, <1>5, <1>6, <1>7, <1>8, <1>9, <1>10, <1>11,
       <1>12, <1>13, <1>14, <1>15, <1>16, <1>17, <1>18, <1>19, <1>20, <1>21,
       <1>22, <1>23, <1>24, <1>25, <1>26, <1>27, <1>28, <1>29, <1>30, <1>31
    DEF Next, Discover, Claim, Drive, Supervise, RailServes, RailKeepsTime

-----------------------------------------------------------------------------
(* Processes and executions *)

\* No process comes back to life.
NoneRevives == \A w \in Worker : Alive(w)' => Alive(w)

\* Alive processes come from alive ones only (Worker: no restart).
LEMMA ReviveStep ==
  ASSUME IInv, [Next]_vars
  PROVE  NoneRevives
  <1> USE DEF NoneRevives, IInv, TypeOK, Alive, Awaiting, railVars, procVars, runVars
  <1>1. ASSUME NEW w \in Worker, Connect(w) PROVE NoneRevives
    BY <1>1 DEF Connect, LoopTop
  <1>2. ASSUME NEW w \in Worker, List(w) PROVE NoneRevives
    BY <1>2 DEF List, NothingClaimed
  <1>3. ASSUME NEW w \in Worker, GetTicket(w) PROVE NoneRevives
    BY <1>3 DEF GetTicket, NothingClaimed
  <1>4. ASSUME NEW w \in Worker, ReadFails(w) PROVE NoneRevives
    BY <1>4 DEF ReadFails, NothingClaimed
  <1>5. ASSUME NEW w \in Worker, ClaimThrows(w) PROVE NoneRevives
    BY <1>5 DEF ClaimThrows, NothingClaimed
  <1>6. ASSUME NEW w \in Worker, ClaimMalformed(w) PROVE NoneRevives
    BY <1>6 DEF ClaimMalformed
  <1>7. ASSUME NEW w \in Worker, ClaimedButStopping(w) PROVE NoneRevives
    BY <1>7 DEF ClaimedButStopping, SafeFinish, Retire, LoopTop
  <1>8. ASSUME NEW w \in Worker, StartRun(w) PROVE NoneRevives
    BY <1>8 DEF StartRun
  <1>9. ASSUME NEW w \in Worker, StartFails(w) PROVE NoneRevives
    BY <1>9 DEF StartFails, SafeFinish, Retire, LoopTop
  <1>10. ASSUME NEW w \in Worker, CancelReturns(w) PROVE NoneRevives
    BY <1>10 DEF CancelReturns, SafeFinish, Retire, LoopTop
  <1>11. ASSUME NEW w \in Worker, DrainEnds(w) PROVE NoneRevives
    BY <1>11 DEF DrainEnds, Retire, LoopTop
  <1>12. ASSUME NEW w \in Worker, FinishReturns(w) PROVE NoneRevives
    BY <1>12 DEF FinishReturns, Retire, LoopTop
  <1>13. ASSUME NEW w \in Worker, Wake(w) PROVE NoneRevives
    BY <1>13 DEF Wake, LoopTop
  <1>14. ASSUME NEW w \in Worker, LoopDrains(w) PROVE NoneRevives
    BY <1>14 DEF LoopDrains
  <1>15. ASSUME NEW w \in Worker, RequestStop(w) PROVE NoneRevives
    BY <1>15 DEF RequestStop
  <1>16. ASSUME NEW w \in Worker, Crash(w) PROVE NoneRevives
    BY <1>16 DEF Crash
  <1>17. ASSUME NEW w \in Worker, RailClaims(w) PROVE NoneRevives
    BY <1>17 DEF RailClaims
  <1>18. ASSUME NEW w \in Worker, ClaimRefused(w) PROVE NoneRevives
    BY <1>18 DEF ClaimRefused
  <1>19. ASSUME NEW w \in Worker, RailFinishes(w) PROVE NoneRevives
    BY <1>19 DEF RailFinishes
  <1>20. ASSUME NEW w \in Worker, FinishRefused(w) PROVE NoneRevives
    BY <1>20 DEF FinishRefused
  <1>21. ASSUME NEW w \in Worker, NEW v \in Report, ExecutionSettles(w, v)
         PROVE  NoneRevives
    BY <1>21 DEF ExecutionSettles, SafeFinish, Retire, LoopTop
  <1>22. ASSUME NEW r \in Run, ExecutionWindsDown(r) PROVE NoneRevives
    BY <1>22 DEF ExecutionWindsDown
  <1>23. ASSUME NEW r \in Run, LeaseLapses(r) PROVE NoneRevives
    BY <1>23 DEF LeaseLapses
  <1>24. ASSUME NEW r \in Run, Sweep(r) PROVE NoneRevives
    BY <1>24 DEF Sweep
  <1>25. ASSUME NEW r \in Run, NEW b \in Beat, Beats(r, b) PROVE NoneRevives
    BY <1>25 DEF Beats
  <1>26. ASSUME NEW r \in Run, NEW b \in Beat, BeatReturns(r, b) PROVE NoneRevives
    BY <1>26 DEF BeatReturns
  <1>27. ASSUME NEW r \in Run, NEW b \in Beat, BeatRejected(r, b) PROVE NoneRevives
    BY <1>27 DEF BeatRejected, OnOwnershipLost
  <1>28. ASSUME NEW r \in Run, NEW b \in Beat, RailHeartbeat(r, b) PROVE NoneRevives
    BY <1>28 DEF RailHeartbeat
  <1>29. ASSUME NEW r \in Run, NEW b \in Beat, BeatLost(r, b) PROVE NoneRevives
    BY <1>29 DEF BeatLost
  <1>30. ASSUME NEW t \in Ticket, MoveTicket(t) PROVE NoneRevives
    BY <1>30 DEF MoveTicket
  <1>31. CASE UNCHANGED vars
    BY <1>31 DEF vars
  <1> QED
    BY <1>1, <1>2, <1>3, <1>4, <1>5, <1>6, <1>7, <1>8, <1>9, <1>10, <1>11,
       <1>12, <1>13, <1>14, <1>15, <1>16, <1>17, <1>18, <1>19, <1>20, <1>21,
       <1>22, <1>23, <1>24, <1>25, <1>26, <1>27, <1>28, <1>29, <1>30, <1>31
    DEF Next, Discover, Claim, Drive, Supervise, RailServes, RailKeepsTime

\* A Run keeps its holder from its claim on.
KeepsHolder == \A r \in Run : rail[r] # "NONE" => holder'[r] = holder[r]

\* Only RailClaims sets a holder, and of a Run that had no claim before.
LEMMA HolderStep ==
  ASSUME IInv, [Next]_vars
  PROVE  KeepsHolder
  <1> USE DEF KeepsHolder, IInv, TypeOK, railVars, procVars, runVars
  <1>1. ASSUME NEW w \in Worker, Connect(w) PROVE KeepsHolder
    BY <1>1 DEF Connect, LoopTop
  <1>2. ASSUME NEW w \in Worker, List(w) PROVE KeepsHolder
    BY <1>2 DEF List, NothingClaimed
  <1>3. ASSUME NEW w \in Worker, GetTicket(w) PROVE KeepsHolder
    BY <1>3 DEF GetTicket, NothingClaimed
  <1>4. ASSUME NEW w \in Worker, ReadFails(w) PROVE KeepsHolder
    BY <1>4 DEF ReadFails, NothingClaimed
  <1>5. ASSUME NEW w \in Worker, ClaimThrows(w) PROVE KeepsHolder
    BY <1>5 DEF ClaimThrows, NothingClaimed
  <1>6. ASSUME NEW w \in Worker, ClaimMalformed(w) PROVE KeepsHolder
    BY <1>6 DEF ClaimMalformed
  <1>7. ASSUME NEW w \in Worker, ClaimedButStopping(w) PROVE KeepsHolder
    BY <1>7 DEF ClaimedButStopping, SafeFinish, Retire, LoopTop
  <1>8. ASSUME NEW w \in Worker, StartRun(w) PROVE KeepsHolder
    BY <1>8 DEF StartRun
  <1>9. ASSUME NEW w \in Worker, StartFails(w) PROVE KeepsHolder
    BY <1>9 DEF StartFails, SafeFinish, Retire, LoopTop
  <1>10. ASSUME NEW w \in Worker, CancelReturns(w) PROVE KeepsHolder
    BY <1>10 DEF CancelReturns, SafeFinish, Retire, LoopTop
  <1>11. ASSUME NEW w \in Worker, DrainEnds(w) PROVE KeepsHolder
    BY <1>11 DEF DrainEnds, Retire, LoopTop
  <1>12. ASSUME NEW w \in Worker, FinishReturns(w) PROVE KeepsHolder
    BY <1>12 DEF FinishReturns, Retire, LoopTop
  <1>13. ASSUME NEW w \in Worker, Wake(w) PROVE KeepsHolder
    BY <1>13 DEF Wake, LoopTop
  <1>14. ASSUME NEW w \in Worker, LoopDrains(w) PROVE KeepsHolder
    BY <1>14 DEF LoopDrains
  <1>15. ASSUME NEW w \in Worker, RequestStop(w) PROVE KeepsHolder
    BY <1>15 DEF RequestStop
  <1>16. ASSUME NEW w \in Worker, Crash(w) PROVE KeepsHolder
    BY <1>16 DEF Crash
  <1>17. ASSUME NEW w \in Worker, RailClaims(w) PROVE KeepsHolder
    BY <1>17 DEF RailClaims
  <1>18. ASSUME NEW w \in Worker, ClaimRefused(w) PROVE KeepsHolder
    BY <1>18 DEF ClaimRefused
  <1>19. ASSUME NEW w \in Worker, RailFinishes(w) PROVE KeepsHolder
    BY <1>19 DEF RailFinishes
  <1>20. ASSUME NEW w \in Worker, FinishRefused(w) PROVE KeepsHolder
    BY <1>20 DEF FinishRefused
  <1>21. ASSUME NEW w \in Worker, NEW v \in Report, ExecutionSettles(w, v)
         PROVE  KeepsHolder
    BY <1>21 DEF ExecutionSettles, SafeFinish, Retire, LoopTop
  <1>22. ASSUME NEW r \in Run, ExecutionWindsDown(r) PROVE KeepsHolder
    BY <1>22 DEF ExecutionWindsDown
  <1>23. ASSUME NEW r \in Run, LeaseLapses(r) PROVE KeepsHolder
    BY <1>23 DEF LeaseLapses
  <1>24. ASSUME NEW r \in Run, Sweep(r) PROVE KeepsHolder
    BY <1>24 DEF Sweep
  <1>25. ASSUME NEW r \in Run, NEW b \in Beat, Beats(r, b) PROVE KeepsHolder
    BY <1>25 DEF Beats
  <1>26. ASSUME NEW r \in Run, NEW b \in Beat, BeatReturns(r, b) PROVE KeepsHolder
    BY <1>26 DEF BeatReturns
  <1>27. ASSUME NEW r \in Run, NEW b \in Beat, BeatRejected(r, b) PROVE KeepsHolder
    BY <1>27 DEF BeatRejected, OnOwnershipLost
  <1>28. ASSUME NEW r \in Run, NEW b \in Beat, RailHeartbeat(r, b) PROVE KeepsHolder
    BY <1>28 DEF RailHeartbeat
  <1>29. ASSUME NEW r \in Run, NEW b \in Beat, BeatLost(r, b) PROVE KeepsHolder
    BY <1>29 DEF BeatLost
  <1>30. ASSUME NEW t \in Ticket, MoveTicket(t) PROVE KeepsHolder
    BY <1>30 DEF MoveTicket
  <1>31. CASE UNCHANGED vars
    BY <1>31 DEF vars
  <1> QED
    BY <1>1, <1>2, <1>3, <1>4, <1>5, <1>6, <1>7, <1>8, <1>9, <1>10, <1>11,
       <1>12, <1>13, <1>14, <1>15, <1>16, <1>17, <1>18, <1>19, <1>20, <1>21,
       <1>22, <1>23, <1>24, <1>25, <1>26, <1>27, <1>28, <1>29, <1>30, <1>31
    DEF Next, Discover, Claim, Drive, Supervise, RailServes, RailKeepsTime

\* A Run whose execution was started is hosted only if it was before.
LEMMA HostedStep ==
  ASSUME IInv, [Next]_vars, NEW r \in Run, r \in Hosted', exec[r] # "none"
  PROVE  r \in Hosted
  <1>1. rail[r] # "NONE" /\ holder[r] \in Worker
    BY DEF IInv, IRuns, RunInv, Untouched
  <1>2. holder'[r] = holder[r]
    BY <1>1, HolderStep DEF KeepsHolder
  <1>3. PICK w \in Worker : w = holder[r]
    BY <1>1
  <1>4. Alive(w)'
    BY <1>2, <1>3 DEF Hosted, Alive
  <1>5. Alive(w)
    BY <1>4, ReviveStep DEF NoneRevives
  <1> QED
    BY <1>3, <1>5 DEF Hosted

\* Elsewhere an execution is at most started.
StartsOnly ==
  \A r \in Run : exec'[r] = exec[r] \/ (exec[r] = "none" /\ exec'[r] = "running")

\* Of the steps in Elsewhere only StartRun touches an execution.
LEMMA ElsewhereStep ==
  ASSUME IInv, Elsewhere
  PROVE  StartsOnly
  <1> USE DEF StartsOnly, IInv, TypeOK, railVars, procVars, runVars
  <1>1. ASSUME NEW w \in Worker, Connect(w) PROVE StartsOnly
    BY <1>1 DEF Connect, LoopTop
  <1>2. ASSUME NEW w \in Worker, List(w) PROVE StartsOnly
    BY <1>2 DEF List, NothingClaimed
  <1>3. ASSUME NEW w \in Worker, GetTicket(w) PROVE StartsOnly
    BY <1>3 DEF GetTicket, NothingClaimed
  <1>4. ASSUME NEW w \in Worker, ReadFails(w) PROVE StartsOnly
    BY <1>4 DEF ReadFails, NothingClaimed
  <1>5. ASSUME NEW w \in Worker, ClaimThrows(w) PROVE StartsOnly
    BY <1>5 DEF ClaimThrows, NothingClaimed
  <1>6. ASSUME NEW w \in Worker, ClaimMalformed(w) PROVE StartsOnly
    BY <1>6 DEF ClaimMalformed
  <1>7. ASSUME NEW w \in Worker, ClaimedButStopping(w) PROVE StartsOnly
    BY <1>7 DEF ClaimedButStopping, SafeFinish, Retire, LoopTop
  <1>8. ASSUME NEW w \in Worker, StartRun(w) PROVE StartsOnly
    <2>1. handoff[w] \in Run /\ exec[handoff[w]] = "none"
      BY <1>8 DEF StartRun, IWorkers, HandoffInv, Untouched
    <2> QED
      BY <1>8, <2>1 DEF StartRun
  <1>9. ASSUME NEW w \in Worker, StartFails(w) PROVE StartsOnly
    BY <1>9 DEF StartFails, SafeFinish, Retire, LoopTop
  <1>10. ASSUME NEW w \in Worker, CancelReturns(w) PROVE StartsOnly
    BY <1>10 DEF CancelReturns, SafeFinish, Retire, LoopTop
  <1>11. ASSUME NEW w \in Worker, DrainEnds(w) PROVE StartsOnly
    BY <1>11 DEF DrainEnds, Retire, LoopTop
  <1>12. ASSUME NEW w \in Worker, FinishReturns(w) PROVE StartsOnly
    BY <1>12 DEF FinishReturns, Retire, LoopTop
  <1>13. ASSUME NEW w \in Worker, Wake(w) PROVE StartsOnly
    BY <1>13 DEF Wake, LoopTop
  <1>14. ASSUME NEW w \in Worker, LoopDrains(w) PROVE StartsOnly
    BY <1>14 DEF LoopDrains
  <1>15. ASSUME NEW w \in Worker, Crash(w) PROVE StartsOnly
    BY <1>15 DEF Crash
  <1>16. ASSUME NEW w \in Worker, RailClaims(w) PROVE StartsOnly
    BY <1>16 DEF RailClaims
  <1>17. ASSUME NEW w \in Worker, ClaimRefused(w) PROVE StartsOnly
    BY <1>17 DEF ClaimRefused
  <1>18. ASSUME NEW w \in Worker, RailFinishes(w) PROVE StartsOnly
    BY <1>18 DEF RailFinishes
  <1>19. ASSUME NEW w \in Worker, FinishRefused(w) PROVE StartsOnly
    BY <1>19 DEF FinishRefused
  <1>20. ASSUME NEW r \in Run, LeaseLapses(r) PROVE StartsOnly
    BY <1>20 DEF LeaseLapses
  <1>21. ASSUME NEW r \in Run, Sweep(r) PROVE StartsOnly
    BY <1>21 DEF Sweep
  <1>22. ASSUME NEW r \in Run, NEW b \in Beat, Beats(r, b) PROVE StartsOnly
    BY <1>22 DEF Beats
  <1>23. ASSUME NEW r \in Run, NEW b \in Beat, BeatReturns(r, b) PROVE StartsOnly
    BY <1>23 DEF BeatReturns
  <1>24. ASSUME NEW r \in Run, NEW b \in Beat, RailHeartbeat(r, b) PROVE StartsOnly
    BY <1>24 DEF RailHeartbeat
  <1>25. ASSUME NEW r \in Run, NEW b \in Beat, BeatLost(r, b) PROVE StartsOnly
    BY <1>25 DEF BeatLost
  <1>26. ASSUME NEW t \in Ticket, MoveTicket(t) PROVE StartsOnly
    BY <1>26 DEF MoveTicket
  <1> QED
    BY <1>1, <1>2, <1>3, <1>4, <1>5, <1>6, <1>7, <1>8, <1>9, <1>10, <1>11,
       <1>12, <1>13, <1>14, <1>15, <1>16, <1>17, <1>18, <1>19, <1>20, <1>21,
       <1>22, <1>23, <1>24, <1>25, <1>26
    DEF Elsewhere, Discover, Claim, RailServes, RailKeepsTime

-----------------------------------------------------------------------------
(* Children *)

\* What the adapter does to one execution at a time.
ProcessStep(r) ==
  Claude!Start(r) \/ Claude!Cancel(r) \/ Claude!KillTimer(r)
    \/ Claude!ChildEnds(r) \/ Claude!ChildCloses(r)

\* A step of the harness is at most one step of one child.
LEMMA ProcessSteps ==
  ASSUME [HarnessNext]_harnessVars
  PROVE  UNCHANGED childVars \/ \E r \in Run : ProcessStep(r)
  <1>1. CASE Elsewhere
    BY <1>1 DEF Elsewhere
  <1>2. ASSUME NEW w \in Worker, Stops(w)
        PROVE  UNCHANGED childVars \/ \E r \in Run : Claude!Cancel(r)
    BY <1>2 DEF Stops, Abort, Aborts
  <1>3. ASSUME NEW w \in Worker, NEW v \in Report, Settles(w, v) PROVE UNCHANGED childVars
    BY <1>3 DEF Settles
  <1>4. ASSUME NEW r \in Run, RoleStarts(r) PROVE Claude!Start(r)
    BY <1>4 DEF RoleStarts
  <1>5. ASSUME NEW r \in Run, WindsDown(r) PROVE UNCHANGED childVars
    BY <1>5 DEF WindsDown
  <1>6. ASSUME NEW r \in Run, ChildSteps(r) PROVE ProcessStep(r)
    BY <1>6 DEF ChildSteps, ProcessStep
  <1>7. ASSUME NEW r \in Run, NEW b \in Beat, Fences(r, b)
        PROVE  UNCHANGED childVars \/ \E s \in Run : Claude!Cancel(s)
    BY <1>7 DEF Fences, Abort, Aborts
  <1>8. CASE UNCHANGED harnessVars
    BY <1>8 DEF harnessVars
  <1> QED
    BY <1>1, <1>2, <1>3, <1>4, <1>5, <1>6, <1>7, <1>8 DEF HarnessNext, ProcessStep

\* Each step of the adapter keeps the types of its variables.
LEMMA ChildTypeStep ==
  ASSUME ChildTypeOK, UNCHANGED childVars \/ \E r \in Run : ProcessStep(r)
  PROVE  ChildTypeOK'
  <1> USE DEF ChildTypeOK, Claude!Child, Claude!Live, Claude!Over, Claude!Done
  <1>1. ASSUME NEW r \in Run, Claude!Start(r) PROVE ChildTypeOK'
    BY <1>1 DEF Claude!Start, Claude!Refused, Claude!Spawned
  <1>2. ASSUME NEW r \in Run, Claude!Cancel(r) PROVE ChildTypeOK'
    BY <1>2 DEF Claude!Cancel
  <1>3. ASSUME NEW r \in Run, Claude!KillTimer(r) PROVE ChildTypeOK'
    BY <1>3 DEF Claude!KillTimer
  <1>4. ASSUME NEW r \in Run, Claude!ChildEnds(r) PROVE ChildTypeOK'
    BY <1>4 DEF Claude!ChildEnds
  <1>5. ASSUME NEW r \in Run, Claude!ChildCloses(r) PROVE ChildTypeOK'
    <2>1. \A out : Claude!Settled(r, out) \in Claude!Done
      BY DEF Claude!Settled, Claude!ParseExecutionResult
    <2>2. child' \in [Run -> Claude!Child] /\ cancelled' = cancelled
      BY <1>5 DEF Claude!ChildCloses
    <2>3. sigkillTimer' \in [Run -> BOOLEAN]
      BY <1>5 DEF Claude!ChildCloses
    <2>4. done' \in [Run -> Claude!Done]
      <3>1. done' = done \/ \E out : done' = [done EXCEPT ![r] = Claude!Settled(r, out)]
        BY <1>5 DEF Claude!ChildCloses
      <3> QED
        BY <2>1, <3>1
    <2> QED
      BY <2>2, <2>3, <2>4
  <1>6. CASE UNCHANGED childVars
    BY <1>6 DEF childVars
  <1> QED
    BY <1>1, <1>2, <1>3, <1>4, <1>5, <1>6 DEF ProcessStep

\* The Runs whose execution has begun and whose process is there were so before.
KeepsHosted == \A r \in Run : exec[r] # "none" /\ r \in Hosted' => r \in Hosted

\* The listener on the signal: what cancels an execution cancels its role.
LEMMA AbortStep ==
  ASSUME HInv, KeepsHosted, Abort, NEW a \in Run, exec[a] = "running",
         exec' = [exec EXCEPT ![a] = "stopping"]
  PROVE  \A r \in Run : ChildInv(r)'
  <1> USE DEF HInv, ChildTypeOK
  <1>1. exec'[a] = "stopping" /\ \A r \in Run \ {a} : exec'[r] = exec[r]
    BY DEF IInv, TypeOK
  <1>2. \A r \in Run \ {a} : ~CancelledNow(r)
    BY <1>1 DEF CancelledNow
  <1>3. CancelledNow(a)
    BY <1>1 DEF CancelledNow
  <1>4. CASE Aborts(a)
    <2>1. Claude!Cancel(a)
      BY <1>4 DEF Aborts
    <2>2. /\ cancelled'[a] /\ done' = done
          /\ \A r \in Run \ {a} : cancelled'[r] = cancelled[r] /\ child'[r] = child[r]
      BY <2>1 DEF Claude!Cancel
    <2>3. child'[a] \in Claude!Live \cup Claude!Over => child[a] \in Claude!Live \cup Claude!Over
      BY <2>1 DEF Claude!Cancel, Claude!Live, Claude!Over
    <2>4. ChildInv(a)'
      <3>1. ChildInv(a)
        OBVIOUS
      <3> QED
        BY <1>1, <2>2, <2>3, <3>1 DEF ChildInv
    <2>5. ASSUME NEW r \in Run \ {a} PROVE ChildInv(r)'
      <3>1. ChildInv(r) /\ (exec[r] # "none" /\ r \in Hosted' => r \in Hosted)
        BY DEF KeepsHosted
      <3>2. /\ exec'[r] = exec[r] /\ cancelled'[r] = cancelled[r]
            /\ child'[r] = child[r] /\ done'[r] = done[r]
        BY <1>1, <2>2
      <3> QED
        BY <3>1, <3>2 DEF ChildInv
    <2> QED
      BY <2>4, <2>5
  <1>5. CASE UNCHANGED childVars /\ done[a] = "none"
    <2>1. ASSUME NEW r \in Run PROVE ChildInv(r)'
      <3>1. ChildInv(r) /\ (exec[r] # "none" /\ r \in Hosted' => r \in Hosted)
        BY DEF KeepsHosted
      <3>2. /\ r = a \/ exec'[r] = exec[r]
            /\ cancelled'[r] = cancelled[r] /\ child'[r] = child[r] /\ done'[r] = done[r]
        BY <1>1, <1>5 DEF childVars
      <3> QED
        BY <1>1, <1>5, <3>1, <3>2 DEF ChildInv
    <2> QED
      BY <2>1
  <1> QED
    BY <1>2, <1>3, <1>4, <1>5 DEF Abort, Aborts

\* Without a role to touch, an execution goes on as it is, starts, or ends when
\* its last role has.
LEMMA UntouchedStep ==
  ASSUME HInv, KeepsHosted, UNCHANGED childVars,
         \A r \in Run : \/ exec'[r] = exec[r]
                        \/ exec[r] = "none"
                        \/ exec'[r] # "none" /\ done[r] # "pending"
  PROVE  \A r \in Run : ChildInv(r)'
  <1> SUFFICES ASSUME NEW r \in Run PROVE ChildInv(r)'
    OBVIOUS
  <1>1. ChildInv(r) /\ (exec[r] # "none" /\ r \in Hosted' => r \in Hosted)
    BY DEF HInv, KeepsHosted
  <1>2. cancelled'[r] = cancelled[r] /\ child'[r] = child[r] /\ done'[r] = done[r]
    BY DEF childVars
  <1>3. CASE exec[r] = "none"
    BY <1>1, <1>2, <1>3 DEF ChildInv
  <1> QED
    BY <1>1, <1>2, <1>3 DEF ChildInv

\* A process of the adapter, while no execution changes.
LEMMA AloneStep ==
  ASSUME HInv, UNCHANGED vars, NEW p \in Run,
         \/ exec[p] = "running" /\ p \in Hosted /\ Claude!Start(p)
         \/ Claude!KillTimer(p) \/ Claude!ChildEnds(p) \/ Claude!ChildCloses(p)
  PROVE  \A r \in Run : ChildInv(r)'
  <1> USE DEF ChildTypeOK, Claude!Live, Claude!Over
  <1>1. exec' = exec /\ Hosted' = Hosted
    BY DEF vars, Hosted, Alive, railVars, procVars, runVars
  <1>2. \A r \in Run : ChildInv(r)
    BY DEF HInv
  <1>3. ChildTypeOK
    BY DEF HInv
  <1>4. CASE exec[p] = "running" /\ p \in Hosted /\ Claude!Start(p)
    BY <1>1, <1>2, <1>3, <1>4 DEF ChildInv, Claude!Start, Claude!Refused, Claude!Spawned
  <1>5. CASE Claude!KillTimer(p)
    BY <1>1, <1>2, <1>3, <1>5 DEF ChildInv, Claude!KillTimer
  <1>6. CASE Claude!ChildEnds(p)
    BY <1>1, <1>2, <1>3, <1>6 DEF ChildInv, Claude!ChildEnds
  <1>7. CASE Claude!ChildCloses(p)
    BY <1>1, <1>2, <1>3, <1>7 DEF ChildInv, Claude!ChildCloses
  <1> QED
    BY <1>4, <1>5, <1>6, <1>7
-----------------------------------------------------------------------------
(* The inductive step *)

\* Every step of the harness keeps what is known of every child.
LEMMA ChildStep ==
  ASSUME HInv, [HarnessNext]_harnessVars
  PROVE  \A r \in Run : ChildInv(r)'
  <1>1. KeepsHosted
    BY WorkerStep, HostedStep DEF HInv, KeepsHosted
  <1>2. TypeOK /\ ChildTypeOK
    BY DEF HInv, IInv
  <1>3. CASE Elsewhere
    <2>1. StartsOnly
      BY <1>3, ElsewhereStep DEF HInv
    <2> QED
      BY <1>1, <1>3, <2>1, UntouchedStep DEF StartsOnly, Elsewhere
  <1>4. ASSUME NEW w \in Worker, Stops(w) PROVE \A r \in Run : ChildInv(r)'
    <2>1. CASE exec' = exec
      <3>1. UNCHANGED childVars
        BY <1>4, <2>1 DEF Stops, Abort, Aborts, CancelledNow
      <3> QED
        BY <1>1, <2>1, <3>1, UntouchedStep
    <2>2. CASE exec' # exec
      <3>1. /\ pc[w] = "race"
            /\ exec' = [exec EXCEPT ![active[w]] = Cancelled(active[w])]
        BY <1>4, <2>2 DEF Stops, RequestStop
      <3>2. active[w] \in Run /\ exec[active[w]] = "running"
        BY <1>2, <3>1 DEF HInv, IInv, IWorkers, ActiveInv, PhaseInv, Driving, TypeOK
      <3> QED
        BY <1>1, <1>4, <3>1, <3>2, AbortStep DEF Stops, Cancelled
    <2> QED
      BY <2>1, <2>2
  <1>5. ASSUME NEW w \in Worker, NEW v \in Report, Settles(w, v)
        PROVE  \A r \in Run : ChildInv(r)'
    <2>1. exec' = [exec EXCEPT ![active[w]] = v] /\ done[active[w]] # "pending"
      BY <1>5 DEF Settles, ExecutionSettles
    <2>2. v # "none"
      BY Constants
    <2> QED
      BY <1>1, <1>2, <1>5, <2>1, <2>2, UntouchedStep DEF TypeOK, Settles
  <1>6. ASSUME NEW p \in Run, RoleStarts(p) PROVE \A r \in Run : ChildInv(r)'
    BY <1>6, AloneStep DEF RoleStarts
  <1>7. ASSUME NEW p \in Run, WindsDown(p) PROVE \A r \in Run : ChildInv(r)'
    <2>1. exec' = [exec EXCEPT ![p] = "stopped"] /\ done[p] # "pending"
      BY <1>7 DEF WindsDown, ExecutionWindsDown
    <2> QED
      BY <1>1, <1>2, <1>7, <2>1, UntouchedStep DEF TypeOK, WindsDown
  <1>8. ASSUME NEW p \in Run, ChildSteps(p) PROVE \A r \in Run : ChildInv(r)'
    BY <1>8, AloneStep DEF ChildSteps
  <1>9. ASSUME NEW p \in Run, NEW b \in Beat, Fences(p, b) PROVE \A r \in Run : ChildInv(r)'
    <2> DEFINE a == active[holder[p]]
    <2>1. OnOwnershipLost(holder[p])
      BY <1>9 DEF Fences, BeatRejected
    <2>2. CASE exec' = exec
      <3>1. UNCHANGED childVars
        BY <1>9, <2>2 DEF Fences, Abort, Aborts, CancelledNow
      <3> QED
        BY <1>1, <2>2, <3>1, UntouchedStep
    <2>3. CASE exec' # exec
      <3>1. a # NoRun /\ exec' = [exec EXCEPT ![a] = Cancelled(a)]
        BY <2>1, <2>3 DEF OnOwnershipLost
      <3>2. holder[p] \in Worker
        <4>1. beat[p][b] = "rejected"
          BY <1>9 DEF Fences, BeatRejected
        <4> QED
          BY <4>1 DEF HInv, IInv, IRuns, RunInv
      <3>3. a \in Run
        BY <1>2, <3>1, <3>2 DEF TypeOK
      <3>4. exec[a] = "running"
        BY <1>2, <2>3, <3>1, <3>3 DEF Cancelled, TypeOK
      <3> QED
        BY <1>1, <1>9, <3>1, <3>3, <3>4, AbortStep DEF Fences, Cancelled
    <2> QED
      BY <2>2, <2>3
  <1>10. CASE UNCHANGED harnessVars
    BY <1>1, <1>10, UntouchedStep DEF harnessVars, vars, runVars
  <1> QED
    BY <1>3, <1>4, <1>5, <1>6, <1>7, <1>8, <1>9, <1>10 DEF HarnessNext

\* What the worker, Rail and the children are in together, at every moment.
THEOREM HarnessInvariance == HarnessSpec => []HInv
  <1> DEFINE Rest == CandInv /\ RailInv /\ ChildTypeOK /\ \A r \in Run : ChildInv(r)
  <1>1. HarnessInit => Rest
    <2> SUFFICES ASSUME HarnessInit PROVE Rest
      OBVIOUS
    <2>1. CandInv /\ RailInv
      BY DEF HarnessInit, Init, CandInv, RailInv
    <2>2. ChildTypeOK
      BY DEF HarnessInit, Claude!Init, ChildTypeOK, Claude!Child, Claude!Done
    <2>3. \A r \in Run : ChildInv(r)
      BY DEF HarnessInit, Claude!Init, ChildInv, Claude!Live, Claude!Over
    <2> QED
      BY <2>1, <2>2, <2>3
  <1>2. IInv /\ Rest /\ [HarnessNext]_harnessVars => Rest'
    <2> SUFFICES ASSUME HInv, [HarnessNext]_harnessVars PROVE Rest'
      BY DEF HInv
    <2>1. CandInv' /\ RailInv'
      BY WorkerStep, CandStep, RailStep DEF HInv
    <2>2. ChildTypeOK'
      BY ProcessSteps, ChildTypeStep DEF HInv
    <2> QED
      BY <2>1, <2>2, ChildStep
  <1>3. IInv /\ Rest => HInv
    BY DEF HInv
  <1> HIDE DEF Rest
  <1> QED
    BY <1>1, <1>2, <1>3, HarnessIsAWorker, Invariance, PTL DEF HarnessSpec

-----------------------------------------------------------------------------
(* The theorems *)

\* Whatever steps worker, Rail and adapter interleave, a child, its timer and
\* its promise keep their types.
THEOREM ChildTyping == HarnessSpec => []ChildTypeOK
  <1>1. HInv => ChildTypeOK
    BY DEF HInv
  <1> QED
    BY <1>1, HarnessInvariance, PTL

\* No child is left at work that its process neither wants nor has told to
\* stop, unless the process is gone (cancel(), requestStop, onOwnershipLost).
THEOREM NoChildStrays == HarnessSpec => []NoStrayChild
  <1>1. HInv => NoStrayChild
    <2> SUFFICES ASSUME HInv, NEW r \in Run, Running(r), r \in Hosted
                 PROVE  \/ cancelled[r] /\ exec[r] = "stopping"
                        \/ /\ exec[r] = "running" /\ pc[holder[r]] = "race"
                           /\ active[holder[r]] = r /\ ~cancelled[r]
      BY DEF NoStrayChild
    <2>1. ChildInv(r) /\ ExecInv(r) /\ holder[r] \in Worker /\ pc[holder[r]] \in Awaiting
      BY DEF HInv, IInv, IRuns, Hosted, Alive
    <2>2. (exec[r] = "running" /\ ~cancelled[r]) \/ (exec[r] = "stopping" /\ cancelled[r])
      BY <2>1 DEF ChildInv, Running, Claude!Live
    <2>3. CASE exec[r] = "running" /\ ~cancelled[r]
      <3>1. active[holder[r]] = r /\ pc[holder[r]] \in Driving
        BY <2>1, <2>3 DEF ExecInv, Awaiting
      <3>2. PhaseInv(holder[r])
        BY <2>1 DEF HInv, IInv, IWorkers
      <3> QED
        BY <2>3, <3>1, <3>2 DEF PhaseInv, Driving
    <2> QED
      BY <2>2, <2>3
  <1> QED
    BY <1>1, HarnessInvariance, PTL

\* A child that works unhindered belongs to an open or swept Run.
LEMMA WantedIsOpen ==
  ASSUME HInv, NoStrayChild, NEW r \in Run, Running(r), ~Doomed(r)
  PROVE  rail[r] = "OPEN"
  <1>1. /\ holder[r] \in Worker /\ pc[holder[r]] = "race" /\ active[holder[r]] = r
        /\ exec[r] = "running"
    BY DEF NoStrayChild, Doomed, Hosted
  <1>2. ~runFinished[r]
    BY <1>1 DEF HInv, IInv, IWorkers, PhaseInv, MayFinish
  <1>3. rail[r] # "NONE"
    BY <1>1 DEF HInv, IInv, IRuns, RunInv, Untouched
  <1> QED
    BY <1>2, <1>3 DEF HInv, RailInv, Doomed

\* Two children never work unhindered for the same ticket, in whose worktree
\* both would write (Rail closes a Run before it claims the next).
THEOREM WorktreeIsExclusive == HarnessSpec => []ExclusiveWorktree
  <1>1. HInv /\ NoStrayChild => ExclusiveWorktree
    <2> SUFFICES ASSUME HInv, NoStrayChild, NEW r \in Run, NEW s \in Run,
                        of[r] = of[s], Running(r), Running(s), ~Doomed(r), ~Doomed(s)
                 PROVE  r = s
      BY DEF ExclusiveWorktree
    <2> QED
      BY WantedIsOpen DEF HInv, RailInv
  <1> QED
    BY <1>1, HarnessInvariance, NoChildStrays, PTL

-----------------------------------------------------------------------------
(* What a Run is reported to have done *)

\* What the last role of a completed execution may have answered.
Passed == {"none", "IMPLEMENTED", "RELEASE"}

\* An execution that reported COMPLETED has no role pending, and its last one
\* gave an answer that leads there.
EarnedInv(r) == exec[r] = "COMPLETED" => done[r] \in Passed

\* EarnedInv survives steps that only end executions otherwise, and leave the
\* promises of those that completed alone.
LEMMA EarnedKept ==
  ASSUME \A r \in Run : EarnedInv(r),
         \A r \in Run : exec'[r] = "COMPLETED" =>
           exec[r] = "COMPLETED" /\ done'[r] = done[r]
  PROVE  \A r \in Run : EarnedInv(r)'
  BY DEF EarnedInv

\* Only an execution that settles (createOrchestrationExecution: done) completes,
\* and no role of a completed execution starts, is cancelled or settles.
LEMMA EarnedStep ==
  ASSUME HInv, \A r \in Run : EarnedInv(r), [HarnessNext]_harnessVars
  PROVE  \A r \in Run : EarnedInv(r)'
  <1> USE DEF HInv, IInv, TypeOK, ChildTypeOK
  <1>1. CASE Elsewhere
    <2>1. StartsOnly /\ UNCHANGED childVars
      BY <1>1, ElsewhereStep DEF Elsewhere
    <2> QED
      BY <2>1, EarnedKept DEF StartsOnly, childVars
  <1>2. ASSUME NEW w \in Worker, Stops(w) PROVE \A r \in Run : EarnedInv(r)'
    <2>1. UNCHANGED done
      BY <1>2 DEF Stops, Abort, Aborts, Claude!Cancel, childVars
    <2>2. \A r \in Run : exec'[r] = "COMPLETED" => exec[r] = "COMPLETED"
      BY <1>2 DEF Stops, RequestStop, Cancelled
    <2> QED
      BY <2>1, <2>2, EarnedKept
  <1>3. ASSUME NEW w \in Worker, NEW v \in Report, Settles(w, v)
        PROVE  \A r \in Run : EarnedInv(r)'
    <2>1. /\ exec' = [exec EXCEPT ![active[w]] = v] /\ UNCHANGED childVars
          /\ v \in Reports(done[active[w]])
      BY <1>3 DEF Settles, ExecutionSettles
    <2>2. v = "COMPLETED" => done[active[w]] \in Passed
      BY <2>1 DEF Reports, Passed
    <2> QED
      BY <2>1, <2>2 DEF EarnedInv, childVars
  <1>4. ASSUME NEW p \in Run, RoleStarts(p) PROVE \A r \in Run : EarnedInv(r)'
    BY <1>4, EarnedKept DEF RoleStarts, vars, runVars, Claude!Start, Claude!Refused, Claude!Spawned
  <1>5. ASSUME NEW p \in Run, WindsDown(p) PROVE \A r \in Run : EarnedInv(r)'
    BY <1>5, EarnedKept DEF WindsDown, ExecutionWindsDown, childVars
  <1>6. ASSUME NEW p \in Run, ChildSteps(p) PROVE \A r \in Run : EarnedInv(r)'
    <2>1. exec' = exec
      BY <1>6 DEF ChildSteps, vars, runVars
    <2>2. CASE Claude!KillTimer(p) \/ Claude!ChildEnds(p)
      BY <2>1, <2>2, EarnedKept DEF Claude!KillTimer, Claude!ChildEnds
    <2>3. CASE Claude!ChildCloses(p)
      <3>1. done[p] = "pending"
        BY <2>3 DEF Claude!ChildCloses, ChildInv
      <3>2. exec[p] # "COMPLETED"
        BY <3>1 DEF EarnedInv, Passed
      <3>3. \A r \in Run \ {p} : done'[r] = done[r]
        BY <2>3 DEF Claude!ChildCloses
      <3> QED
        BY <2>1, <3>2, <3>3, EarnedKept
    <2> QED
      BY <1>6, <2>2, <2>3 DEF ChildSteps
  <1>7. ASSUME NEW p \in Run, NEW b \in Beat, Fences(p, b)
        PROVE  \A r \in Run : EarnedInv(r)'
    <2>1. UNCHANGED done
      BY <1>7 DEF Fences, Abort, Aborts, Claude!Cancel, childVars
    <2>2. \A r \in Run : exec'[r] = "COMPLETED" => exec[r] = "COMPLETED"
      BY <1>7 DEF Fences, BeatRejected, OnOwnershipLost, Cancelled
    <2> QED
      BY <2>1, <2>2, EarnedKept
  <1>8. CASE UNCHANGED harnessVars
    BY <1>8, EarnedKept DEF harnessVars, vars, runVars, childVars
  <1> QED
    BY <1>1, <1>2, <1>3, <1>4, <1>5, <1>6, <1>7, <1>8 DEF HarnessNext

\* What it takes to be COMPLETED, from Rail down to the child.
CompletedIsEarned ==
  \A r \in Run : rail[r] = "COMPLETED" =>
    exec[r] = "COMPLETED" /\ child[r] = "none" /\ done[r] \in Passed

\* A Run that Rail has as COMPLETED has no child at work, and was not completed on
\* a role that was cancelled, crashed, or answered BLOCKED or FAILED: neither
\* runClaimed, teardownActive nor the adapter makes a success of those.
THEOREM SuccessIsEarned == HarnessSpec => []CompletedIsEarned
  <1> DEFINE Earned == \A r \in Run : EarnedInv(r)
             Truth  == \A r \in Run : rail[r] = "COMPLETED" => exec[r] = "COMPLETED"
  <1>1. HarnessInit => Earned
    BY DEF HarnessInit, Init, EarnedInv
  <1>2. HInv /\ Earned /\ [HarnessNext]_harnessVars => Earned'
    BY EarnedStep
  <1>3. HInv /\ Earned /\ Truth => CompletedIsEarned
    <2> SUFFICES ASSUME HInv, Earned, Truth, NEW r \in Run, rail[r] = "COMPLETED"
                 PROVE  exec[r] = "COMPLETED" /\ child[r] = "none" /\ done[r] \in Passed
      BY DEF CompletedIsEarned
    <2>1. exec[r] = "COMPLETED" /\ done[r] \in Passed
      BY DEF EarnedInv
    <2>2. child[r] \notin Claude!Live \cup Claude!Over
      BY <2>1 DEF HInv, ChildInv, Passed
    <2> QED
      BY <2>1, <2>2 DEF HInv, ChildTypeOK, Claude!Child
  <1>4. Spec => []Truth
    BY CompletedIsReported
  <1> HIDE DEF Earned, Truth
  <1> QED
    BY <1>1, <1>2, <1>3, <1>4, HarnessInvariance, HarnessIsAWorker, PTL DEF HarnessSpec

-----------------------------------------------------------------------------
(* The adapter keeps its contract *)

\* Each step of the adapter is one of the contract, or changes nothing it shows.
LEMMA ContractStep ==
  ASSUME HInv, UNCHANGED childVars \/ \E r \in Run : ProcessStep(r)
  PROVE  [Contract!Next]_(Contract!vars)
  <1> USE DEF Claude!Live, Claude!Over, Claude!Child
  <1>1. /\ child \in [Run -> Claude!Child] /\ cancelled \in [Run -> BOOLEAN]
        /\ done \in [Run -> Claude!Done]
    BY DEF HInv, ChildTypeOK
  <1> DEFINE work == [r \in Run |-> Work(child[r])]
  <1>2. ASSUME NEW e \in Run, Claude!Start(e) PROVE Contract!Begin(e) \/ Contract!Decline(e)
    <2>1. /\ done[e] # "pending"
          /\ cancelled' = [cancelled EXCEPT ![e] = FALSE]
      BY <1>2 DEF Claude!Start, Claude!Closed
    <2>2. CASE Claude!Spawned(e)
      <3>1. work' = [work EXCEPT ![e] = "working"]
        BY <1>1, <2>2 DEF Claude!Spawned, Work
      <3> QED
        BY <2>1, <2>2, <3>1 DEF Contract!Begin, Claude!Spawned
    <2>3. CASE Claude!Refused(e)
      <3>1. work' = [work EXCEPT ![e] = "idle"]
        BY <1>1, <2>3 DEF Claude!Refused, Work
      <3> QED
        BY <2>1, <2>3, <3>1 DEF Contract!Decline, Claude!Refused
    <2> QED
      BY <1>2, <2>2, <2>3 DEF Claude!Start
  <1>3. ASSUME NEW e \in Run, Claude!Cancel(e) PROVE Contract!Abandon(e)
    <2>1. \A r \in Run : Work(child'[r]) = Work(child[r])
      BY <1>1, <1>3 DEF Claude!Cancel, Work
    <2> QED
      BY <1>3, <2>1 DEF Claude!Cancel, Contract!Abandon
  <1>4. ASSUME NEW e \in Run, Claude!KillTimer(e) PROVE UNCHANGED Contract!vars
    <2>1. \A r \in Run : Work(child'[r]) = Work(child[r])
      BY <1>1, <1>4 DEF Claude!KillTimer, Work
    <2> QED
      BY <1>4, <2>1 DEF Claude!KillTimer, Contract!vars
  <1>5. ASSUME NEW e \in Run, Claude!ChildEnds(e) PROVE Contract!End(e)
    <2>1. PICK how \in Claude!Over : child' = [child EXCEPT ![e] = how]
      BY <1>5 DEF Claude!ChildEnds
    <2>2. Work(how) \in {"well", "badly"}
      BY DEF Work
    <2>3. work' = [work EXCEPT ![e] = Work(how)]
      BY <1>1, <2>1
    <2>4. work[e] = "working"
      BY <1>5 DEF Claude!ChildEnds, Work
    <2> QED
      BY <1>5, <2>2, <2>3, <2>4 DEF Claude!ChildEnds, Contract!End
  <1>6. ASSUME NEW e \in Run, Claude!ChildCloses(e) PROVE Contract!Settle(e) \/ Contract!Fade(e)
    <2>1. /\ child[e] \in Claude!Over /\ child' = [child EXCEPT ![e] = "none"]
          /\ cancelled' = cancelled
      BY <1>6 DEF Claude!ChildCloses
    <2>2. Work("none") = "idle"
      BY DEF Work
    <2>3. work' = [work EXCEPT ![e] = "idle"]
      BY <1>1, <2>1, <2>2
    <2>4. work[e] \in {"well", "badly"}
      BY <2>1 DEF Work
    <2>5. CASE done' = done
      BY <2>1, <2>3, <2>4, <2>5 DEF Contract!Fade
    <2>6. ASSUME NEW out \in Claude!Stdout, done' = [done EXCEPT ![e] = Claude!Settled(e, out)]
          PROVE  Contract!Settle(e)
      <3>1. done[e] = "pending"
        BY <2>1 DEF HInv, ChildInv
      <3>2. \/ Claude!Settled(e, out) = "rejected"
            \/ /\ Claude!Settled(e, out) \in RoleOutcome
               /\ child[e] = "zero" /\ ~cancelled[e]
        BY DEF Claude!Settled, Claude!ParseExecutionResult
      <3>3. child[e] = "zero" => work[e] = "well"
        BY DEF Work
      <3> QED
        BY <2>1, <2>3, <2>4, <2>6, <3>1, <3>2, <3>3 DEF Contract!Settle
    <2> QED
      BY <1>6, <2>5, <2>6 DEF Claude!ChildCloses
  <1>7. CASE UNCHANGED childVars
    BY <1>7 DEF childVars, Contract!vars
  <1> QED
    BY <1>2, <1>3, <1>4, <1>5, <1>6, <1>7 DEF ProcessStep, Contract!Next

\* Whatever the worker does meanwhile, `done` settles only after the child has
\* ended, and with a result only if it exited with 0 and was not cancelled.
THEOREM ContractIsKept == HarnessSpec => ImplementsContract
  <1>1. HarnessInit => Contract!Init
    <2> SUFFICES ASSUME HarnessInit PROVE Contract!Init
      OBVIOUS
    <2>1. Work("none") = "idle"
      BY DEF Work, Claude!Live
    <2> QED
      BY <2>1 DEF HarnessInit, Claude!Init, Contract!Init
  <1>2. HInv /\ [HarnessNext]_harnessVars => [Contract!Next]_(Contract!vars)
    BY ProcessSteps, ContractStep
  <1> QED
    BY <1>1, <1>2, HarnessInvariance, PTL DEF HarnessSpec, ImplementsContract, Contract!Spec

=============================================================================
