-------------------------- MODULE WorkerCoreProofs --------------------------
(***************************************************************************)
(* Theorems about WorkerCore: its type invariant and its safety            *)
(* properties, for every set of processes, tickets, Runs and heartbeats.   *)
(* All of them follow from one inductive invariant, IInv.                  *)
(***************************************************************************)
EXTENDS WorkerCore, TLAPS

Idle    == {"connect", "list", "get", "claim", "sleep", "stopped", "drained"}
Driving == {"race", "cancel", "drain", "finish"}

\* Nothing has been done yet for the Run.
Untouched(r) ==
  exec[r] = "none" /\ ~timer[r] /\ ~ownershipLost[r] /\ ~runFinished[r]

\* A Run has a holder, and a history, from its claim on.
RunInv(r) ==
  /\ rail[r] = "NONE" => Untouched(r) /\ \A b \in Beat : beat[r][b] = "none"
  /\ rail[r] # "NONE" => holder[r] \in Worker

\* The heartbeat of a Run is armed only while its process drives that Run.
TimerInv(r) ==
  timer[r] => /\ holder[r] \in Worker
              /\ active[holder[r]] = r
              /\ pc[holder[r]] \in {"race", "cancel", "drain", "dead"}

\* `active` is a Run of the process; between Runs there is neither an active
\* Run nor a fence.
ActiveInv(w) ==
  /\ active[w] # NoRun => rail[active[w]] # "NONE" /\ holder[active[w]] = w
  /\ pc[w] \in Driving => active[w] # NoRun
  /\ pc[w] \in Idle => active[w] = NoRun /\ ~fenced[w]
  /\ fenced[w] /\ active[w] # NoRun => ownershipLost[active[w]]

\* What has happened to the active Run at each await of runClaimed().
PhaseInv(w) ==
  /\ pc[w] = "race" => timer[active[w]] /\ exec[active[w]] = "running"
                       /\ MayFinish(w, active[w])
  /\ pc[w] \in {"cancel", "drain", "finish"} => exec[active[w]] # "running"
  /\ pc[w] = "drain" => ownershipLost[active[w]]
  /\ pc[w] = "finish" => runFinished[active[w]] /\ closing[w] \in RunOutcome

\* A reply is pending only in the two awaits that read one; a claim reply hands
\* over a fresh Run of this process.
HandoffInv(w) ==
  /\ pc[w] \in Awaiting \ {"claim", "finish"} => reply[w] = "none"
  /\ pc[w] = "claim" /\ reply[w] = "won" =>
       /\ handoff[w] \in Run /\ holder[handoff[w]] = w
       /\ rail[handoff[w]] # "NONE" /\ Untouched(handoff[w])

\* A started execution is the active one, or was settled or cancelled and its
\* Run finished or lost.
ExecInv(r) ==
  exec[r] # "none" =>
    \/ active[holder[r]] = r /\ pc[holder[r]] \in Driving \cup {"dead"}
    \/ exec[r] # "running" /\ (runFinished[r] \/ ownershipLost[r])

IRuns    == \A r \in Run : RunInv(r) /\ TimerInv(r) /\ ExecInv(r)
IWorkers == \A w \in Worker : ActiveInv(w) /\ PhaseInv(w) /\ HandoffInv(w)

IInv == TypeOK /\ IRuns /\ IWorkers

-----------------------------------------------------------------------------
(* Types *)

\* What safeFinish() leaves of the types.
LEMMA SafeFinishType ==
  ASSUME TypeOK, NEW w \in Worker, NEW r \in Run \cup {NoRun}, NEW o \in RunOutcome,
         SafeFinish(w, r, o)
  PROVE  /\ pc' \in [Worker -> Awaiting \cup Ended]
         /\ cand' \in [Worker -> Ticket \cup {NoTicket}]
         /\ active' \in [Worker -> Run \cup {NoRun}]
         /\ fenced' \in [Worker -> BOOLEAN]
         /\ closing' \in [Worker -> RunOutcome \cup {"none"}]
         /\ runFinished' \in [Run -> BOOLEAN]
  <1> USE DEF TypeOK, Awaiting, Ended, RunOutcome, SafeFinish, Retire, LoopTop
  <1>1. pc' \in [Worker -> Awaiting \cup Ended]
    OBVIOUS
  <1>2. cand' \in [Worker -> Ticket \cup {NoTicket}]
    OBVIOUS
  <1>3. active' \in [Worker -> Run \cup {NoRun}]
    OBVIOUS
  <1>4. fenced' \in [Worker -> BOOLEAN]
    OBVIOUS
  <1>5. closing' \in [Worker -> RunOutcome \cup {"none"}]
    OBVIOUS
  <1>6. runFinished' \in [Run -> BOOLEAN]
    OBVIOUS
  <1> QED
    BY <1>1, <1>2, <1>3, <1>4, <1>5, <1>6

\* Every step preserves the types, given that a finishRun in flight carries an
\* outcome.
LEMMA TypeStep ==
  ASSUME TypeOK, [Next]_vars,
         \A w \in Worker : pc[w] = "finish" => closing[w] \in RunOutcome
  PROVE  TypeOK'
  <1> USE DEF TypeOK, railVars, procVars, runVars
  <1>1. ASSUME NEW w \in Worker, Connect(w) PROVE TypeOK'
    BY <1>1 DEF Connect, LoopTop, Awaiting, Ended
  <1>2. ASSUME NEW w \in Worker, List(w) PROVE TypeOK'
    <2>1. CASE Heads = {} /\ NothingClaimed(w)
      BY <1>2, <2>1 DEF List, NothingClaimed, Awaiting, Ended
    <2>2. CASE \E t \in Heads : /\ cand' = [cand EXCEPT ![w] = t]
                                /\ pc' = [pc EXCEPT ![w] = "get"]
      BY <1>2, <2>2 DEF List, Heads, Awaiting, Ended
    <2> QED
      BY <1>2, <2>1, <2>2 DEF List, Awaiting, Ended
  <1>3. ASSUME NEW w \in Worker, GetTicket(w) PROVE TypeOK'
    BY <1>3 DEF GetTicket, NothingClaimed, Awaiting, Ended
  <1>4. ASSUME NEW w \in Worker, ReadFails(w) PROVE TypeOK'
    BY <1>4 DEF ReadFails, NothingClaimed, Awaiting, Ended
  <1>5. ASSUME NEW w \in Worker, ClaimThrows(w) PROVE TypeOK'
    BY <1>5 DEF ClaimThrows, NothingClaimed, Awaiting, Ended, Reply
  <1>6. ASSUME NEW w \in Worker, ClaimMalformed(w) PROVE TypeOK'
    BY <1>6 DEF ClaimMalformed, Awaiting, Ended, Reply
  <1>7. ASSUME NEW w \in Worker, ClaimedButStopping(w) PROVE TypeOK'
    BY <1>7, SafeFinishType DEF ClaimedButStopping, Reply, RunOutcome
  <1>8. ASSUME NEW w \in Worker, StartRun(w) PROVE TypeOK'
    BY <1>8 DEF StartRun, Awaiting, Ended, Reply, ExecState
  <1>9. ASSUME NEW w \in Worker, StartFails(w) PROVE TypeOK'
    BY <1>9, SafeFinishType DEF StartFails, Reply, RunOutcome
  <1>10. ASSUME NEW w \in Worker, CancelReturns(w) PROVE TypeOK'
    BY <1>10, SafeFinishType DEF CancelReturns, RunOutcome
  <1>11. ASSUME NEW w \in Worker, DrainEnds(w) PROVE TypeOK'
    BY <1>11 DEF DrainEnds, Retire, LoopTop, Awaiting, Ended
  <1>12. ASSUME NEW w \in Worker, FinishReturns(w) PROVE TypeOK'
    BY <1>12 DEF FinishReturns, Retire, LoopTop, Awaiting, Ended, Reply
  <1>13. ASSUME NEW w \in Worker, Wake(w) PROVE TypeOK'
    BY <1>13 DEF Wake, LoopTop, Awaiting, Ended
  <1>14. ASSUME NEW w \in Worker, LoopDrains(w) PROVE TypeOK'
    BY <1>14 DEF LoopDrains, Awaiting, Ended
  <1>15. ASSUME NEW w \in Worker, RequestStop(w) PROVE TypeOK'
    <2>1. pc' \in [Worker -> Awaiting \cup Ended]
      BY <1>15 DEF RequestStop, Awaiting, Ended
    <2>2. stopRequested' \in [Worker -> BOOLEAN]
      BY <1>15 DEF RequestStop
    <2>3. exec' \in [Run -> ExecState]
      BY <1>15 DEF RequestStop, Cancelled, ExecState
    <2> QED
      BY <1>15, <2>1, <2>2, <2>3 DEF RequestStop
  <1>16. ASSUME NEW w \in Worker, Crash(w) PROVE TypeOK'
    BY <1>16 DEF Crash, Alive, Awaiting, Ended
  <1>17. ASSUME NEW w \in Worker, RailClaims(w) PROVE TypeOK'
    <2>1. rail' \in [Run -> RunState] /\ ticket' \in [Ticket -> {"READY", "CLAIMED", "HELD"}]
      BY <1>17 DEF RailClaims, RunState
    <2>2. of' \in [Run -> Ticket \cup {NoTicket}]
      BY <1>17 DEF RailClaims
    <2>3. holder' \in [Run -> Worker \cup {NoWorker}]
      BY <1>17 DEF RailClaims
    <2>4. reply' \in [Worker -> Reply]
      BY <1>17 DEF RailClaims, Reply
    <2>5. handoff' \in [Worker -> Run \cup {NoRun}]
      BY <1>17 DEF RailClaims
    <2> QED
      BY <1>17, <2>1, <2>2, <2>3, <2>4, <2>5 DEF RailClaims
  <1>18. ASSUME NEW w \in Worker, ClaimRefused(w) PROVE TypeOK'
    BY <1>18 DEF ClaimRefused, Reply
  <1>19. ASSUME NEW w \in Worker, RailFinishes(w) PROVE TypeOK'
    <2>1. PICK a \in {"ok", "fail"} : reply' = [reply EXCEPT ![w] = a]
      BY <1>19 DEF RailFinishes
    <2>2. closing[w] \in RunOutcome
      BY <1>19 DEF RailFinishes
    <2> QED
      BY <1>19, <2>1, <2>2 DEF RailFinishes, RunState, Reply
  <1>20. ASSUME NEW w \in Worker, FinishRefused(w) PROVE TypeOK'
    BY <1>20 DEF FinishRefused, Reply
  <1>21. ASSUME NEW w \in Worker, NEW v \in Report, ExecutionSettles(w, v)
        PROVE TypeOK'
    <2>1. FinishOutcome(v) \in RunOutcome
      BY DEF FinishOutcome, RunOutcome
    <2>2. exec' \in [Run -> ExecState]
      BY <1>21, Constants DEF ExecutionSettles, ExecState, Verdict, RunOutcome
    <2>3. timer' \in [Run -> BOOLEAN]
      BY <1>21 DEF ExecutionSettles
    <2> QED
      BY <1>21, <2>1, <2>2, <2>3, SafeFinishType DEF ExecutionSettles
  <1>22. ASSUME NEW r \in Run, ExecutionWindsDown(r) PROVE TypeOK'
    BY <1>22 DEF ExecutionWindsDown, ExecState
  <1>23. ASSUME NEW r \in Run, LeaseLapses(r) PROVE TypeOK'
    BY <1>23 DEF LeaseLapses
  <1>24. ASSUME NEW r \in Run, Sweep(r) PROVE TypeOK'
    BY <1>24 DEF Sweep, RunState, RunOutcome
  <1>25. ASSUME NEW r \in Run, NEW b \in Beat, Beats(r, b) PROVE TypeOK'
    BY <1>25 DEF Beats, BeatState
  <1>26. ASSUME NEW r \in Run, NEW b \in Beat, BeatReturns(r, b) PROVE TypeOK'
    BY <1>26 DEF BeatReturns, BeatState
  <1>27. ASSUME NEW r \in Run, NEW b \in Beat, BeatRejected(r, b) PROVE TypeOK'
    <2>1. beat' \in [Run -> [Beat -> BeatState]]
      BY <1>27 DEF BeatRejected, BeatState
    <2>2. timer' \in [Run -> BOOLEAN]
      BY <1>27 DEF BeatRejected
    <2>3. ownershipLost' \in [Run -> BOOLEAN]
      BY <1>27 DEF BeatRejected, OnOwnershipLost
    <2>4. fenced' \in [Worker -> BOOLEAN]
      BY <1>27 DEF BeatRejected, OnOwnershipLost
    <2>5. exec' \in [Run -> ExecState]
      BY <1>27 DEF BeatRejected, OnOwnershipLost, Cancelled, ExecState
    <2>6. pc' \in [Worker -> Awaiting \cup Ended]
      BY <1>27 DEF BeatRejected, OnOwnershipLost, Awaiting, Ended
    <2> QED
      BY <1>27, <2>1, <2>2, <2>3, <2>4, <2>5, <2>6 DEF BeatRejected
  <1>28. ASSUME NEW r \in Run, NEW b \in Beat, RailHeartbeat(r, b) PROVE TypeOK'
    <2>1. beat' \in [Run -> [Beat -> BeatState]]
      <3>1. PICK a \in BeatState : beat' = [beat EXCEPT ![r][b] = a]
        BY <1>28 DEF RailHeartbeat, BeatState
      <3> QED
        BY <3>1
    <2>2. lapsed' \in [Run -> BOOLEAN]
      BY <1>28 DEF RailHeartbeat
    <2> QED
      BY <1>28, <2>1, <2>2 DEF RailHeartbeat
  <1>29. ASSUME NEW r \in Run, NEW b \in Beat, BeatLost(r, b) PROVE TypeOK'
    BY <1>29 DEF BeatLost, BeatState
  <1>30. ASSUME NEW t \in Ticket, MoveTicket(t) PROVE TypeOK'
    BY <1>30 DEF MoveTicket
  <1>31. CASE UNCHANGED vars
    BY <1>31 DEF vars
  <1> QED
    BY <1>1, <1>2, <1>3, <1>4, <1>5, <1>6, <1>7, <1>8, <1>9, <1>10, <1>11,
       <1>12, <1>13, <1>14, <1>15, <1>16, <1>17, <1>18, <1>19, <1>20, <1>21,
       <1>22, <1>23, <1>24, <1>25, <1>26, <1>27, <1>28, <1>29, <1>30, <1>31
    DEF Next, Discover, Claim, Drive, Supervise, RailServes, RailKeepsTime

-----------------------------------------------------------------------------
(* The inductive step *)

\* A claimed Run that was not started is finished at once: the stop that landed
\* during the claim, or createExecution() throwing.
LEMMA FinishUnstarted ==
  ASSUME IInv, NEW w \in Worker, NEW o \in RunOutcome,
         pc[w] = "claim", reply[w] = "won", SafeFinish(w, handoff[w], o),
         reply' = [reply EXCEPT ![w] = "none"],
         handoff' = [handoff EXCEPT ![w] = NoRun],
         UNCHANGED <<rail, holder, beat, timer, ownershipLost, exec>>
  PROVE  IRuns' /\ IWorkers'
  <1> DEFINE r == handoff[w]
  <1> USE DEF IInv, IRuns, IWorkers
  <1>1. /\ r \in Run /\ holder[r] = w /\ rail[r] # "NONE" /\ Untouched(r)
        /\ active[w] = NoRun /\ ~fenced[w]
    BY DEF HandoffInv, ActiveInv, Idle
  <1>2. MayFinish(w, r)
    BY <1>1 DEF MayFinish, Untouched
  <1>3. /\ runFinished' = [runFinished EXCEPT ![r] = TRUE]
        /\ closing' = [closing EXCEPT ![w] = o]
        /\ pc' = [pc EXCEPT ![w] = "finish"]
        /\ active' = [active EXCEPT ![w] = r]
        /\ fenced' = fenced
    BY <1>2 DEF SafeFinish
  <1>4. /\ runFinished'[r] /\ closing'[w] = o /\ pc'[w] = "finish"
        /\ active'[w] = r /\ reply'[w] = "none"
    BY <1>1, <1>3 DEF TypeOK
  <1>5. \A p \in Worker \ {w} :
          /\ pc'[p] = pc[p] /\ active'[p] = active[p] /\ closing'[p] = closing[p]
          /\ reply'[p] = reply[p] /\ handoff'[p] = handoff[p]
    BY <1>3 DEF TypeOK
  <1>6. \A q \in Run \ {r} : runFinished'[q] = runFinished[q]
    BY <1>3 DEF TypeOK
  <1>7. \A p \in Worker \ {w} :
          /\ active[p] # NoRun => active[p] \in Run \ {r}
          /\ pc[p] = "claim" /\ reply[p] = "won" => handoff[p] \in Run \ {r}
    BY <1>1 DEF TypeOK, ActiveInv, HandoffInv
  <1> HIDE DEF r
  <1>8. ASSUME NEW q \in Run PROVE RunInv(q)' /\ TimerInv(q)' /\ ExecInv(q)'
    <2>1. RunInv(q)'
      BY <1>1, <1>6 DEF RunInv, Untouched
    <2>2. TimerInv(q)'
      BY <1>1, <1>4, <1>5 DEF TimerInv, Untouched
    <2>3. ExecInv(q)'
      <3>1. CASE q = r
        BY <1>1, <3>1 DEF ExecInv, Untouched
      <3>2. CASE q # r /\ exec[q] # "none" /\ holder[q] = w
        <4>1. active[w] # q /\ q # r
          BY <1>1, <3>2, Constants
        <4>2. exec[q] # "running" /\ (runFinished[q] \/ ownershipLost[q])
          BY <3>2, <4>1 DEF ExecInv
        <4> QED
          BY <1>6, <4>1, <4>2 DEF ExecInv
      <3>3. CASE q # r /\ exec[q] # "none" /\ holder[q] # w
        <4>1. holder[q] \in Worker
          BY <3>3 DEF RunInv, Untouched
        <4> QED
          BY <1>5, <1>6, <3>3, <4>1 DEF ExecInv
      <3> QED
        BY <3>1, <3>2, <3>3 DEF ExecInv
    <2> QED
      BY <2>1, <2>2, <2>3
  <1>9. ASSUME NEW p \in Worker PROVE ActiveInv(p)' /\ PhaseInv(p)' /\ HandoffInv(p)'
    <2>1. CASE p = w
      <3>1. ActiveInv(p)'
        BY <1>1, <1>3, <1>4, <2>1, Constants DEF ActiveInv, Idle
      <3>2. PhaseInv(p)'
        BY <1>1, <1>4, <2>1 DEF PhaseInv, Untouched
      <3>3. HandoffInv(p)'
        BY <1>4, <2>1 DEF HandoffInv
      <3> QED
        BY <3>1, <3>2, <3>3
    <2>2. CASE p # w
      <3>1. ActiveInv(p)'
        BY <1>3, <1>5, <2>2 DEF ActiveInv
      <3>2. PhaseInv(p)'
        BY <1>3, <1>5, <1>6, <1>7, <2>2
        DEF ActiveInv, PhaseInv, MayFinish, Driving
      <3>3. HandoffInv(p)'
        BY <1>5, <1>6, <1>7, <2>2 DEF HandoffInv, Untouched
      <3> QED
        BY <3>1, <3>2, <3>3
    <2> QED
      BY <2>1, <2>2
  <1> QED
    BY <1>8, <1>9

\* Every step preserves what IInv says of the Runs and of the processes.
LEMMA InvStep ==
  ASSUME IInv, [Next]_vars
  PROVE  IRuns' /\ IWorkers'
  <1> USE DEF IInv, TypeOK, IRuns, IWorkers, RunInv, TimerInv, ExecInv, ActiveInv,
              PhaseInv, HandoffInv, Untouched, MayFinish, Idle, Driving, Awaiting,
              railVars, procVars, runVars
  <1>1. ASSUME NEW w \in Worker, Connect(w)
        PROVE  IRuns' /\ IWorkers'
    <2>1. IRuns'
      BY <1>1 DEF Connect, LoopTop
    <2>2. IWorkers'
      BY <1>1 DEF Connect, LoopTop
    <2> QED
      BY <2>1, <2>2
  <1>2. ASSUME NEW w \in Worker, List(w)
        PROVE  IRuns' /\ IWorkers'
    <2>1. IRuns'
      BY <1>2 DEF List, NothingClaimed
    <2>2. IWorkers'
      BY <1>2 DEF List, NothingClaimed
    <2> QED
      BY <2>1, <2>2
  <1>3. ASSUME NEW w \in Worker, GetTicket(w)
        PROVE  IRuns' /\ IWorkers'
    BY <1>3 DEF GetTicket, NothingClaimed
  <1>4. ASSUME NEW w \in Worker, ReadFails(w)
        PROVE  IRuns' /\ IWorkers'
    BY <1>4 DEF ReadFails, NothingClaimed
  <1>5. ASSUME NEW w \in Worker, ClaimThrows(w)
        PROVE  IRuns' /\ IWorkers'
    BY <1>5 DEF ClaimThrows, NothingClaimed
  <1>6. ASSUME NEW w \in Worker, ClaimMalformed(w)
        PROVE  IRuns' /\ IWorkers'
    BY <1>6 DEF ClaimMalformed
  <1>7. ASSUME NEW w \in Worker, ClaimedButStopping(w)
        PROVE  IRuns' /\ IWorkers'
    BY <1>7, FinishUnstarted DEF ClaimedButStopping, RunOutcome
  <1>8. ASSUME NEW w \in Worker, StartRun(w)
        PROVE  IRuns' /\ IWorkers'
    <2>1. IRuns'
      BY <1>8 DEF StartRun
    <2>2. ASSUME NEW p \in Worker PROVE ActiveInv(p)'
      <3>1. CASE p = w
        BY <1>8, <3>1, Constants DEF StartRun
      <3>2. CASE p # w
        BY <1>8, <3>2 DEF StartRun
      <3> QED
        BY <3>1, <3>2
    <2>3. ASSUME NEW p \in Worker PROVE PhaseInv(p)'
      BY <1>8 DEF StartRun
    <2>4. ASSUME NEW p \in Worker PROVE HandoffInv(p)'
      BY <1>8 DEF StartRun
    <2> QED
      BY <2>1, <2>2, <2>3, <2>4
  <1>9. ASSUME NEW w \in Worker, StartFails(w)
        PROVE  IRuns' /\ IWorkers'
    BY <1>9, FinishUnstarted DEF StartFails, RunOutcome
  <1>10. ASSUME NEW w \in Worker, CancelReturns(w)
        PROVE  IRuns' /\ IWorkers'
    <2>1. CASE MayFinish(w, active[w])
      <3>1. ASSUME NEW q \in Run PROVE RunInv(q)'
        BY <1>10, <2>1 DEF CancelReturns, SafeFinish
      <3>2. ASSUME NEW q \in Run PROVE TimerInv(q)'
        BY <1>10, <2>1 DEF CancelReturns, SafeFinish
      <3>3. ASSUME NEW q \in Run PROVE ExecInv(q)'
        <4>1. CASE q = active[w]
          BY <1>10, <2>1, <4>1 DEF CancelReturns, SafeFinish
        <4>2. CASE q # active[w] /\ holder[q] = w
          BY <1>10, <2>1, <4>2 DEF CancelReturns, SafeFinish
        <4>3. CASE holder[q] # w
          <5>1. exec[q] # "none" => holder[q] \in Worker
            OBVIOUS
          <5>2. \A p \in Worker \ {w} : pc'[p] = pc[p] /\ active'[p] = active[p]
            BY <1>10, <2>1 DEF CancelReturns, SafeFinish
          <5>3. runFinished[q] => runFinished'[q]
            BY <1>10, <2>1 DEF CancelReturns, SafeFinish
          <5>4. UNCHANGED <<holder, exec, ownershipLost>>
            BY <1>10 DEF CancelReturns
          <5> QED
            BY <4>3, <5>1, <5>2, <5>3, <5>4
        <4> QED
          BY <4>1, <4>2, <4>3
      <3>4. ASSUME NEW p \in Worker PROVE ActiveInv(p)'
        BY <1>10, <2>1 DEF CancelReturns, SafeFinish
      <3>5. ASSUME NEW p \in Worker PROVE PhaseInv(p)'
        <4>1. CASE p = w
          BY <1>10, <2>1, <4>1 DEF CancelReturns, SafeFinish, RunOutcome
        <4>2. CASE p # w
          BY <1>10, <2>1, <4>2 DEF CancelReturns, SafeFinish
        <4> QED
          BY <4>1, <4>2
      <3>6. ASSUME NEW p \in Worker PROVE HandoffInv(p)'
        BY <1>10, <2>1 DEF CancelReturns, SafeFinish
      <3> QED
        BY <3>1, <3>2, <3>3, <3>4, <3>5, <3>6
    <2>2. CASE ~MayFinish(w, active[w])
      <3>1. ASSUME NEW q \in Run PROVE RunInv(q)'
        BY <1>10, <2>2 DEF CancelReturns, SafeFinish, Retire, LoopTop
      <3>2. ASSUME NEW q \in Run PROVE TimerInv(q)'
        BY <1>10, <2>2 DEF CancelReturns, SafeFinish, Retire, LoopTop
      <3>3. ASSUME NEW q \in Run PROVE ExecInv(q)'
        <4>1. CASE q = active[w]
          BY <1>10, <2>2, <4>1 DEF CancelReturns, SafeFinish, Retire
        <4>2. CASE q # active[w] /\ holder[q] = w
          BY <1>10, <2>2, <4>2 DEF CancelReturns, SafeFinish, Retire
        <4>3. CASE holder[q] # w
          BY <1>10, <2>2, <4>3 DEF CancelReturns, SafeFinish, Retire
        <4> QED
          BY <4>1, <4>2, <4>3
      <3>4. ASSUME NEW p \in Worker PROVE ActiveInv(p)'
        BY <1>10, <2>2 DEF CancelReturns, SafeFinish, Retire, LoopTop
      <3>5. ASSUME NEW p \in Worker PROVE PhaseInv(p)'
        BY <1>10, <2>2 DEF CancelReturns, SafeFinish, Retire, LoopTop
      <3>6. ASSUME NEW p \in Worker PROVE HandoffInv(p)'
        BY <1>10, <2>2 DEF CancelReturns, SafeFinish, Retire, LoopTop
      <3> QED
        BY <3>1, <3>2, <3>3, <3>4, <3>5, <3>6
    <2> QED
      BY <2>1, <2>2
  <1>11. ASSUME NEW w \in Worker, DrainEnds(w)
        PROVE  IRuns' /\ IWorkers'
    BY <1>11 DEF DrainEnds, Retire, LoopTop
  <1>12. ASSUME NEW w \in Worker, FinishReturns(w)
        PROVE  IRuns' /\ IWorkers'
    BY <1>12 DEF FinishReturns, Retire, LoopTop
  <1>13. ASSUME NEW w \in Worker, Wake(w)
        PROVE  IRuns' /\ IWorkers'
    BY <1>13 DEF Wake, LoopTop
  <1>14. ASSUME NEW w \in Worker, LoopDrains(w)
        PROVE  IRuns' /\ IWorkers'
    BY <1>14 DEF LoopDrains
  <1>15. ASSUME NEW w \in Worker, RequestStop(w)
        PROVE  IRuns' /\ IWorkers'
    BY <1>15 DEF RequestStop, Cancelled
  <1>16. ASSUME NEW w \in Worker, Crash(w)
        PROVE  IRuns' /\ IWorkers'
    BY <1>16 DEF Crash
  <1>17. ASSUME NEW w \in Worker, RailClaims(w)
        PROVE  IRuns' /\ IWorkers'
    <2>1. IRuns'
      BY <1>17 DEF RailClaims
    <2>2. IWorkers'
      BY <1>17 DEF RailClaims
    <2> QED
      BY <2>1, <2>2
  <1>18. ASSUME NEW w \in Worker, ClaimRefused(w)
        PROVE  IRuns' /\ IWorkers'
    BY <1>18 DEF ClaimRefused
  <1>19. ASSUME NEW w \in Worker, RailFinishes(w)
        PROVE  IRuns' /\ IWorkers'
    <2>1. closing[w] \in RunOutcome
      BY <1>19 DEF RailFinishes
    <2>2. \A q \in Run : rail'[q] = "NONE" <=> rail[q] = "NONE"
      BY <1>19, <2>1 DEF RailFinishes, RunOutcome
    <2>3. \A p \in Worker : pc[p] # "finish" => reply'[p] = reply[p]
      BY <1>19 DEF RailFinishes
    <2>4. UNCHANGED <<holder, handoff, beat, procVars, runVars>>
      BY <1>19 DEF RailFinishes
    <2>5. IRuns'
      BY <2>2, <2>4
    <2>6. IWorkers'
      BY <2>2, <2>3, <2>4
    <2> QED
      BY <2>5, <2>6
  <1>20. ASSUME NEW w \in Worker, FinishRefused(w)
        PROVE  IRuns' /\ IWorkers'
    BY <1>20 DEF FinishRefused
  <1>21. ASSUME NEW w \in Worker, NEW v \in Report, ExecutionSettles(w, v)
        PROVE  IRuns' /\ IWorkers'
    <2>1. CASE MayFinish(w, active[w])
      <3>1. ASSUME NEW q \in Run PROVE RunInv(q)'
        BY <1>21, Constants, <2>1 DEF ExecutionSettles, SafeFinish, FinishOutcome, RunOutcome
      <3>2. ASSUME NEW q \in Run PROVE TimerInv(q)'
        BY <1>21, Constants, <2>1 DEF ExecutionSettles, SafeFinish, FinishOutcome, RunOutcome
      <3>3. ASSUME NEW q \in Run PROVE ExecInv(q)'
        BY <1>21, Constants, <2>1 DEF ExecutionSettles, SafeFinish, FinishOutcome, RunOutcome
      <3>4. ASSUME NEW p \in Worker PROVE ActiveInv(p)'
        BY <1>21, Constants, <2>1 DEF ExecutionSettles, SafeFinish, FinishOutcome, RunOutcome
      <3>5. ASSUME NEW p \in Worker PROVE PhaseInv(p)'
        <4>1. CASE p = w
          BY <1>21, Constants, <2>1, <4>1 DEF ExecutionSettles, SafeFinish, FinishOutcome, RunOutcome
        <4>2. CASE p # w
          BY <1>21, Constants, <2>1, <4>2 DEF ExecutionSettles, SafeFinish
        <4> QED
          BY <4>1, <4>2
      <3>6. ASSUME NEW p \in Worker PROVE HandoffInv(p)'
        BY <1>21, Constants, <2>1 DEF ExecutionSettles, SafeFinish, FinishOutcome, RunOutcome
      <3> QED
        BY <3>1, <3>2, <3>3, <3>4, <3>5, <3>6
    <2>2. CASE ~MayFinish(w, active[w])
      <3>1. ASSUME NEW q \in Run PROVE RunInv(q)'
        BY <1>21, Constants, <2>2 DEF ExecutionSettles, SafeFinish, Retire, LoopTop, FinishOutcome, RunOutcome
      <3>2. ASSUME NEW q \in Run PROVE TimerInv(q)'
        BY <1>21, Constants, <2>2 DEF ExecutionSettles, SafeFinish, Retire, LoopTop, FinishOutcome, RunOutcome
      <3>3. ASSUME NEW q \in Run PROVE ExecInv(q)'
        BY <1>21, Constants, <2>2 DEF ExecutionSettles, SafeFinish, Retire, LoopTop, FinishOutcome, RunOutcome
      <3>4. ASSUME NEW p \in Worker PROVE ActiveInv(p)'
        BY <1>21, Constants, <2>2 DEF ExecutionSettles, SafeFinish, Retire, LoopTop, FinishOutcome, RunOutcome
      <3>5. ASSUME NEW p \in Worker PROVE PhaseInv(p)'
        BY <1>21, Constants, <2>2 DEF ExecutionSettles, SafeFinish, Retire, LoopTop, FinishOutcome, RunOutcome
      <3>6. ASSUME NEW p \in Worker PROVE HandoffInv(p)'
        BY <1>21, Constants, <2>2 DEF ExecutionSettles, SafeFinish, Retire, LoopTop, FinishOutcome, RunOutcome
      <3> QED
        BY <3>1, <3>2, <3>3, <3>4, <3>5, <3>6
    <2> QED
      BY <2>1, <2>2
  <1>22. ASSUME NEW r \in Run, ExecutionWindsDown(r)
        PROVE  IRuns' /\ IWorkers'
    BY <1>22 DEF ExecutionWindsDown
  <1>23. ASSUME NEW r \in Run, LeaseLapses(r)
        PROVE  IRuns' /\ IWorkers'
    BY <1>23 DEF LeaseLapses
  <1>24. ASSUME NEW r \in Run, Sweep(r)
        PROVE  IRuns' /\ IWorkers'
    BY <1>24 DEF Sweep
  <1>25. ASSUME NEW r \in Run, NEW b \in Beat, Beats(r, b)
        PROVE  IRuns' /\ IWorkers'
    BY <1>25 DEF Beats
  <1>26. ASSUME NEW r \in Run, NEW b \in Beat, BeatReturns(r, b)
        PROVE  IRuns' /\ IWorkers'
    BY <1>26 DEF BeatReturns
  <1>27. ASSUME NEW r \in Run, NEW b \in Beat, BeatRejected(r, b)
        PROVE  IRuns' /\ IWorkers'
    <2>1. IRuns'
      BY <1>27 DEF BeatRejected, OnOwnershipLost, Cancelled, Alive
    <2>2. ASSUME NEW p \in Worker PROVE ActiveInv(p)'
      <3>1. CASE p = holder[r]
        BY <1>27, <3>1 DEF BeatRejected, OnOwnershipLost, Alive
      <3>2. CASE p # holder[r]
        <4>1. ASSUME NEW q \in Run, ownershipLost[q] PROVE ownershipLost'[q]
          <5>1. CASE ownershipLost' = ownershipLost
            BY <4>1, <5>1
          <5>2. CASE ownershipLost' = [ownershipLost EXCEPT ![active[holder[r]]] = TRUE]
            BY <4>1, <5>2
          <5> QED
            BY <1>27, <5>1, <5>2 DEF BeatRejected, OnOwnershipLost
        <4>2. fenced'[p] = fenced[p]
          BY <1>27, <3>2 DEF BeatRejected, OnOwnershipLost
        <4>3. pc'[p] = pc[p]
          BY <1>27, <3>2 DEF BeatRejected, OnOwnershipLost
        <4>4. UNCHANGED <<rail, holder, active>>
          BY <1>27 DEF BeatRejected
        <4> QED
          BY <4>1, <4>2, <4>3, <4>4
      <3> QED
        BY <3>1, <3>2
    <2>3. ASSUME NEW p \in Worker PROVE PhaseInv(p)'
      BY <1>27 DEF BeatRejected, OnOwnershipLost, Cancelled, Alive
    <2>4. ASSUME NEW p \in Worker PROVE HandoffInv(p)'
      BY <1>27 DEF BeatRejected, OnOwnershipLost, Cancelled, Alive
    <2> QED
      BY <2>1, <2>2, <2>3, <2>4
  <1>28. ASSUME NEW r \in Run, NEW b \in Beat, RailHeartbeat(r, b)
        PROVE  IRuns' /\ IWorkers'
    <2>1. IRuns'
      <3>1. ASSUME NEW q \in Run PROVE RunInv(q)'
        <4>1. CASE q = r
          BY <1>28, <4>1 DEF RailHeartbeat
        <4>2. CASE q # r
          BY <1>28, <4>2 DEF RailHeartbeat
        <4> QED
          BY <4>1, <4>2
      <3>2. ASSUME NEW q \in Run PROVE TimerInv(q)' /\ ExecInv(q)'
        BY <1>28 DEF RailHeartbeat
      <3> QED
        BY <3>1, <3>2
    <2>2. IWorkers'
      BY <1>28 DEF RailHeartbeat
    <2> QED
      BY <2>1, <2>2
  <1>29. ASSUME NEW r \in Run, NEW b \in Beat, BeatLost(r, b)
        PROVE  IRuns' /\ IWorkers'
    BY <1>29 DEF BeatLost
  <1>30. ASSUME NEW t \in Ticket, MoveTicket(t)
        PROVE  IRuns' /\ IWorkers'
    BY <1>30 DEF MoveTicket
  <1>31. CASE UNCHANGED vars
    BY <1>31 DEF vars
  <1> QED
    BY <1>1, <1>2, <1>3, <1>4, <1>5, <1>6, <1>7, <1>8, <1>9, <1>10, <1>11,
       <1>12, <1>13, <1>14, <1>15, <1>16, <1>17, <1>18, <1>19, <1>20, <1>21, <1>22,
       <1>23, <1>24, <1>25, <1>26, <1>27, <1>28, <1>29, <1>30, <1>31
    DEF Next, Discover, Claim, Drive, Supervise, RailServes, RailKeepsTime

-----------------------------------------------------------------------------
(* The theorems *)

\* The inductive invariant holds in every reachable state.
THEOREM Invariance == Spec => []IInv
  <1>1. Init => IInv
    <2>1. Init => TypeOK
      BY DEF Init, TypeOK, RunState, Reply, BeatState, Awaiting, ExecState
    <2>2. Init => IRuns
      BY DEF Init, IRuns, RunInv, TimerInv, ExecInv, Untouched
    <2>3. Init => IWorkers
      BY DEF Init, IWorkers, ActiveInv, PhaseInv, HandoffInv, Driving
    <2> QED
      BY <2>1, <2>2, <2>3 DEF IInv
  <1>2. IInv /\ [Next]_vars => IInv'
    <2> SUFFICES ASSUME IInv, [Next]_vars PROVE IInv'
      OBVIOUS
    <2>1. TypeOK'
      BY TypeStep DEF IInv, IWorkers, PhaseInv
    <2> QED
      BY <2>1, InvStep DEF IInv
  <1> QED
    BY <1>1, <1>2, PTL DEF Spec

\* Every variable keeps its type; in particular no finishRun carries anything
\* but an outcome Rail knows.
THEOREM Typing == Spec => []TypeOK
  <1>1. IInv => TypeOK
    BY DEF IInv
  <1> QED
    BY <1>1, Invariance, PTL

\* While a process waits for an execution it holds, heartbeats and may finish
\* that Run (runClaimed, startHeartbeat).
THEOREM RunIsKept == Spec => []DrivenRunIsKept
  <1>1. IInv => DrivenRunIsKept
    BY Constants
    DEF IInv, TypeOK, IWorkers, ActiveInv, PhaseInv, Driving, DrivenRunIsKept
  <1> QED
    BY <1>1, Invariance, PTL

\* No heartbeat interval outlives its Run (supervisor.stop on every path).
THEOREM TimersAreCleared == Spec => []NoStrayTimer
  <1>1. IInv => NoStrayTimer
    BY DEF IInv, IRuns, TimerInv, NoStrayTimer
  <1> QED
    BY <1>1, Invariance, PTL

\* A stopped process leaves no execution running and no Run unfinished that it
\* executed and still owned (teardownActive, safeFinish).
THEOREM StopsUnderControl == Spec => []ControlledStop
  <1>1. IInv => ControlledStop
    BY DEF IInv, IRuns, ExecInv, ControlledStop, Driving
  <1> QED
    BY <1>1, Invariance, PTL

\* A step sends a finishRun or a heartbeat only for a Run its process owns.
LEMMA MutationStep ==
  ASSUME IInv, Next
  PROVE  MutatesOwned
  <1> USE DEF MutatesOwned, SendsFinish, SendsBeat, IInv, TypeOK,
              railVars, procVars, runVars
  <1>1. ASSUME NEW w \in Worker, Connect(w) PROVE MutatesOwned
    BY <1>1 DEF Connect, LoopTop
  <1>2. ASSUME NEW w \in Worker, List(w) PROVE MutatesOwned
    BY <1>2 DEF List, NothingClaimed
  <1>3. ASSUME NEW w \in Worker, GetTicket(w) PROVE MutatesOwned
    BY <1>3 DEF GetTicket, NothingClaimed
  <1>4. ASSUME NEW w \in Worker, ReadFails(w) PROVE MutatesOwned
    BY <1>4 DEF ReadFails, NothingClaimed
  <1>5. ASSUME NEW w \in Worker, ClaimThrows(w) PROVE MutatesOwned
    BY <1>5 DEF ClaimThrows, NothingClaimed
  <1>6. ASSUME NEW w \in Worker, ClaimMalformed(w) PROVE MutatesOwned
    BY <1>6 DEF ClaimMalformed
  <1>7. ASSUME NEW w \in Worker, ClaimedButStopping(w) PROVE MutatesOwned
    <2>1. handoff[w] \in Run /\ (MayFinish(w, handoff[w]) => Owns(w, handoff[w]))
      BY <1>7, Constants DEF ClaimedButStopping, IWorkers, HandoffInv, MayFinish, Owns
    <2>2. CASE MayFinish(w, handoff[w])
      BY <1>7, <2>1, <2>2 DEF ClaimedButStopping, SafeFinish
    <2>3. CASE ~MayFinish(w, handoff[w])
      BY <1>7, <2>3 DEF ClaimedButStopping, SafeFinish, Retire, LoopTop
    <2> QED
      BY <2>2, <2>3
  <1>8. ASSUME NEW w \in Worker, StartRun(w) PROVE MutatesOwned
    BY <1>8 DEF StartRun
  <1>9. ASSUME NEW w \in Worker, StartFails(w) PROVE MutatesOwned
    <2>1. handoff[w] \in Run /\ (MayFinish(w, handoff[w]) => Owns(w, handoff[w]))
      BY <1>9, Constants DEF StartFails, IWorkers, HandoffInv, MayFinish, Owns
    <2>2. CASE MayFinish(w, handoff[w])
      BY <1>9, <2>1, <2>2 DEF StartFails, SafeFinish
    <2>3. CASE ~MayFinish(w, handoff[w])
      BY <1>9, <2>3 DEF StartFails, SafeFinish, Retire, LoopTop
    <2> QED
      BY <2>2, <2>3
  <1>10. ASSUME NEW w \in Worker, CancelReturns(w) PROVE MutatesOwned
    <2>1. active[w] \in Run /\ (MayFinish(w, active[w]) => Owns(w, active[w]))
      BY <1>10, Constants DEF CancelReturns, IWorkers, ActiveInv, Driving, MayFinish, Owns
    <2>2. CASE MayFinish(w, active[w])
      BY <1>10, <2>1, <2>2 DEF CancelReturns, SafeFinish
    <2>3. CASE ~MayFinish(w, active[w])
      BY <1>10, <2>3 DEF CancelReturns, SafeFinish, Retire, LoopTop
    <2> QED
      BY <2>2, <2>3
  <1>11. ASSUME NEW w \in Worker, DrainEnds(w) PROVE MutatesOwned
    BY <1>11 DEF DrainEnds, Retire, LoopTop
  <1>12. ASSUME NEW w \in Worker, FinishReturns(w) PROVE MutatesOwned
    BY <1>12 DEF FinishReturns, Retire, LoopTop
  <1>13. ASSUME NEW w \in Worker, Wake(w) PROVE MutatesOwned
    BY <1>13 DEF Wake, LoopTop
  <1>14. ASSUME NEW w \in Worker, LoopDrains(w) PROVE MutatesOwned
    BY <1>14 DEF LoopDrains
  <1>15. ASSUME NEW w \in Worker, RequestStop(w) PROVE MutatesOwned
    BY <1>15 DEF RequestStop
  <1>16. ASSUME NEW w \in Worker, Crash(w) PROVE MutatesOwned
    BY <1>16 DEF Crash
  <1>17. ASSUME NEW w \in Worker, RailClaims(w) PROVE MutatesOwned
    BY <1>17 DEF RailClaims
  <1>18. ASSUME NEW w \in Worker, ClaimRefused(w) PROVE MutatesOwned
    BY <1>18 DEF ClaimRefused
  <1>19. ASSUME NEW w \in Worker, RailFinishes(w) PROVE MutatesOwned
    BY <1>19 DEF RailFinishes
  <1>20. ASSUME NEW w \in Worker, FinishRefused(w) PROVE MutatesOwned
    BY <1>20 DEF FinishRefused
  <1>21. ASSUME NEW w \in Worker, NEW v \in Report, ExecutionSettles(w, v)
         PROVE  MutatesOwned
    <2>1. active[w] \in Run /\ (MayFinish(w, active[w]) => Owns(w, active[w]))
      BY <1>21, Constants DEF ExecutionSettles, IWorkers, ActiveInv, Driving, MayFinish, Owns
    <2>2. CASE MayFinish(w, active[w])
      BY <1>21, <2>1, <2>2 DEF ExecutionSettles, SafeFinish
    <2>3. CASE ~MayFinish(w, active[w])
      BY <1>21, <2>3 DEF ExecutionSettles, SafeFinish, Retire, LoopTop
    <2> QED
      BY <2>2, <2>3
  <1>22. ASSUME NEW r \in Run, ExecutionWindsDown(r) PROVE MutatesOwned
    BY <1>22 DEF ExecutionWindsDown
  <1>23. ASSUME NEW r \in Run, LeaseLapses(r) PROVE MutatesOwned
    BY <1>23 DEF LeaseLapses
  <1>24. ASSUME NEW r \in Run, Sweep(r) PROVE MutatesOwned
    BY <1>24 DEF Sweep
  <1>25. ASSUME NEW r \in Run, NEW b \in Beat, Beats(r, b) PROVE MutatesOwned
    <2>1. Owns(holder[r], r) /\ active[holder[r]] = r
      BY <1>25 DEF Beats, IRuns, TimerInv, Owns
    <2>2. \A q \in Run \ {r} : beat'[q] = beat[q]
      BY <1>25 DEF Beats
    <2> QED
      BY <1>25, <2>1, <2>2 DEF Beats
  <1>26. ASSUME NEW r \in Run, NEW b \in Beat, BeatReturns(r, b) PROVE MutatesOwned
    BY <1>26 DEF BeatReturns
  <1>27. ASSUME NEW r \in Run, NEW b \in Beat, BeatRejected(r, b) PROVE MutatesOwned
    BY <1>27 DEF BeatRejected, OnOwnershipLost
  <1>28. ASSUME NEW r \in Run, NEW b \in Beat, RailHeartbeat(r, b) PROVE MutatesOwned
    <2>1. ASSUME NEW w \in Worker PROVE ~SendsFinish(w)
      BY <1>28 DEF RailHeartbeat
    <2>2. PICK a \in {"ok", "transient", "rejected"} : beat' = [beat EXCEPT ![r][b] = a]
      BY <1>28 DEF RailHeartbeat
    <2>3. ASSUME NEW q \in Run PROVE ~SendsBeat(q)
      BY <2>2
    <2> QED
      BY <2>1, <2>3
  <1>29. ASSUME NEW r \in Run, NEW b \in Beat, BeatLost(r, b) PROVE MutatesOwned
    BY <1>29 DEF BeatLost
  <1>30. ASSUME NEW t \in Ticket, MoveTicket(t) PROVE MutatesOwned
    BY <1>30 DEF MoveTicket
  <1> QED
    BY <1>1, <1>2, <1>3, <1>4, <1>5, <1>6, <1>7, <1>8, <1>9, <1>10, <1>11,
       <1>12, <1>13, <1>14, <1>15, <1>16, <1>17, <1>18, <1>19, <1>20, <1>21, <1>22,
       <1>23, <1>24, <1>25, <1>26, <1>27, <1>28, <1>29, <1>30
    DEF Next, Discover, Claim, Drive, Supervise, RailServes, RailKeepsTime

\* The process mutates only Runs it owns: every heartbeat and finishRun it sends
\* (beat(), safeFinish()).
THEOREM OnlyOwnedRunsAreMutated == Spec => MutatesOnlyOwnedRun
  <1>1. IInv /\ [Next]_vars => [MutatesOwned]_vars
    BY MutationStep
  <1> QED
    BY <1>1, Invariance, PTL DEF Spec, MutatesOnlyOwnedRun

=============================================================================
