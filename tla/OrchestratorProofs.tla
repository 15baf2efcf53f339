-------------------------- MODULE OrchestratorProofs --------------------------
(***************************************************************************)
(* Theorems about Orchestrator: its types, its safety properties and that  *)
(* it implements WorkCycle, for any budgets and any human-only states.     *)
(* All but NothingAfterCancel follow from one inductive invariant, IInv.   *)
(***************************************************************************)
EXTENDS Orchestrator, TLAPS

\* The checks that gate a role, as a set.
Gates == [IMPLEMENTER |-> {"IMPLEMENTATION"},
          REVIEWER    |-> {"CODE_REVIEW"},
          TESTER      |-> {"AUTOMATED_TESTS", "ACCEPTANCE_CRITERIA"}]

\* What may be left of the gate of role ro while its checks are created.
Remaining(ro) ==
  {Gate[ro]} \cup IF ro = "TESTER" THEN {<<"ACCEPTANCE_CRITERIA">>} ELSE {}

\* Where Rail and the orchestrator stand at each await.  They differ only
\* between Rail's answer and the step that reads it.
PlaceInv ==
  /\ pc = "prepare" => cycle = job.entry /\ rail = job.entry /\ code = 1
  /\ pc = "begin" => /\ cycle = "CLAIMED"
                     /\ reply = "none" => rail = "CLAIMED"
                     /\ reply = "ok" => rail = "IN_PROGRESS"
  /\ pc \in {"role", "query", "wait", "poll", "check"} =>
       cycle = Stage[role] /\ rail = Stage[role]
  /\ pc = "move" => /\ cycle = Stage[role]
                    /\ reply = "none" => rail = Stage[role]
                    /\ reply = "ok" => rail = Leads[role]
  /\ pc = "rewind" => /\ role # "IMPLEMENTER" /\ cycle = Stage[role]
                      /\ reply = "none" => rail = Stage[role]
                      /\ reply = "ok" => rail = "IN_PROGRESS"
  /\ pc = "note" => ending # "COMPLETED"
  /\ pc = "done" /\ outcome = "COMPLETED" => rail = Target

\* The checks vouch for the code as it is: those behind the state Rail is in,
\* and of the gate of the role, those that were already created.
VouchInv ==
  /\ \A c \in AcceptedAt(rail) : checks[c] = code
  /\ pc = "check" =>
       /\ due \in Remaining(role)
       /\ role = "TESTER" /\ due # Gate["TESTER"] => checks["AUTOMATED_TESTS"] = code
       /\ reply = "ok" => checks[Head(due)] = code
  /\ pc = "move" => \A c \in Gates[role] : checks[c] = code

\* A query in the making, or waited for, is within the budget of its role; the
\* poll that sees it closed is the one that ends the wait.
QueryInv ==
  /\ NoOrphanQuery
  /\ pc \in {"query", "wait", "poll"} => attempt < MaxQueryResumes
  /\ pc = "poll" /\ reply \in Closed => query = reply

\* What k rounds of the IMPLEMENTER, with all their resumes, make of the code.
Spent(k) == 1 + k * (1 + MaxQueryResumes)

\* How many versions of the code there may be by now.
WorkInv ==
  /\ pc \in {"prepare", "begin"} => code = 1 /\ reworks = 0
  /\ pc \in Await => reworks <= MaxReworks /\ code <= Spent(reworks + 1)
  /\ pc = "role" /\ role = "IMPLEMENTER" => code <= Spent(reworks) + attempt
  /\ pc \in {"query", "wait", "poll"} /\ role = "IMPLEMENTER" =>
       code <= Spent(reworks) + attempt + 1
  /\ pc = "rewind" => code <= Spent(reworks)
  /\ code <= Spent(MaxReworks + 1)

\* The inductive invariant.
IInv == TypeOK /\ PlaceInv /\ VouchInv /\ QueryInv /\ WorkInv

-----------------------------------------------------------------------------
(* The gates, and the budgets *)

\* Head and tail of the one- and two-element sequences the gates are.
LEMMA ShortSequences ==
  ASSUME NEW S, NEW a \in S, NEW b \in S
  PROVE  /\ <<a>> \in Seq(S) /\ <<a>> # <<>> /\ Head(<<a>>) = a /\ Tail(<<a>>) = <<>>
         /\ <<a, b>> \in Seq(S) /\ <<a, b>> # <<>> /\ Head(<<a, b>>) = a
         /\ Tail(<<a, b>>) = <<b>> /\ <<b>> # <<>> /\ <<a, b>> # <<b>>
  <1>1. <<a>> \in Seq(S) /\ <<a>> # <<>> /\ Head(<<a>>) = a /\ Tail(<<a>>) = <<>>
    OBVIOUS
  <1>2. <<a, b>> \in Seq(S) /\ <<a, b>> # <<>> /\ Head(<<a, b>>) = a
    OBVIOUS
  <1>3. Tail(<<a, b>>) = <<b>> /\ <<b>> # <<>>
    OBVIOUS
  <1>4. <<a, b>> # <<b>>
    OBVIOUS
  <1> QED
    BY <1>1, <1>2, <1>3, <1>4

\* What publishThenTransition meets while it goes through the gate of a role:
\* a first check of that gate, and after it nothing or one last check.
LEMMA GateFacts ==
  ASSUME NEW ro \in Role, NEW d \in Remaining(ro)
  PROVE  /\ Gate[ro] \in Remaining(ro)
         /\ d \in Seq(Check) /\ d # <<>> /\ Head(d) \in Gates[ro]
         /\ Tail(d) \in Seq(Check)
         /\ Tail(d) = <<>> => Gates[ro] \subseteq {"AUTOMATED_TESTS", Head(d)}
         /\ Tail(d) = <<>> /\ ro # "TESTER" => Gates[ro] = {Head(d)}
         /\ Tail(d) = <<>> /\ ro = "TESTER" => d # Gate["TESTER"]
         /\ Tail(d) # <<>> => /\ ro = "TESTER" /\ d = Gate["TESTER"]
                              /\ Head(d) = "AUTOMATED_TESTS"
                              /\ Tail(d) \in Remaining(ro)
  <1>1. CASE ro = "IMPLEMENTER"
    <2>1. d = <<"IMPLEMENTATION">>
      BY <1>1 DEF Remaining, Gate
    <2>2. "IMPLEMENTATION" \in Check
      BY DEF Check
    <2>3. /\ d \in Seq(Check) /\ d # <<>> /\ Head(d) = "IMPLEMENTATION"
          /\ Tail(d) = <<>>
      BY <2>1, <2>2, ShortSequences
    <2>4. Tail(d) \in Seq(Check)
      BY <2>3
    <2> QED
      BY <1>1, <2>3, <2>4 DEF Gates, Remaining
  <1>2. CASE ro = "REVIEWER"
    <2>1. d = <<"CODE_REVIEW">>
      BY <1>2 DEF Remaining, Gate
    <2>2. "CODE_REVIEW" \in Check
      BY DEF Check
    <2>3. /\ d \in Seq(Check) /\ d # <<>> /\ Head(d) = "CODE_REVIEW"
          /\ Tail(d) = <<>>
      BY <2>1, <2>2, ShortSequences
    <2>4. Tail(d) \in Seq(Check)
      BY <2>3
    <2> QED
      BY <1>2, <2>3, <2>4 DEF Gates, Remaining
  <1>3. CASE ro = "TESTER"
    <2> DEFINE tests  == "AUTOMATED_TESTS"
               accept == "ACCEPTANCE_CRITERIA"
    <2>1. tests \in Check /\ accept \in Check
      BY DEF Check
    <2>2. Gate["TESTER"] = <<tests, accept>>
      BY DEF Gate
    <2>3. Gates["TESTER"] = {tests, accept}
      BY DEF Gates
    <2>4. d = <<tests, accept>> \/ d = <<accept>>
      BY <1>3, <2>2 DEF Remaining
    <2>5. Gate["TESTER"] \in Remaining(ro) /\ <<accept>> \in Remaining(ro)
      BY <1>3, <2>2 DEF Remaining
    <2> HIDE DEF tests, accept
    <2>6. CASE d = <<tests, accept>>
      <3>1. /\ d \in Seq(Check) /\ d # <<>> /\ Head(d) = tests
            /\ Tail(d) = <<accept>> /\ Tail(d) # <<>>
        BY <2>6, <2>1, ShortSequences
      <3>2. Tail(d) \in Seq(Check)
        BY <3>1, <2>1, ShortSequences
      <3> QED
        BY <1>3, <2>2, <2>3, <2>5, <2>6, <3>1, <3>2 DEF tests
    <2>7. CASE d = <<accept>>
      <3>1. d \in Seq(Check) /\ d # <<>> /\ Head(d) = accept /\ Tail(d) = <<>>
        BY <2>7, <2>1, ShortSequences
      <3>2. Tail(d) \in Seq(Check) /\ d # Gate["TESTER"]
        BY <3>1, <2>1, <2>2, <2>7, ShortSequences
      <3> QED
        BY <1>3, <2>3, <2>5, <3>1, <3>2 DEF tests
    <2> QED
      BY <2>4, <2>6, <2>7
  <1> QED
    BY <1>1, <1>2, <1>3 DEF Role

\* A rework adds one run of the IMPLEMENTER and its resumes; the last one
\* the budget allows is where the work stops.
LEMMA SpentFacts ==
  ASSUME NEW k \in 0..MaxReworks
  PROVE  /\ Spent(k) \in Nat /\ Spent(k + 1) \in Nat
         /\ Spent(k + 1) = Spent(k) + 1 + MaxQueryResumes
         /\ Spent(MaxReworks + 1) \in Nat /\ Spent(k + 1) <= Spent(MaxReworks + 1)
         /\ Spent(0) = 1
  <1>1. MaxReworks \in Nat /\ MaxQueryResumes \in Nat
    BY Parameters
  <1> DEFINE q == 1 + MaxQueryResumes
  <1>2. q \in Nat /\ k \in Nat
    BY <1>1
  <1> HIDE DEF q
  <1>3. k * q \in Nat /\ (k + 1) * q = k * q + q /\ 0 * q = 0
    BY <1>2
  <1>4. PICK m \in Nat : MaxReworks = k + m
    <2>1. MaxReworks - k \in Nat /\ MaxReworks = k + (MaxReworks - k)
      BY <1>1, <1>2
    <2> QED
      BY <2>1
  <1>5. (MaxReworks + 1) * q = (k + 1) * q + m * q /\ m * q \in Nat
    BY <1>2, <1>4
  <1> QED
    BY <1>1, <1>2, <1>3, <1>5 DEF Spent, q

\* The same of the gate of the current role, and of what is left of it while
\* its checks are created.
LEMMA DueFacts ==
  ASSUME TypeOK
  PROVE  /\ Gate[role] \in Remaining(role) /\ Gate[role] \in Seq(Check)
         /\ VouchInv /\ pc = "check" =>
              /\ due # <<>> /\ Head(due) \in Check /\ Head(due) \in Gates[role]
              /\ Tail(due) \in Seq(Check)
              /\ Tail(due) = <<>> => Gates[role] \subseteq {"AUTOMATED_TESTS", Head(due)}
              /\ Tail(due) = <<>> /\ role # "TESTER" => Gates[role] = {Head(due)}
              /\ Tail(due) = <<>> /\ role = "TESTER" => due # Gate["TESTER"]
              /\ Tail(due) # <<>> => /\ role = "TESTER" /\ due = Gate["TESTER"]
                                     /\ Head(due) = "AUTOMATED_TESTS"
                                     /\ Tail(due) \in Remaining(role)
  <1>1. role \in Role
    BY DEF TypeOK
  <1>2. Gate[role] \in Remaining(role)
    BY DEF Remaining
  <1>3. Gate[role] \in Seq(Check)
    BY <1>1, <1>2, GateFacts
  <1>4. ASSUME VouchInv, pc = "check" PROVE due \in Remaining(role)
    BY <1>4 DEF VouchInv
  <1>5. Gates[role] \subseteq Check
    BY <1>1 DEF Gates, Role, Check
  <1> QED
    BY <1>1, <1>2, <1>3, <1>4, <1>5, GateFacts

-----------------------------------------------------------------------------
(* Types *)

\* Every step keeps the types: a resume and a rework stay within their budgets.
LEMMA TypeStep ==
  ASSUME IInv, [Next]_vars
  PROVE  TypeOK'
  <1> SUFFICES ASSUME TypeOK, PlaceInv, VouchInv, QueryInv, WorkInv
               PROVE  TypeOK'
    BY DEF IInv
  <1>p. MaxReworks \in Nat /\ MaxQueryResumes \in Nat
    BY Parameters
  <1> USE DEF TypeOK, State, Role, Await, Reply, QueryStatus, Closed, Outcome, Target,
        railVars, taskVars, flowVars, slowVars
  <1>1. CASE PrepareFails
    BY <1>1 DEF PrepareFails, Stop
  <1>2. CASE Prepared
    BY <1>2, <1>p
    DEF Prepared, Stop, StopCancelled, Send, EnterAt, RunRole, NoteAndStop
  <1>3. CASE BeginReturns
    BY <1>3, <1>p DEF BeginReturns, Stop, StopCancelled, EnterAt, RunRole, NoteAndStop
  <1>4. CASE QueryReturns
    BY <1>4 DEF QueryReturns, Stop, StopCancelled, Send, SendGuarded
  <1>5. CASE NapEnds
    BY <1>5, <1>p DEF NapEnds, Aborted, Stop, Send
  <1>6. CASE PollReturns
    <2>1. reply = "RESOLVED" => attempt + 1 \in 0..MaxQueryResumes
      BY <1>6, <1>p DEF PollReturns, QueryInv
    <2> QED
      BY <1>6, <2>1
      DEF PollReturns, KeepWaiting, Aborted, Stop, StopCancelled, Send, RunRole, NoteAndStop
  <1>7. CASE NoteReturns
    BY <1>7 DEF NoteReturns, Stop
  <1>8. CASE CheckReturns
    <2>1. Tail(due) \in Seq(Check)
      BY <1>8, DueFacts DEF CheckReturns
    <2>2. due' \in Seq(Check)
      BY <1>8, <2>1
      DEF CheckReturns, Stop, StopCancelled, Send, SendGuarded, Publish, NoteAndStop
    <2>3. UNCHANGED <<railVars, job, slowVars, cancelled>>
      BY <1>8 DEF CheckReturns
    <2>4. /\ pc' \in Await \cup {"done"} /\ reply' = "none" /\ UNCHANGED taskVars
          /\ ending' \in Outcome /\ outcome' \in Outcome
      BY <1>8
      DEF CheckReturns, Stop, StopCancelled, Send, SendGuarded, Publish, NoteAndStop
    <2> QED
      BY <2>2, <2>3, <2>4
  <1>9. CASE MoveReturns
    BY <1>9, <1>p DEF MoveReturns, Stop, StopCancelled, RunRole, NoteAndStop, Leads
  <1>10. CASE RewindReturns
    BY <1>10, <1>p DEF RewindReturns, Stop, StopCancelled, RunRole, NoteAndStop
  <1>11. ASSUME NEW ran \in BOOLEAN, RolePasses(ran) PROVE TypeOK'
    BY <1>11, DueFacts
    DEF RolePasses, RoleSettles, Publish, Stop, StopCancelled, MayEdit
  <1>12. CASE RoleFails
    BY <1>12 DEF RoleFails, RoleSettles, Stop, MayEdit
  <1>13. CASE RoleReleases
    BY <1>13 DEF RoleReleases, RoleSettles, Stop, MayEdit
  <1>14. CASE RoleBlocks
    BY <1>14 DEF RoleBlocks, RoleSettles, Stop, StopCancelled, Send, MayEdit
  <1>15. CASE RoleAsksRework
    BY <1>15, <1>p
    DEF RoleAsksRework, RoleSettles, Stop, StopCancelled, Send, SendGuarded, MayEdit, WorkInv
  <1>16. CASE LoopDrains
    BY <1>16 DEF LoopDrains
  <1>17. CASE Cancel
    BY <1>17 DEF Cancel
  <1>18. CASE RailMoves
    BY <1>18 DEF RailMoves, Destination, Leads
  <1>19. CASE RailRefuses
    BY <1>19 DEF RailRefuses
  <1>20. CASE RailRecordsCheck
    BY <1>20, DueFacts DEF RailRecordsCheck, VouchInv
  <1>21. CASE RailOpensQuery
    BY <1>21 DEF RailOpensQuery
  <1>22. CASE RailTakesNote
    BY <1>22 DEF RailTakesNote
  <1>23. CASE RailShowsQuery
    BY <1>23 DEF RailShowsQuery
  <1>24. CASE RailHidesQuery
    BY <1>24 DEF RailHidesQuery
  <1>25. CASE HumanCloses
    BY <1>25 DEF HumanCloses
  <1>26. CASE UNCHANGED vars
    BY <1>26 DEF vars
  <1> QED
    BY <1>1, <1>2, <1>3, <1>4, <1>5, <1>6, <1>7, <1>8, <1>9, <1>10, <1>11,
       <1>12, <1>13, <1>14, <1>15, <1>16, <1>17, <1>18, <1>19, <1>20, <1>21,
       <1>22, <1>23, <1>24, <1>25, <1>26
    DEF Next, Continues, RoleDecides, RailServes

-----------------------------------------------------------------------------
(* Where Rail is *)

\* Every step leaves Rail and the orchestrator where they agree, or with Rail's
\* answer still to be read.
LEMMA PlaceStep ==
  ASSUME IInv, [Next]_vars
  PROVE  PlaceInv'
  <1> SUFFICES ASSUME TypeOK, PlaceInv
               PROVE  PlaceInv'
    BY DEF IInv
  <1> USE DEF TypeOK, PlaceInv, State, Role, Await, Reply, QueryStatus, Closed, Outcome,
        Target, Stage, Leads, railVars, taskVars, flowVars, slowVars
  <1>1. CASE PrepareFails
    BY <1>1 DEF PrepareFails, Stop
  <1>2. CASE Prepared
    BY <1>2 DEF Prepared, Stop, StopCancelled, Send, EnterAt, RunRole, NoteAndStop
  <1>3. CASE BeginReturns
    BY <1>3 DEF BeginReturns, Stop, StopCancelled, EnterAt, RunRole, NoteAndStop
  <1>4. CASE QueryReturns
    BY <1>4 DEF QueryReturns, Stop, StopCancelled, Send, SendGuarded
  <1>5. CASE NapEnds
    BY <1>5 DEF NapEnds, Aborted, Stop, Send
  <1>6. CASE PollReturns
    BY <1>6
    DEF PollReturns, KeepWaiting, Aborted, Stop, StopCancelled, Send, RunRole, NoteAndStop
  <1>7. CASE NoteReturns
    BY <1>7 DEF NoteReturns, Stop
  <1>8. CASE CheckReturns
    BY <1>8
    DEF CheckReturns, Stop, StopCancelled, Send, SendGuarded, Publish, NoteAndStop
  <1>9. CASE MoveReturns
    BY <1>9 DEF MoveReturns, Stop, StopCancelled, RunRole, NoteAndStop
  <1>10. CASE RewindReturns
    BY <1>10 DEF RewindReturns, Stop, StopCancelled, RunRole, NoteAndStop
  <1>11. ASSUME NEW ran \in BOOLEAN, RolePasses(ran) PROVE PlaceInv'
    BY <1>11 DEF RolePasses, RoleSettles, Publish, Stop, StopCancelled, MayEdit
  <1>12. CASE RoleFails
    BY <1>12 DEF RoleFails, RoleSettles, Stop, MayEdit
  <1>13. CASE RoleReleases
    BY <1>13 DEF RoleReleases, RoleSettles, Stop, MayEdit
  <1>14. CASE RoleBlocks
    BY <1>14 DEF RoleBlocks, RoleSettles, Stop, StopCancelled, Send, MayEdit
  <1>15. CASE RoleAsksRework
    BY <1>15
    DEF RoleAsksRework, RoleSettles, Stop, StopCancelled, Send, SendGuarded, MayEdit
  <1>16. CASE LoopDrains
    BY <1>16 DEF LoopDrains
  <1>17. CASE Cancel
    BY <1>17 DEF Cancel
  <1>18. CASE RailMoves
    BY <1>18 DEF RailMoves, Destination
  <1>19. CASE RailRefuses
    BY <1>19 DEF RailRefuses
  <1>20. CASE RailRecordsCheck
    BY <1>20 DEF RailRecordsCheck
  <1>21. CASE RailOpensQuery
    BY <1>21 DEF RailOpensQuery
  <1>22. CASE RailTakesNote
    BY <1>22 DEF RailTakesNote
  <1>23. CASE RailShowsQuery
    BY <1>23 DEF RailShowsQuery
  <1>24. CASE RailHidesQuery
    BY <1>24 DEF RailHidesQuery
  <1>25. CASE HumanCloses
    BY <1>25 DEF HumanCloses
  <1>26. CASE UNCHANGED vars
    BY <1>26 DEF vars
  <1> QED
    BY <1>1, <1>2, <1>3, <1>4, <1>5, <1>6, <1>7, <1>8, <1>9, <1>10, <1>11,
       <1>12, <1>13, <1>14, <1>15, <1>16, <1>17, <1>18, <1>19, <1>20, <1>21,
       <1>22, <1>23, <1>24, <1>25, <1>26
    DEF Next, Continues, RoleDecides, RailServes

-----------------------------------------------------------------------------
(* What the checks vouch for *)

\* No step makes a check stale that the state of Rail relies on: code changes
\* only where none is behind it, and Rail moves on only past a finished gate.
LEMMA VouchStep ==
  ASSUME IInv, [Next]_vars
  PROVE  VouchInv'
  <1> SUFFICES ASSUME TypeOK, PlaceInv, VouchInv
               PROVE  VouchInv'
    BY DEF IInv
  <1> USE DEF TypeOK, PlaceInv, VouchInv, AcceptedAt, State, Role, Await, Reply, Target, Stage,
        Leads, railVars, taskVars, flowVars, slowVars
  <1>1. CASE PrepareFails
    BY <1>1 DEF PrepareFails, Stop
  <1>2. CASE Prepared
    BY <1>2 DEF Prepared, Stop, StopCancelled, Send, EnterAt, RunRole, NoteAndStop
  <1>3. CASE BeginReturns
    BY <1>3 DEF BeginReturns, Stop, StopCancelled, EnterAt, RunRole, NoteAndStop
  <1>4. CASE QueryReturns
    BY <1>4 DEF QueryReturns, Stop, StopCancelled, Send, SendGuarded
  <1>5. CASE NapEnds
    BY <1>5 DEF NapEnds, Aborted, Stop, Send
  <1>6. CASE PollReturns
    BY <1>6
    DEF PollReturns, KeepWaiting, Aborted, Stop, StopCancelled, Send, RunRole, NoteAndStop
  <1>7. CASE NoteReturns
    BY <1>7 DEF NoteReturns, Stop
  <1>8. CASE CheckReturns
    BY <1>8, DueFacts
    DEF CheckReturns, Stop, StopCancelled, Send, SendGuarded, Publish, NoteAndStop
  <1>9. CASE MoveReturns
    BY <1>9 DEF MoveReturns, Stop, StopCancelled, RunRole, NoteAndStop, Gates
  <1>10. CASE RewindReturns
    BY <1>10 DEF RewindReturns, Stop, StopCancelled, RunRole, NoteAndStop
  <1>11. ASSUME NEW ran \in BOOLEAN, RolePasses(ran) PROVE VouchInv'
    BY <1>11, DueFacts
    DEF RolePasses, RoleSettles, Publish, Stop, StopCancelled, MayEdit, Gates
  <1>12. CASE RoleFails
    BY <1>12 DEF RoleFails, RoleSettles, Stop, MayEdit
  <1>13. CASE RoleReleases
    BY <1>13 DEF RoleReleases, RoleSettles, Stop, MayEdit
  <1>14. CASE RoleBlocks
    BY <1>14 DEF RoleBlocks, RoleSettles, Stop, StopCancelled, Send, MayEdit
  <1>15. CASE RoleAsksRework
    BY <1>15
    DEF RoleAsksRework, RoleSettles, Stop, StopCancelled, Send, SendGuarded, MayEdit
  <1>16. CASE LoopDrains
    BY <1>16 DEF LoopDrains
  <1>17. CASE Cancel
    BY <1>17 DEF Cancel
  <1>18. CASE RailMoves
    <2>1. UNCHANGED <<checks, code, pc, due, role>> /\ rail' = Destination
      BY <1>18 DEF RailMoves
    <2>2. AcceptedAt(rail') \subseteq AcceptedAt(rail) \cup IF pc = "move" THEN Gates[role] ELSE {}
      <3>1. CASE pc = "move"
        BY <1>18, <2>1, <3>1 DEF RailMoves, Destination, Gates, Check
      <3>2. CASE pc # "move"
        BY <1>18, <2>1, <3>2 DEF RailMoves, Destination
      <3> QED
        BY <3>1, <3>2
    <2>3. \A c \in AcceptedAt(rail') : checks[c] = code
      BY <2>1, <2>2
    <2> QED
      BY <1>18, <2>1, <2>3 DEF RailMoves
  <1>19. CASE RailRefuses
    BY <1>19 DEF RailRefuses
  <1>20. CASE RailRecordsCheck
    BY <1>20, DueFacts DEF RailRecordsCheck
  <1>21. CASE RailOpensQuery
    BY <1>21 DEF RailOpensQuery
  <1>22. CASE RailTakesNote
    BY <1>22 DEF RailTakesNote
  <1>23. CASE RailShowsQuery
    BY <1>23 DEF RailShowsQuery
  <1>24. CASE RailHidesQuery
    BY <1>24 DEF RailHidesQuery
  <1>25. CASE HumanCloses
    BY <1>25 DEF HumanCloses
  <1>26. CASE UNCHANGED vars
    BY <1>26 DEF vars
  <1> QED
    BY <1>1, <1>2, <1>3, <1>4, <1>5, <1>6, <1>7, <1>8, <1>9, <1>10, <1>11,
       <1>12, <1>13, <1>14, <1>15, <1>16, <1>17, <1>18, <1>19, <1>20, <1>21,
       <1>22, <1>23, <1>24, <1>25, <1>26
    DEF Next, Continues, RoleDecides, RailServes

-----------------------------------------------------------------------------
(* Queries *)

\* A query is opened within the budget, and left open only by an execution that
\* fails, is cancelled or dies.
LEMMA QueryStep ==
  ASSUME IInv, [Next]_vars
  PROVE  QueryInv'
  <1> SUFFICES ASSUME TypeOK, QueryInv
               PROVE  QueryInv'
    BY DEF IInv
  <1>p. MaxQueryResumes \in Nat
    BY Parameters
  <1> USE DEF TypeOK, QueryInv, NoOrphanQuery, Role, Await, Reply, QueryStatus, Closed,
        Outcome, railVars, taskVars, flowVars, slowVars
  <1>1. CASE PrepareFails
    BY <1>1 DEF PrepareFails, Stop
  <1>2. CASE Prepared
    BY <1>2 DEF Prepared, Stop, StopCancelled, Send, EnterAt, RunRole, NoteAndStop
  <1>3. CASE BeginReturns
    BY <1>3 DEF BeginReturns, Stop, StopCancelled, EnterAt, RunRole, NoteAndStop
  <1>4. CASE QueryReturns
    BY <1>4 DEF QueryReturns, Stop, StopCancelled, Send, SendGuarded
  <1>5. CASE NapEnds
    BY <1>5 DEF NapEnds, Aborted, Stop, Send
  <1>6. CASE PollReturns
    BY <1>6
    DEF PollReturns, KeepWaiting, Aborted, Stop, StopCancelled, Send, RunRole, NoteAndStop
  <1>7. CASE NoteReturns
    BY <1>7 DEF NoteReturns, Stop
  <1>8. CASE CheckReturns
    BY <1>8
    DEF CheckReturns, Stop, StopCancelled, Send, SendGuarded, Publish, NoteAndStop
  <1>9. CASE MoveReturns
    BY <1>9 DEF MoveReturns, Stop, StopCancelled, RunRole, NoteAndStop
  <1>10. CASE RewindReturns
    BY <1>10 DEF RewindReturns, Stop, StopCancelled, RunRole, NoteAndStop
  <1>11. ASSUME NEW ran \in BOOLEAN, RolePasses(ran) PROVE QueryInv'
    BY <1>11 DEF RolePasses, RoleSettles, Publish, Stop, StopCancelled, MayEdit
  <1>12. CASE RoleFails
    BY <1>12 DEF RoleFails, RoleSettles, Stop, MayEdit
  <1>13. CASE RoleReleases
    BY <1>13 DEF RoleReleases, RoleSettles, Stop, MayEdit
  <1>14. CASE RoleBlocks
    BY <1>14 DEF RoleBlocks, RoleSettles, Stop, StopCancelled, Send, MayEdit
  <1>15. CASE RoleAsksRework
    BY <1>15
    DEF RoleAsksRework, RoleSettles, Stop, StopCancelled, Send, SendGuarded, MayEdit
  <1>16. CASE LoopDrains
    BY <1>16 DEF LoopDrains
  <1>17. CASE Cancel
    BY <1>17 DEF Cancel
  <1>18. CASE RailMoves
    BY <1>18 DEF RailMoves, Destination
  <1>19. CASE RailRefuses
    BY <1>19 DEF RailRefuses
  <1>20. CASE RailRecordsCheck
    BY <1>20 DEF RailRecordsCheck
  <1>21. CASE RailOpensQuery
    BY <1>21 DEF RailOpensQuery
  <1>22. CASE RailTakesNote
    BY <1>22 DEF RailTakesNote
  <1>23. CASE RailShowsQuery
    BY <1>23 DEF RailShowsQuery
  <1>24. CASE RailHidesQuery
    BY <1>24 DEF RailHidesQuery
  <1>25. CASE HumanCloses
    BY <1>25 DEF HumanCloses
  <1>26. CASE UNCHANGED vars
    BY <1>26 DEF vars
  <1> QED
    BY <1>1, <1>2, <1>3, <1>4, <1>5, <1>6, <1>7, <1>8, <1>9, <1>10, <1>11,
       <1>12, <1>13, <1>14, <1>15, <1>16, <1>17, <1>18, <1>19, <1>20, <1>21,
       <1>22, <1>23, <1>24, <1>25, <1>26
    DEF Next, Continues, RoleDecides, RailServes

-----------------------------------------------------------------------------
(* How much work there can be *)

\* Each version of the code is paid for by a run of the IMPLEMENTER that the two
\* budgets allow.
LEMMA WorkStep ==
  ASSUME IInv, [Next]_vars
  PROVE  WorkInv'
  <1> SUFFICES ASSUME TypeOK, QueryInv, WorkInv
               PROVE  WorkInv'
    BY DEF IInv
  <1>p. MaxReworks \in Nat /\ MaxQueryResumes \in Nat
    BY Parameters
  <1>q. /\ pc \in Await => reworks \in 0..MaxReworks
        /\ reworks \in 0..MaxReworks =>
             /\ Spent(reworks) \in Nat
             /\ Spent(reworks + 1) = Spent(reworks) + 1 + MaxQueryResumes
             /\ Spent(reworks + 1) <= Spent(MaxReworks + 1)
        /\ Spent(0) = 1 /\ Spent(MaxReworks + 1) \in Nat
    BY <1>p, SpentFacts DEF TypeOK, WorkInv
  <1> USE DEF TypeOK, QueryInv, WorkInv, Role, Await, Reply, QueryStatus, Closed,
        railVars, taskVars, flowVars, slowVars
  <1>1. CASE PrepareFails
    BY <1>1 DEF PrepareFails, Stop
  <1>2. CASE Prepared
    BY <1>2, <1>p, <1>q
    DEF Prepared, Stop, StopCancelled, Send, EnterAt, RunRole, NoteAndStop
  <1>3. CASE BeginReturns
    BY <1>3, <1>p, <1>q
    DEF BeginReturns, Stop, StopCancelled, EnterAt, RunRole, NoteAndStop
  <1>4. CASE QueryReturns
    BY <1>4, <1>p, <1>q DEF QueryReturns, Stop, StopCancelled, Send, SendGuarded
  <1>5. CASE NapEnds
    BY <1>5, <1>p, <1>q DEF NapEnds, Aborted, Stop, Send
  <1>6. CASE PollReturns
    BY <1>6, <1>p, <1>q
    DEF PollReturns, KeepWaiting, Aborted, Stop, StopCancelled, Send, RunRole, NoteAndStop
  <1>7. CASE NoteReturns
    BY <1>7 DEF NoteReturns, Stop
  <1>8. CASE CheckReturns
    BY <1>8, <1>p, <1>q
    DEF CheckReturns, Stop, StopCancelled, Send, SendGuarded, Publish, NoteAndStop
  <1>9. CASE MoveReturns
    BY <1>9, <1>p, <1>q DEF MoveReturns, Stop, StopCancelled, RunRole, NoteAndStop
  <1>10. CASE RewindReturns
    BY <1>10, <1>p, <1>q DEF RewindReturns, Stop, StopCancelled, RunRole, NoteAndStop
  <1>11. ASSUME NEW ran \in BOOLEAN, RolePasses(ran) PROVE WorkInv'
    BY <1>11, <1>p, <1>q
    DEF RolePasses, RoleSettles, Publish, Stop, StopCancelled, MayEdit
  <1>12. CASE RoleFails
    BY <1>12, <1>p, <1>q DEF RoleFails, RoleSettles, Stop, MayEdit
  <1>13. CASE RoleReleases
    BY <1>13, <1>p, <1>q DEF RoleReleases, RoleSettles, Stop, MayEdit
  <1>14. CASE RoleBlocks
    BY <1>14, <1>p, <1>q
    DEF RoleBlocks, RoleSettles, Stop, StopCancelled, Send, MayEdit
  <1>15. CASE RoleAsksRework
    <2>1. /\ pc = "role" /\ role # "IMPLEMENTER" /\ role' = role /\ code' = code
          /\ reworks' = reworks + 1 /\ pc' \in {"done", "rewind"}
          /\ pc' = "rewind" => reworks' <= MaxReworks
      BY <1>15
      DEF RoleAsksRework, RoleSettles, Stop, StopCancelled, Send, SendGuarded, MayEdit
    <2>2. reworks \in 0..MaxReworks /\ code' <= Spent(reworks') /\ code' <= Spent(MaxReworks + 1)
      BY <2>1, <1>p, <1>q
    <2>3. CASE pc' = "rewind"
      <3>1. reworks' \in 0..MaxReworks
        BY <2>1, <2>2, <2>3, <1>p
      <3>2. Spent(reworks') \in Nat /\ Spent(reworks' + 1) = Spent(reworks') + 1 + MaxQueryResumes
        BY <3>1, SpentFacts
      <3> QED
        BY <2>1, <2>2, <2>3, <3>1, <3>2, <1>p
    <2>4. CASE pc' = "done"
      BY <2>1, <2>2, <2>4
    <2> QED
      BY <2>1, <2>3, <2>4
  <1>16. CASE LoopDrains
    BY <1>16 DEF LoopDrains
  <1>17. CASE Cancel
    BY <1>17 DEF Cancel
  <1>18. CASE RailMoves
    BY <1>18 DEF RailMoves, Destination
  <1>19. CASE RailRefuses
    BY <1>19 DEF RailRefuses
  <1>20. CASE RailRecordsCheck
    BY <1>20 DEF RailRecordsCheck
  <1>21. CASE RailOpensQuery
    BY <1>21 DEF RailOpensQuery
  <1>22. CASE RailTakesNote
    BY <1>22 DEF RailTakesNote
  <1>23. CASE RailShowsQuery
    BY <1>23 DEF RailShowsQuery
  <1>24. CASE RailHidesQuery
    BY <1>24 DEF RailHidesQuery
  <1>25. CASE HumanCloses
    BY <1>25 DEF HumanCloses
  <1>26. CASE UNCHANGED vars
    BY <1>26 DEF vars
  <1> QED
    BY <1>1, <1>2, <1>3, <1>4, <1>5, <1>6, <1>7, <1>8, <1>9, <1>10, <1>11,
       <1>12, <1>13, <1>14, <1>15, <1>16, <1>17, <1>18, <1>19, <1>20, <1>21,
       <1>22, <1>23, <1>24, <1>25, <1>26
    DEF Next, Continues, RoleDecides, RailServes

-----------------------------------------------------------------------------
(* The invariant, and what follows from it *)

\* A fresh or continued execution starts where Rail has the ticket, with one
\* version of the code that the checks behind that state vouch for.
LEMMA Initially == Init => IInv
  <1> SUFFICES ASSUME Init
               PROVE  IInv
    OBVIOUS
  <1>1. job \in Job /\ rail \in State
    BY DEF Init, Job
  <1>2. MaxReworks \in Nat /\ MaxQueryResumes \in Nat /\ 0 \in 0..MaxReworks
    BY Parameters
  <1>3. TypeOK
    <2>1. checks \in [Check -> Nat]
      BY DEF Init
    <2>2. due \in Seq(Check)
      BY DEF Init
    <2>3. cycle \in State /\ code \in Nat
      BY <1>1 DEF Init
    <2>4. cancelled \in BOOLEAN
      BY DEF Init
    <2>5. attempt \in 0..MaxQueryResumes /\ reworks \in 0..(MaxReworks + 1)
      BY <1>2 DEF Init
    <2>6. /\ query \in QueryStatus /\ implSession = "none" /\ kind = "IMPLEMENT"
          /\ pc \in Await /\ reply \in Reply /\ role \in Role
          /\ ending \in Outcome /\ outcome \in Outcome
      BY DEF Init, Await, Reply, QueryStatus, Role, Outcome
    <2> QED
      BY <1>1, <2>1, <2>2, <2>3, <2>4, <2>5, <2>6 DEF TypeOK
  <1>4. PlaceInv
    BY DEF Init, PlaceInv
  <1>5. VouchInv
    BY <1>1 DEF Init, VouchInv, AcceptedAt, State, Check
  <1>6. QueryInv
    BY DEF Init, QueryInv, NoOrphanQuery
  <1>7. Spent(0) = 1 /\ Spent(0 + 1) = 2 + MaxQueryResumes /\ Spent(0 + 1) <= Spent(MaxReworks + 1)
        /\ Spent(MaxReworks + 1) \in Nat
    BY <1>2, SpentFacts
  <1>8. WorkInv
    BY <1>2, <1>7 DEF Init, WorkInv
  <1> QED
    BY <1>3, <1>4, <1>5, <1>6, <1>8 DEF IInv

\* IInv holds in every reachable state.
THEOREM Invariance == Spec => []IInv
  <1>1. IInv /\ [Next]_vars => IInv'
    BY TypeStep, PlaceStep, VouchStep, QueryStep, WorkStep DEF IInv
  <1> QED
    BY Initially, <1>1, PTL DEF Spec

\* Every variable keeps its type; attempts and reworks stay within their
\* budgets, whatever those are.
THEOREM Typing == Spec => []TypeOK
  <1>1. IInv => TypeOK
    BY DEF IInv
  <1> QED
    BY <1>1, Invariance, PTL

\* A role works only in the state that Rail and the orchestrator agree on: the
\* IMPLEMENTER is never re-run while Rail sits in REVIEWING or TESTING.
THEOREM RolesWorkWhereRailIs == Spec => []AgreesWithRail
  <1>1. IInv => AgreesWithRail
    BY DEF IInv, PlaceInv, AgreesWithRail
  <1> QED
    BY <1>1, Invariance, PTL

\* No code reaches the TESTER without a review of that very code, and
\* COMPLETED means that all four checks were created for it, provided that the
\* roles outside MayEdit leave the code alone.
THEOREM ReviewIsFresh == Spec => []ReviewedAsIs
  <1>1. IInv => ReviewedAsIs
    BY DEF IInv, TypeOK, PlaceInv, VouchInv, ReviewedAsIs, AcceptedAt, Stage, Target, Check
  <1> QED
    BY <1>1, Invariance, PTL

\* An open query is waited for, unless the execution failed, was cancelled or
\* died with the event loop.
THEOREM QueriesAreWaitedFor == Spec => []NoOrphanQuery
  <1>1. IInv => NoOrphanQuery
    BY DEF IInv, QueryInv
  <1> QED
    BY <1>1, Invariance, PTL

\* The two budgets bound how often the IMPLEMENTER runs, and with MayEdit how
\* often the code changes, for any budgets.
THEOREM WorkIsBounded == Spec => []BoundedWork
  <1>1. MaxReworks \in Nat
    BY Parameters
  <1>2. IInv => BoundedWork
    BY <1>1 DEF IInv, WorkInv, BoundedWork, Spent
  <1> QED
    BY <1>2, Invariance, PTL

-----------------------------------------------------------------------------
(* Cancellation *)

\* Whatever execute() is suspended at, after cancel() it only settles: every
\* step that would start something goes through guardCancelled().
THEOREM CancelStartsNothing == Spec => NothingAfterCancel
  <1>1. [Next]_vars => [StartsNothing]_vars
    <2> SUFFICES ASSUME [Next]_vars
                 PROVE  [StartsNothing]_vars
      OBVIOUS
    <2> USE DEF StartsNothing, Over, vars, taskVars, flowVars
    <2>1. CASE PrepareFails
      BY <2>1 DEF PrepareFails, Stop
    <2>2. CASE Prepared
      BY <2>2 DEF Prepared, Stop, StopCancelled, Send, EnterAt, RunRole, NoteAndStop
    <2>3. CASE BeginReturns
      BY <2>3 DEF BeginReturns, Stop, StopCancelled, EnterAt, RunRole, NoteAndStop
    <2>4. CASE QueryReturns
      BY <2>4 DEF QueryReturns, Stop, StopCancelled, Send, SendGuarded
    <2>5. CASE NapEnds
      BY <2>5 DEF NapEnds, Aborted, Stop, Send
    <2>6. CASE PollReturns
      BY <2>6
      DEF PollReturns, KeepWaiting, Aborted, Stop, StopCancelled, Send, RunRole, NoteAndStop
    <2>7. CASE NoteReturns
      BY <2>7 DEF NoteReturns, Stop
    <2>8. CASE CheckReturns
      BY <2>8
      DEF CheckReturns, Stop, StopCancelled, Send, SendGuarded, Publish, NoteAndStop
    <2>9. CASE MoveReturns
      BY <2>9 DEF MoveReturns, Stop, StopCancelled, RunRole, NoteAndStop
    <2>10. CASE RewindReturns
      BY <2>10 DEF RewindReturns, Stop, StopCancelled, RunRole, NoteAndStop
    <2>11. ASSUME NEW ran \in BOOLEAN, RolePasses(ran) PROVE [StartsNothing]_vars
      BY <2>11 DEF RolePasses, RoleSettles, Publish, Stop, StopCancelled, MayEdit
    <2>12. CASE RoleFails
      BY <2>12 DEF RoleFails, RoleSettles, Stop, MayEdit
    <2>13. CASE RoleReleases
      BY <2>13 DEF RoleReleases, RoleSettles, Stop, MayEdit
    <2>14. CASE RoleBlocks
      BY <2>14 DEF RoleBlocks, RoleSettles, Stop, StopCancelled, Send, MayEdit
    <2>15. CASE RoleAsksRework
      BY <2>15
      DEF RoleAsksRework, RoleSettles, Stop, StopCancelled, Send, SendGuarded, MayEdit
    <2>16. CASE LoopDrains
      BY <2>16 DEF LoopDrains
    <2>17. CASE Cancel
      BY <2>17 DEF Cancel
    <2>18. CASE RailMoves
      BY <2>18 DEF RailMoves, Destination
    <2>19. CASE RailRefuses
      BY <2>19 DEF RailRefuses
    <2>20. CASE RailRecordsCheck
      BY <2>20 DEF RailRecordsCheck
    <2>21. CASE RailOpensQuery
      BY <2>21 DEF RailOpensQuery
    <2>22. CASE RailTakesNote
      BY <2>22 DEF RailTakesNote
    <2>23. CASE RailShowsQuery
      BY <2>23 DEF RailShowsQuery
    <2>24. CASE RailHidesQuery
      BY <2>24 DEF RailHidesQuery
    <2>25. CASE HumanCloses
      BY <2>25 DEF HumanCloses
    <2>26. CASE UNCHANGED vars
      BY <2>26 DEF vars
    <2> QED
      BY <2>1, <2>2, <2>3, <2>4, <2>5, <2>6, <2>7, <2>8, <2>9, <2>10, <2>11,
         <2>12, <2>13, <2>14, <2>15, <2>16, <2>17, <2>18, <2>19, <2>20, <2>21,
         <2>22, <2>23, <2>24, <2>25, <2>26
      DEF Next, Continues, RoleDecides, RailServes
  <1> QED
    BY <1>1, PTL DEF Spec, NothingAfterCancel

-----------------------------------------------------------------------------
(* Orchestrator implements WorkCycle *)

\* A role that settles is, to WorkCycle, the IMPLEMENTER's work, or nothing.
LEMMA RoleWorks ==
  ASSUME IInv, RoleSettles
  PROVE  [Promise!Next]_(Promise!vars)
  <1>1. UNCHANGED <<rail, checks>> /\ rail = Stage[role]
    BY DEF RoleSettles, railVars, IInv, PlaceInv
  <1>2. CASE role = "IMPLEMENTER"
    BY <1>1, <1>2 DEF RoleSettles, MayEdit, Stage, Promise!Next, Promise!Work
  <1>3. CASE role # "IMPLEMENTER"
    BY <1>1, <1>3 DEF RoleSettles, MayEdit, Promise!vars
  <1> QED
    BY <1>2, <1>3

\* A transition that Rail makes goes forwards past checks that vouch for the
\* code, or back to IN_PROGRESS.
LEMMA MovesAdvance ==
  ASSUME IInv, RailMoves
  PROVE  Promise!Next
  <1> USE DEF IInv, PlaceInv
  <1>1. UNCHANGED <<code, checks>> /\ rail' = Destination
    BY DEF RailMoves, slowVars
  <1>2. CASE pc = "begin"
    <2> DEFINE p == [from |-> "CLAIMED", to |-> "IN_PROGRESS", gates |-> {}]
    <2>1. p \in Promise!Plan /\ rail = p.from /\ rail' = p.to
      BY <1>1, <1>2 DEF RailMoves, Destination, Promise!Plan
    <2>2. Promise!Advance(p)
      BY <1>1, <2>1 DEF Promise!Advance
    <2> QED
      BY <2>1, <2>2 DEF Promise!Next
  <1>3. CASE pc = "move"
    <2> DEFINE p == [from |-> Stage[role], to |-> Leads[role], gates |-> Gates[role]]
    <2>1. p \in Promise!Plan
      <3>1. role \in Role
        BY DEF TypeOK
      <3> QED
        BY ONLY <3>1 DEF Role, Stage, Leads, Gates, Target, Promise!Plan
    <2>2. rail = p.from /\ rail' = p.to
      BY <1>1, <1>3 DEF RailMoves, Destination
    <2>3. \A c \in p.gates : checks[c] = code
      BY <1>3 DEF VouchInv
    <2>4. Promise!Advance(p)
      BY <1>1, <2>2, <2>3 DEF Promise!Advance
    <2> QED
      BY <2>1, <2>4 DEF Promise!Next
  <1>4. CASE pc = "rewind"
    <2>1. rail = Stage[role] /\ role # "IMPLEMENTER" /\ rail' = "IN_PROGRESS"
      BY <1>1, <1>4 DEF RailMoves, Destination
    <2>2. rail \in {"REVIEWING", "TESTING"}
      BY <2>1 DEF TypeOK, Role, Stage
    <2> QED
      BY <1>1, <2>1, <2>2 DEF Promise!Next, Promise!Rewind
  <1> QED
    BY <1>2, <1>3, <1>4 DEF RailMoves

\* A check that Rail records belongs to the gate of the state it is in, and
\* vouches for the code as it is now.
LEMMA ChecksVouch ==
  ASSUME IInv, RailRecordsCheck
  PROVE  Promise!Next
  <1>1. pc = "check" /\ rail = Stage[role] /\ role \in Role /\ TypeOK /\ VouchInv
    BY DEF IInv, PlaceInv, TypeOK, RailRecordsCheck
  <1>2. Head(due) \in Gates[role] /\ Head(due) \in Check
    BY <1>1, DueFacts
  <1> DEFINE p == [from |-> Stage[role], to |-> Leads[role], gates |-> Gates[role]]
  <1>3. p \in Promise!Plan
    BY <1>1 DEF Role, Stage, Leads, Gates, Target, Promise!Plan
  <1>4. p.from = rail /\ Head(due) \in p.gates
    BY <1>1, <1>2
  <1>5. /\ checks' = [checks EXCEPT ![Head(due)] = code]
        /\ UNCHANGED <<rail, code>>
    BY DEF RailRecordsCheck, slowVars
  <1>6. PICK c \in Check : c = Head(due)
    BY <1>2
  <1>7. Promise!Vouch(c)
    BY <1>3, <1>4, <1>5, <1>6 DEF Promise!Vouch
  <1>8. c \in Promise!Check
    BY DEF Check, Promise!Check
  <1> QED
    BY <1>7, <1>8 DEF Promise!Next

\* Every step is a step of WorkCycle or leaves it as it is.
LEMMA WorkCycleStep ==
  ASSUME IInv, [Next]_vars
  PROVE  [Promise!Next]_(Promise!vars)
  <1> USE DEF railVars, slowVars, Promise!vars
  <1>1. CASE PrepareFails
    BY <1>1 DEF PrepareFails
  <1>2. CASE Prepared
    BY <1>2 DEF Prepared
  <1>3. CASE BeginReturns
    BY <1>3 DEF BeginReturns
  <1>4. CASE QueryReturns
    BY <1>4 DEF QueryReturns
  <1>5. CASE NapEnds
    BY <1>5 DEF NapEnds
  <1>6. CASE PollReturns
    BY <1>6 DEF PollReturns
  <1>7. CASE NoteReturns
    BY <1>7 DEF NoteReturns
  <1>8. CASE CheckReturns
    BY <1>8 DEF CheckReturns
  <1>9. CASE MoveReturns
    BY <1>9 DEF MoveReturns
  <1>10. CASE RewindReturns
    BY <1>10 DEF RewindReturns
  <1>11. ASSUME NEW ran \in BOOLEAN, RolePasses(ran) PROVE [Promise!Next]_(Promise!vars)
    BY <1>11, RoleWorks DEF RolePasses
  <1>12. CASE RoleFails
    BY <1>12, RoleWorks DEF RoleFails
  <1>13. CASE RoleReleases
    BY <1>13, RoleWorks DEF RoleReleases
  <1>14. CASE RoleBlocks
    BY <1>14, RoleWorks DEF RoleBlocks
  <1>15. CASE RoleAsksRework
    BY <1>15, RoleWorks DEF RoleAsksRework
  <1>16. CASE LoopDrains
    BY <1>16 DEF LoopDrains
  <1>17. CASE Cancel
    BY <1>17 DEF Cancel
  <1>18. CASE RailMoves
    BY <1>18, MovesAdvance
  <1>19. CASE RailRefuses
    BY <1>19 DEF RailRefuses
  <1>20. CASE RailRecordsCheck
    BY <1>20, ChecksVouch
  <1>21. CASE RailOpensQuery
    BY <1>21 DEF RailOpensQuery
  <1>22. CASE RailTakesNote
    BY <1>22 DEF RailTakesNote
  <1>23. CASE RailShowsQuery
    BY <1>23 DEF RailShowsQuery
  <1>24. CASE RailHidesQuery
    BY <1>24 DEF RailHidesQuery
  <1>25. CASE HumanCloses
    BY <1>25 DEF HumanCloses
  <1>26. CASE UNCHANGED vars
    BY <1>26 DEF vars
  <1> QED
    BY <1>1, <1>2, <1>3, <1>4, <1>5, <1>6, <1>7, <1>8, <1>9, <1>10, <1>11,
       <1>12, <1>13, <1>14, <1>15, <1>16, <1>17, <1>18, <1>19, <1>20, <1>21,
       <1>22, <1>23, <1>24, <1>25, <1>26
    DEF Next, Continues, RoleDecides, RailServes

\* What Rail sees of a ticket is what WorkCycle promises: code changes only in
\* IN_PROGRESS, and nothing passes a gate whose checks do not vouch for it.
\* That no role outside MayEdit changes it is an assumption about the agent.
THEOREM WorkCycleIsKept == Spec => ImplementsWorkCycle
  <1>1. Init => Promise!Init
    <2> SUFFICES ASSUME Init
                 PROVE  Promise!Init
      OBVIOUS
    <2>1. rail \in State /\ rail = job.entry
      BY DEF Init, Job
    <2>2. Promise!Check = Check /\ Promise!Behind(rail) = AcceptedAt(job.entry)
      BY <2>1 DEF Promise!Check, Check, Promise!Behind, AcceptedAt, Target
    <2> QED
      BY <2>1, <2>2 DEF Init, Promise!Init, State, Target
  <1>2. IInv /\ [Next]_vars => [Promise!Next]_(Promise!vars)
    BY WorkCycleStep
  <1> QED
    BY <1>1, <1>2, Invariance, PTL DEF Spec, ImplementsWorkCycle, Promise!Spec

\* What the refinement means, at every await and after any failure: Rail has no
\* ticket in a stage whose checks were not created for the very code in its
\* worktree, in SANDBOX_READY all four of them (under the assumption MayEdit).
THEOREM StagesAreVouchedFor ==
  Spec => [](\A c \in Promise!Behind(rail) : checks[c] = code)
  <1>1. IInv => \A c \in Promise!Behind(rail) : checks[c] = code
    BY DEF IInv, VouchInv, AcceptedAt, Promise!Behind, Promise!Check, Check, Target
  <1> QED
    BY <1>1, Invariance, PTL

=============================================================================
