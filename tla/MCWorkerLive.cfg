SPECIFICATION FairSpec
CONSTANTS
  Worker = {w1}
  Ticket = {t1}
  Run = {r1, r2}
  Beat = {b1}
  NoRun = NoRun
  NoTicket = NoTicket
  NoWorker = NoWorker
  t1 = t1
  t2 = t2
  Before <- AnyOrder
  Unclaimable = {}
  SleepKeepsAlive = TRUE
  Report = {"COMPLETED", "unknown"}
INVARIANT TypeOK
PROPERTIES ImplementsLifecycle StopTerminates FencedRunIsLeft OpenRunsEnd WorkIsTaken
CHECK_DEADLOCK FALSE
