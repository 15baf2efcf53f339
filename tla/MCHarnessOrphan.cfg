SPECIFICATION FairHarness
CONSTANTS
  Worker = {w1}
  Ticket = {t1}
  Run = {r1}
  Beat = {b1}
  NoRun = NoRun
  NoTicket = NoTicket
  NoWorker = NoWorker
  t1 = t1
  Before <- AnyOrder
  Unclaimable = {}
  SleepKeepsAlive = TRUE
  Report = {"FAILED"}
  RoleOutcome = {"IMPLEMENTED"}
PROPERTY StopLeavesNoOrphan
CHECK_DEADLOCK FALSE
