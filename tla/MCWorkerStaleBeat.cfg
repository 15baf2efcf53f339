SPECIFICATION Spec
CONSTANTS
  Worker = {w1}
  Ticket = {t1}
  Run = {r1, r2}
  Beat = {b1}
  NoRun = NoRun
  NoTicket = NoTicket
  NoWorker = NoWorker
  t1 = t1
  t2 = t2
  Before <- AnyOrder
  Unclaimable = {}
  SleepKeepsAlive = TRUE
  Report = {"COMPLETED", "error"}
SYMMETRY RunSymmetry
INVARIANT FencedOnlyWhenLost
CHECK_DEADLOCK FALSE
