SPECIFICATION FairSpec
CONSTANTS
  Worker = {w1}
  Ticket = {t1, t2}
  Run = {r1}
  Beat = {b1}
  NoRun = NoRun
  NoTicket = NoTicket
  NoWorker = NoWorker
  t1 = t1
  t2 = t2
  Before <- FirstT1
  Unclaimable = {t1}
  SleepKeepsAlive = TRUE
  Report = {"COMPLETED", "error"}
PROPERTY WorkIsTaken
CHECK_DEADLOCK FALSE
