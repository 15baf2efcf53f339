SPECIFICATION Spec
CONSTANTS
  Worker = {w1, w2}
  Ticket = {t1}
  Run = {r1, r2}
  Beat = {b1}
  NoRun = NoRun
  NoTicket = NoTicket
  NoWorker = NoWorker
  t1 = t1
  t2 = t2
  Before <- AnyOrder
  Unclaimable = {}
  SleepKeepsAlive = FALSE
  Report = {"COMPLETED"}
SYMMETRY Symmetry
INVARIANTS DrivenRunIsKept NoStrayTimer ControlledStop
PROPERTY MutatesOnlyOwnedRun
CHECK_DEADLOCK FALSE
