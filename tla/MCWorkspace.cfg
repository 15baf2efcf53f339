\* Two executions in one directory, a third in another of the repository.
SPECIFICATION Spec
CONSTANTS
  e1 = e1
  e2 = e2
  e3 = e3
  t1 = t1
  t2 = t2
  t3 = t3
  k1 = k1
  k2 = k2
  Exec = {e1, e2, e3}
  Ticket = {t1, t2, t3}
  Key = {k1, k2}
  KeyOf <- Codes
  TicketOf <- Tickets
  Holding = {e2}
  Base = Base
  Detached = Detached
  Nowhere = Nowhere
  People = People
INVARIANTS
  TypeOK
  InPlace
  ReusedAsInspected
PROPERTIES
  NothingIsLost
  CleansOnlyItsOwn
CHECK_DEADLOCK FALSE
