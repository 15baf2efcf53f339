SPECIFICATION Spec
CONSTANTS
  Proc = {p1}
  r0 = r0
  r1 = r1
  r2 = r2
  Run = {r0, r1, r2}
  Earlier <- TwoEarlier
  StartedAt <- Stamps
  IdRank <- Ranks
  NoRun = NoRun
  NoDetail = NoDetail
  Others = Others
  CycleState = {"IN_PROGRESS", "REVIEWING", "DONE"}
  OthersOutcome = {"COMPLETED", "FAILED"}
  EchoesState = TRUE
  Report = {"COMPLETED", "unknown"}
INVARIANT ExitZeroMeansCompleted
CHECK_DEADLOCK FALSE
