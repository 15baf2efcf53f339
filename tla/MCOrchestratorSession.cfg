SPECIFICATION Spec
CONSTANTS
  MaxReworks = 1
  MaxQueryResumes = 1
  Frontiers <- NoFrontier
INVARIANT ResumesStartedSession
CHECK_DEADLOCK FALSE
