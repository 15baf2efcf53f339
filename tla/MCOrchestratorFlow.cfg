SPECIFICATION FairSpec
CONSTANTS
  MaxReworks = 2
  MaxQueryResumes = 1
  Frontiers <- EveryFrontier
INVARIANTS TypeOK AgreesWithRail ReviewedAsIs NoOrphanQuery BoundedWork
PROPERTIES NothingAfterCancel CancelSettles OnlyPeopleHoldItUp ImplementsWorkCycle
CHECK_DEADLOCK FALSE
