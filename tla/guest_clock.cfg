SPECIFICATION FairClockSpec
CONSTANTS
  InsnsPerTick = 2
  Budget = 5
  Never = 99
  Deadlines <- MCDeadlines
  MaxElapsed = 2
  MaxInsns = 12
  MaxWall = 6
INVARIANT LeadBounded
INVARIANT NoEarlyTimer
PROPERTY RdtimeMonotonic
PROPERTY TimerFires
CHECK_DEADLOCK FALSE
