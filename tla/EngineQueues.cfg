SPECIFICATION Spec
CONSTANTS
  Conns = {c1, c2, c3}
  Watched = {c1}
  None = None
  MaxWait = 2
INVARIANTS QueuesExact TimerCovers
PROPERTIES NoneStarved ClosedIsFreed
