SPECIFICATION Spec
CONSTANTS
  fast = fast
  slow = slow
  Tasks <- MCTasks
  Interval <- MCInterval
  NoTask = NoTask
  MaxClock = 2
PROPERTY StopReturns
