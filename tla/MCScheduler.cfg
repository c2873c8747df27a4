SPECIFICATION Spec
CONSTANTS
  fast = fast
  slow = slow
  Tasks <- MCTasks
  Interval <- MCInterval
  NoTask = NoTask
  MaxClock = 4
INVARIANTS TypeOK RateBound PassedAtMostOnce
PROPERTIES StopDisarms DueTaskFires ImplementsTimer
