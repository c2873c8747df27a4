SPECIFICATION Safety
CONSTANTS
  Conns = {c1, c2}
  Concurrency = 2
  Timeout = 1
  Units <- MCUnits
  MaxUnits = 2
  MaxErrors = 1
  Hangups = {"reset"}
INVARIANTS
  TypeOK
  OneDeadline
  DeadlineKept
  NoRequestUnanswered
  ClosedIsFreed
  SomeoneReads
CHECK_DEADLOCK FALSE
