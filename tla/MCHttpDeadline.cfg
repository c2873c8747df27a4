SPECIFICATION Safety
CONSTANTS
  Conns = {c1, c2}
  Concurrency = 2
  Timeout = 1
  Units <- MCUnits
  MaxUnits = 2
  MaxErrors = 1
  Hangups = {"reset"}
INVARIANTS
  WaitingHasDeadline
CHECK_DEADLOCK FALSE
