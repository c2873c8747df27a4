SPECIFICATION Safety
CONSTANTS
  Sessions = {s1, s2, s3}
  Workers = {w1, w2}
  Loop = Loop
  Owner = Owner
  NoSession = NoSession
  Requests <- QuickRequest
  Gains = {1}
  MaxSessions = 1
  MaxProfit = 1
  MaxStarts = 1
  MaxHours = 2
SYMMETRY Alike
INVARIANTS TypeOK LoopNeverDangles SessionLimit
