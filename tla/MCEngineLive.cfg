SPECIFICATION Spec
CONSTANTS
  Sessions = {s1}
  Workers = {w1, w2}
  Loop = Loop
  Owner = Owner
  NoSession = NoSession
  Requests <- AllRequests
  Gains = {1}
  MaxSessions = 1
  MaxProfit = 2
  MaxStarts = 2
  MaxHours = 2
PROPERTIES ErrorIsCleared TakeProfitStops NoLimbo ShutdownCompletes ImplementsLifecycle
