SPECIFICATION Spec
CONSTANTS
  MaxHeader = 64
  MaxLength = 75
  MaxDepth = 3
  MaxPairs = 4
  MaxName = 6
  SplitUrls = TRUE
  Cases <- MCSplitCases
  Answers <- MCAnswers
  RouteOf <- HandleInitial
  Respond <- Reply
  ServesFiles <- IsStatic
  AlsoGiven <- Beside
INVARIANT Routed
CHECK_DEADLOCK FALSE
