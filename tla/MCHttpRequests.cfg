SPECIFICATION Spec
CONSTANTS
  MaxHeader = 64
  MaxLength = 75
  MaxDepth = 3
  MaxPairs = 4
  MaxName = 6
  SplitUrls = FALSE
  Cases <- MCCases
  Answers <- MCAnswers
  RouteOf <- HandleInitial
  Respond <- Reply
  ServesFiles <- IsStatic
  AlsoGiven <- Beside
INVARIANTS
  TypeOK
  Framing
  KeptOpen
  Routed
  AnswersInOrder
  GivenAsSent
  JsonBothWays
CHECK_DEADLOCK FALSE
