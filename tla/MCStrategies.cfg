CONSTANTS
  Mixed = Mixed
  Maker = Maker
  Timid = Timid
  Sessions = {Mixed, Maker, Timid}
  Request <- MCRequest
  Opportunities <- MCOpportunities
  Markets <- MCMarkets
  Garbage = Garbage
  Missing = Missing
  Scale = 400
  Cent = 10
  Ttl = 2

SPECIFICATION Spec
INVARIANTS TypeOK StaleOnlyUntilExpiry
PROPERTIES Earned ProfitIsTaken
