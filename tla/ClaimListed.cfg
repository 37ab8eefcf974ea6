CONSTANTS
  o1 = o1  o2 = o2  p1 = p1  p2 = p2  d1 = d1  d2 = d2
  Nil = Nil  NaN = NaN  Gone = Gone  NoAnswer = NoAnswer
  DefaultIdleWindow = 1
  Operators = {o1}
  Positions = {p1}
  Deployments = {d1}
  Specs <- AdvisorySpec
  ReplicaCounts = {1}
  PriceAnswers <- OnePrice
  UtilAnswers = {5, 60}
  SettledPrices <- OnePrice
  SettledUtils = {5, 60}
  MaxAge = 1
  Disturbances = {"crash"}
SPECIFICATION FairSpec
PROPERTIES ListedWhenFlagged
