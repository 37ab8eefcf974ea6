CONSTANTS
  o1 = o1  o2 = o2  p1 = p1  p2 = p2  d1 = d1  d2 = d2
  Nil = Nil  NaN = NaN  Gone = Gone  NoAnswer = NoAnswer
  DefaultIdleWindow = 1
  Operators = {o1}
  Positions = {p1}
  Deployments = {d1}
  Specs <- OneSpec
  ReplicaCounts = {1}
  PriceAnswers <- RestPrices
  UtilAnswers <- RestUtils
  SettledPrices <- RestPrices
  SettledUtils <- RestUtils
  MaxAge = 1
  Disturbances = {"statusError", "marketError"}
SPECIFICATION FairSpec
INVARIANT RestConverged
PROPERTIES StaysAtRest EventuallyConverges
ACTION_CONSTRAINT SettlesBetweenReconciles
