CONSTANTS
  o1 = o1  o2 = o2  p1 = p1  p2 = p2  d1 = d1  d2 = d2
  Nil = Nil  NaN = NaN  Gone = Gone  NoAnswer = NoAnswer
  DefaultIdleWindow = 1
  Operators = {o1, o2}
  Positions = {p1}
  Deployments = {d1}
  Specs <- EitherHalf
  ReplicaCounts = {1}
  PriceAnswers <- TwoPrices
  UtilAnswers = {5, 60}
  SettledPrices = {}
  SettledUtils = {}
  MaxAge = 1
  Disturbances = {"marketError"}
SPECIFICATION Spec
INVARIANTS WorkloadAccounted StatusSound OffersAccounted
PROPERTY WindowKept
SYMMETRY OperatorSymmetry
CONSTRAINTS NotTornYet OneFeedEach
