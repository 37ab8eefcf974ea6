CONSTANTS
  Nil = Nil  NaN = NaN
  DefaultIdleWindow = 6
  Second = 3
  Specs <- MCSpecs
  Utils <- MCUtils
  Percents <- MCPercents
  Requests <- MCRequests
  NaNReported <- Least
  MaxAge = 8
SPECIFICATION DemoSpec
INVARIANT TypeOK
PROPERTIES FlaggedAfterWindow ClearedOnlyPastMargin FollowsUtilization DetectorServed DemoForces
