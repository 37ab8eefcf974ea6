CONSTANTS
  a = a  b = b  c = c  q1 = q1  q2 = q2
  Unset = Unset  None = None
  Positions = {a, b, c}
  Quotes = {q1, q2}
  Settings <- MCSettings
SPECIFICATION Spec
INVARIANTS ListedAsQuoted LastIsFlagged LiveEventsTrue
PROPERTIES WritesOnlyWithConsent
SYMMETRY Same
