SPECIFICATION Spec
CONSTANTS
  a = a
  b = b
  x = x
  y = y
  H100 = H100
  B200 = B200
  POS <- MCPOS
  NAME <- MCNAME
  NameOf <- MCNameOf
  SKU <- MCSKU
  REPORT <- MCREPORT
  PRICE <- MCPRICE
  Cap = 2
  None = None
INVARIANTS
  EventsServed
