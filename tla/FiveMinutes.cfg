SPECIFICATION ChainSpec
CONSTANTS
  Jobs = {j1}
  Limit = 1
  MaxReplays = 1
  Consumers = {c1}
  Admins = {a1}
  Nobody = Nobody
  Skew = 1
  Half = 8
  Clocks = {3}
  Stamps <- MCStamps
  MaxMishaps = 0
INVARIANTS WithinFiveMinutes
CHECK_DEADLOCK FALSE
