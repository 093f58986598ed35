SPECIFICATION FairSpec
CONSTANTS
  None = None
  Records = {r1, r2}
  Callers = {c1, c2}
  NoRec = NoRec
  MaxFaults = 2
  Mints = {m1}
  Limit = 1
  Window = 2
  Keep = 2
  Ttl = 2
  Allowance <- RelayAllowance
  MaxUsed = 1
  MaxDbFaults = 1
  Tokens = {e1, e2}
  Keys = {k1, k2}
  NoKey = NoKey
  MaxTokens = 1
  Fetches = {f1, f2}
  Kinds = {"restart", "stop"}
  Links = {l1}
  Viewers = {v1, v2}
  MaxViews = 1
  Ceiling = 2
  HighWater = 2
  Sizes <- CopySizes
  Names = {i1, i2}
  Loops = {o1, o2}
  MaxSessions = 1
PROPERTIES
  PushesReachServer  EnrolmentSettles FleetIsShown
  SweepIsExact  
CHECK_DEADLOCK FALSE
