SPECIFICATION FairSpec
CONSTANTS
  m1 = m1 m2 = m2 k3 = k3 a1 = a1 None = None
  Parts = {"agents", "meter"}
  Session = {c1}
  Known = {c1}
  Vast = {}
  MaxQueued = 1
  MaxChunk = 2
  Agent = {m1}
  Link = {k1, k2}
  LinkOf <- MCLinkOf
  Open = {o1}
  Cmd = {q1}
  AskedOf <- MCAskedOf
  Foreign = {}
  Depth = 1
  Tunnel = {c1, c2}
  Account = {a1}
  AccountOf <- OneAccount
  Frame = {f1}
  MaxPerAccount = 1
  MaxTotal = 2
PROPERTIES RequestsSettle RelayCleansUp
CHECK_DEADLOCK FALSE
