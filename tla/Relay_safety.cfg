SPECIFICATION Spec
CONSTANTS
  m1 = m1 m2 = m2 k3 = k3 a1 = a1 None = None
  Parts = {"events", "agents"}
  Session = {c1, c2, c3}
  Known = {c1, c2}
  Vast = {c2}
  MaxQueued = 2
  MaxChunk = 1
  Agent = {m1, m2}
  Link = {k1, k2, k3}
  LinkOf <- MCLinkOf
  Open = {o1}
  Cmd = {q1, q2}
  AskedOf <- MCAskedOf
  Foreign = {q2}
  Depth = 1
  Tunnel = {c1}
  Account = {a1}
  AccountOf <- OneAccount
  Frame = {f1}
  MaxPerAccount = 1
  MaxTotal = 1
INVARIANTS TimelineExact RegistryRight
CHECK_DEADLOCK FALSE
