SPECIFICATION MCSpec
CONSTANTS
  c1 = c1 c2 = c2 c3 = c3 c4 = c4 a1 = a1 a2 = a2
  Conn = {c1, c2, c3, c4}
  Account = {a1, a2}
  AccountOf <- MCAccountOf
  Booked = {a1}
  Frame = {f1, f2}
  None = None
  MaxPerAccount = 1
  MaxTotal = 2
  MaxChunk = 1
INVARIANTS SlotsRight BytesRight
PROPERTIES IsSlotPool
CHECK_DEADLOCK FALSE
