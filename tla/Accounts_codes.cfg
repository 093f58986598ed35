SPECIFICATION Spec
CONSTANTS
  Windows = {w1, w2}
  Passwords = {p1, p2}
  Nothing = Nothing
INVARIANTS CodesOpen
CHECK_DEADLOCK FALSE
