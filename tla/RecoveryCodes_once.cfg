SPECIFICATION Spec
CONSTANTS
  Slots = {s1, s2}
  Requests = {q1, q2}
  Overlap = TRUE
  MaxSets = 3
INVARIANT AtMostOnce
CHECK_DEADLOCK FALSE
