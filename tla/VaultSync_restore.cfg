SPECIFICATION Spec
CONSTANTS
  NoVal = NoVal
  NoTab = NoTab
  Ids = {i1}
  Vals = {v1, v2}
  Browsers = {t1, t2}
  Tabs = {t1, t2}
  HomeOf <- ItsOwn
  Overlap = FALSE
  MayExport = TRUE
  MaxClock = 2
  MaxFaults = 0
INVARIANTS RestoreKeeps
CHECK_DEADLOCK FALSE
