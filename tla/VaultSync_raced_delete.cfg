SPECIFICATION FairSpec
CONSTANTS
  NoVal = NoVal
  NoTab = NoTab
  Ids = {i1}
  Vals = {v1}
  Browsers = {b1}
  Tabs = {t1, t2}
  HomeOf <- OneBrowser
  Overlap = TRUE
  MayExport = FALSE
  MaxClock = 2
  MaxFaults = 0
PROPERTY DeletedStaysGone
CHECK_DEADLOCK FALSE
