SPECIFICATION FairSpec
CONSTANTS
  NoVal = NoVal
  NoTab = NoTab
  Ids = {i1}
  Vals = {v1}
  Browsers = {t1, t2}
  Tabs = {t1, t2}
  HomeOf <- ItsOwn
  Overlap = FALSE
  MayExport = FALSE
  MaxClock = 2
  MaxFaults = 1
 
PROPERTIES IsSharedVault Settles
CHECK_DEADLOCK FALSE
