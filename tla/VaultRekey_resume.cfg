SPECIFICATION Spec
CONSTANTS
  NoTab = NoTab
  Keys = {k1}
  Browsers = {t1, t2}
  Tabs = {t1, t2}
  HomeOf <- ItsOwn
  MaxPassword = 2
  MayReuse = FALSE
  MayEnrol = FALSE
  MaxVersion = 3
  MaxFaults = 1
INVARIANT ResumeKeepsKeys
