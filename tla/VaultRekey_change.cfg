SPECIFICATION FairSpec
CONSTANTS
  NoTab = NoTab
  Keys = {k1}
  Browsers = {t1, t2}
  Tabs = {t1, t2}
  HomeOf <- ItsOwn
  MaxPassword = 2
  MayReuse = FALSE
  MayEnrol = TRUE
  MaxVersion = 2
  MaxFaults = 1
INVARIANTS KeysOpen StaleKeyLoses BlobFirst
PROPERTIES NoKeyLeaves HalfDoneIsRepaired
