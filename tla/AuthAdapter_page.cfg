SPECIFICATION AdapterFairSpec
CONSTANTS
  t1 = t1
  s1 = s1
  s2 = s2
  Tabs = {t1}
  States = {s1, s2}
  Foreign = Foreign
  None = None
  SignedInAs = s1
  MaxReuse = 0
  RefreshPolicy = "rotated"
  MaxRefreshes = 2
  MaxLogouts = 1
  MaxFailures = 1
INVARIANT AdapterTypeOK
INVARIANT ViewAgrees
PROPERTY SignOutIsNotCancelled
PROPERTY ComesToRest
PROPERTY NoSpuriousSignOut
INVARIANT CleanSignOutHolds
PROPERTY SessionLossHasACause
