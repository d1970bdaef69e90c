SPECIFICATION Spec
CONSTANTS
  t1 = t1
  t2 = t2
  s1 = s1
  Tabs = {t1, t2}
  States = {s1}
  Foreign = Foreign
  None = None
  SignedInAs = s1
  MaxReuse = 1
  RefreshPolicy = "rotated"
  MaxRefreshes = 1
  MaxLogouts = 1
  MaxFailures = 0
SYMMETRY Symmetry
INVARIANT SignedOutStaysSignedOut
