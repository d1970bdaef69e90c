SPECIFICATION Spec
CONSTANTS
  t1 = t1
  s1 = s1
  Tabs = {t1}
  States = {s1}
  Foreign = Foreign
  None = None
  SignedInAs = None
  MaxReuse = 1
  RefreshPolicy = "rotated"
  MaxRefreshes = 0
  MaxLogouts = 0
  MaxFailures = 1
SYMMETRY Symmetry
PROPERTY RetryAsksAgain
