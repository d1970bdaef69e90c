SPECIFICATION SignInSpec
CONSTANTS
  t1 = t1
  t2 = t2
  s1 = s1
  s2 = s2
  Tabs = {t1, t2}
  States = {s1, s2}
  Foreign = Foreign
  None = None
  SignedInAs = None
  MaxReuse = 1
  RefreshPolicy = "none"
  MaxRefreshes = 0
  MaxLogouts = 1
  MaxFailures = 0
SYMMETRY Symmetry
INVARIANT TypeOK
INVARIANT HandledStateIsGone
INVARIANT ExchangesAreOwnLogins
INVARIANT PendingLoginCanFinish
