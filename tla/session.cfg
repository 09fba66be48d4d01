SPECIFICATION SessionSpec
CONSTANTS
  Tabs = {t1, t2}
  Accounts = {alice, root}
  Admins = {root}
  Calls = {c1, c2}
  MaxLogins = 2
  LastName = 2
INVARIANTS
  SessionTypeOK
  StoreIsOneSession
  CalmStoreIsTrue
PROPERTIES
  SignOutEnds
SYMMETRY
  Symmetric
VIEW
  View
