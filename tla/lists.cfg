SPECIFICATION ListsFairSpec
CONSTANTS
  LastFilter = 3
  Slots = {s1, s2}
  MaxChanges = 2
INVARIANTS
  ListsTypeOK
  CalmRowsAreStored
PROPERTIES
  SpinnersEnd
