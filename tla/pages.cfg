SPECIFICATION PagesSpec
CONSTANTS
  Jobs = {j1, j2}
  Calls = {c1, c2}
  MaxTimers = 1
  None = None
SYMMETRY Symmetric
INVARIANTS
  PaidBeforeShown
  OneCopyAtATime
  StoppedShowsEnd
