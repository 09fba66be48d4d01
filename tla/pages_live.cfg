SPECIFICATION PagesFairSpec
CONSTANTS
  Jobs = {j1}
  Calls = {c1, c2}
  MaxTimers = 1
  None = None
PROPERTIES
  EndIsNoticed
  CalmCompletionRedirects
