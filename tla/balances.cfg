SPECIFICATION Spec
CONSTANTS
  Users = {u1, u2}
  Admins = {u1}
  Jobs = {j1, j2}
  Requests = {r1, r2}
  Keys = {k1}
  Costs = {2}
  InitialCredits = 2
  Adjustments <- GrantAndRemoval
  MaxCredits = 3
  MaxRetries = 1
  MaxTries = 1
  WorkerSlots = 0
  RaiseOutcomes = {"drop"}
  Endpoints = {"create", "duplicate", "cancel", "adjust"}
  Faults = {}
  None = None
SYMMETRY RequestSymmetry
INVARIANTS BalanceNeverNegative OneJobPerKey
