SPECIFICATION EventsFairSpec
CONSTANTS
  Users = {u1}
  Admins = {}
  Jobs = {j1}
  Requests = {r1}
  Keys = {}
  Costs = {1}
  InitialCredits = 1
  Adjustments = {}
  MaxCredits = 1
  MaxRetries = 2
  MaxTries = 3
  WorkerSlots = 1
  RaiseOutcomes = {"drop"}
  Endpoints = {"create", "cancel"}
  Faults = {"error", "crash"}
  None = None
  Clients = {c1}
  MaxPolls = 2
  MaxLag = 2
  RedisFails = TRUE
INVARIANT SettledBeforeTold
PROPERTY ListenerIsTold
