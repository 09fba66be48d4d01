SPECIFICATION FairSpec
CONSTANTS
  Users = {u1}
  Admins = {}
  Jobs = {j1, j2}
  Requests = {r1}
  Keys = {}
  Costs = {1}
  InitialCredits = 1
  Adjustments = {}
  MaxCredits = 1
  MaxRetries = 2
  MaxTries = 2
  WorkerSlots = 1
  RaiseOutcomes = {"drop"}
  Endpoints = {"create", "cancel"}
  Faults = {"redis_down", "rollback", "error", "db_error", "timeout", "crash"}
  None = None
PROPERTIES DeliveriesEnd 
