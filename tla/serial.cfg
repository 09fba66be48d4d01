SPECIFICATION SerialSpec
CONSTANTS
  Users = {u1, u2}
  Admins = {u1}
  Jobs = {j1, j2}
  Requests = {r1}
  Keys = {}
  Costs = {2}
  InitialCredits = 4
  Adjustments = {}
  MaxCredits = 5
  MaxRetries = 2
  MaxTries = 3
  WorkerSlots = 1
  RaiseOutcomes = {"retry", "drop"}
  Endpoints = {"create", "duplicate", "cancel", "admin_create", "admin_cancel"}
  Faults = {"redis_down", "rollback", "error", "db_error", "timeout", "crash"}
  None = None
INVARIANTS BalanceMatchesLedger SettledOnce
