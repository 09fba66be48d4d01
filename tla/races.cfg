SPECIFICATION Spec
CONSTANTS
  Users = {u1, u2}
  Admins = {u1}
  Jobs = {j1}
  Requests = {r1, r2}
  Keys = {}
  Costs = {2}
  InitialCredits = 2
  Adjustments = {}
  MaxCredits = 4
  MaxRetries = 2
  MaxTries = 3
  WorkerSlots = 1
  RaiseOutcomes = {"retry", "drop"}
  Endpoints = {"create", "duplicate", "cancel", "admin_create", "admin_cancel"}
  Faults = {"redis_down", "rollback", "error", "db_error", "timeout", "crash"}
  None = None
SYMMETRY RequestSymmetry
INVARIANTS WorkerSettlesOnce HeldIsUnsettled CompletedIsPaid ExhaustedIsRefunded
  BalanceWithinLedger
PROPERTIES SettlementIsRecorded ImplementsLife
