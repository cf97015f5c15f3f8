\* Movements and repairs on accounts whose cache has drifted from the ledger.
SPECIFICATION DriftedSpec
CONSTANTS
  Accounts = {1, 2}
  u1 = u1
  u2 = u2
  k1 = k1
  k2 = k2
  Users = {u1, u2}
  Keys = {k1, k2}
  NoKey = NoKey
  Requests = {r1, r2, r3}
  Cash = Cash
  Settlement = Settlement
  Outside = Outside
  None = None
  Owner <- MCOwner
  Opening <- MCOpening
  Inputs <- RepairInputs
  DailyLimit = 3
  MaxAmount = 2
  MaxAttempts = 3
  StartStatus = {"ACTIVE"}
  Drifts <- MCDrifts
SYMMETRY CallSymmetry
INVARIANTS
  NoOverdraft
  LockInvariant
PROPERTIES
  DriftIsOnlyRepaired
