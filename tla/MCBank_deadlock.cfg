\* Two transfers over the same accounts.
SPECIFICATION Spec
CONSTANTS
  Accounts = {1, 2}
  u1 = u1
  u2 = u2
  k1 = k1
  k2 = k2
  Users = {u1, u2}
  Keys = {k1, k2}
  NoKey = NoKey
  Requests = {r1, r2}
  Cash = Cash
  Settlement = Settlement
  Outside = Outside
  None = None
  Owner <- MCOwner
  Opening <- MCOpening
  Inputs <- WaitingInputs
  DailyLimit = 3
  MaxAmount = 2
  MaxAttempts = 3
  StartStatus = {"ACTIVE"}
  Drifts = {0}
SYMMETRY CallSymmetry
INVARIANTS
  LockOrderPreventsDeadlock
