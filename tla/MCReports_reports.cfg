\* The reconciliation report, a statement and a history while three calls move money.
CONSTANTS
  Accounts = {1, 2}
  Owner <- MCOwner
  Admin = Admin
  Requests = {1, 2, 3}
  Outside = Outside
  NoKey = NoKey
  None = None
  Histories <- MCHistories
  Opening <- MCOpening
  Opened <- MCOpened
  Queries <- MCQueries
  PageSize = 1
  MaxRange = 2
  MaxTime = 3
  u1 = u1
  u2 = u2
SPECIFICATION Spec
CHECK_DEADLOCK FALSE
INVARIANTS
  TypeOK
  QuietAccountsAreReportedTruly
  StatementClosesAtLedger
  HistoryEndsAtLedger
  PagesCoverEveryRow
  DocumentsAreAudited
