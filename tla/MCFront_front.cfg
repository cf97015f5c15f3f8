\* The transfer form, the network, the rate limiter and the transfers route.
CONSTANTS
  Payees = {a1, a2, a3}
  Number <- MCNumber
  Currency <- MCCurrency
  Status <- MCStatus
  Foreign <- MCForeign
  Plans <- MCPlans
  None = None
  MaxEdits = 2
  MaxChecks = 2
  MaxSubmits = 2
  Window = 2
  Limits = {1, 2}
  TransferLimit = 2
  OtherLimits = {1}
  AdminLimit = 2
  MaxPresses = 3
  Staff = {s1}
  Owner = o1
  Sum = 1
  MaxAccounts = 2
  a1 = a1
  a2 = a2
  a3 = a3
SPECIFICATION FairSpec
CHECK_DEADLOCK FALSE
INVARIANTS
  TypeOK
  PayeeIsTheOneMeant
  PayeeWasShown
  PreviewIsRecorded
  PaidTwiceOnlyAfterSilence
  AtMostTwiceTheLimit
  RefusalsAreEarned
  ClosedForGoodWithoutOverlap
  ReversedOnceWithoutOverlap
PROPERTIES
  FormComesBack
