\* Three calls at a time on the registry, over a pool of two connections.
CONSTANTS
  Calls = {c1, c2, c3}
  Founders = {adm, ann, bob}
  FoundersRow <- MCFoundersRow
  Names <- MCNames
  Usernames <- MCUsernames
  Lower <- MCLower
  Secrets = {p1, p2, p3, s1, s2}
  Numbers = {n1, n2, n3, n4}
  Generated = Generated
  FirstAccounts <- MCFirstAccounts
  None = None
  Scenarios <- MCScenarios
  PoolSize = 2
  MaxAccounts = 2
  c1 = c1
  c2 = c2
  c3 = c3
  adm = adm
  ann = ann
  bob = bob
  admMail = admMail
  annMail = annMail
  annName = annName
  bobMail = bobMail
  ZoeMail = ZoeMail
  zoeMail = zoeMail
  Nick = Nick
  nick = nick
  p1 = p1
  p2 = p2
  p3 = p3
  s1 = s1
  s2 = s2
  n1 = n1
  n2 = n2
  n3 = n3
  n4 = n4
SPECIFICATION FairSpec
CHECK_DEADLOCK FALSE
INVARIANTS
  TypeOK
  NamesFindOnePerson
  AuditTellsWhatHappened
  LimitHoldsWithoutOverlap
  LosersMetTheirWinner
  TablesHoldWhatWasCommitted
  SecretsWereRight
PROPERTIES
  EveryCallEnds
