SPECIFICATION PartsSpec
CONSTANTS
  r1 = r1
  r2 = r2
  r3 = r3
  r4 = r4
  a = a
  Calls = {r1, r2, r3, r4}
  NoId = NoId
  NoCall = NoCall
  ReqId <- MixedIds
  MaxMade = 3
  Users = {u1, u2}
  Retries = {k1, k2}
  Networks = {n1, n2}
  NoNetwork = NoNetwork
  Eager = TRUE
  Limits = {0, 1, 2, 3, 4, 5}
  NoLimit = NoLimit
  MIN_LIMIT = 2
  MAX_LIMIT = 3
  Total = 6
  MaxEmpty = 2
  MAX_ATTEMPTS = 2
  Deposits = 2
  Callers = {c1, c2, c3}
  MAX_LOAD_ATTEMPTS = 3
  MaxLoads = 3
  Sponsored = {t1, t2}
  Demands <- MCDemands
  Entries <- MCEntries
  MaxVersions = 2
CHECK_DEADLOCK FALSE
INVARIANTS
  AutoNeverRefused
  TableConsistent
  UpIsAnnounced
  PagesMeetLimit
  FundedMeansPaid
  OneInstance
  VerdictsAreTheLedgers
PROPERTIES
  RequestsSettle
  ServiceSpec
  LinkSpec
  FailureNotCached
  EveryCallSettles
