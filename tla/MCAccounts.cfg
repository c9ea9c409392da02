SPECIFICATION FairAccountsSpec
CONSTANTS
  Requests = {q1, q2}
  ann = ann
  Ann = Ann
  bob = bob
  Emails = {ann, Ann, bob}
  Lower <- LowerCase
  Tokens = {t1, t2, t3}
  Keys = {k1, k2, k3}
  MaxFails = 2
  MaxKeys = 1
  FailAt <- FailuresAllowed
  Workloads <- Together
  Null = null
INVARIANTS AccountsTypeOK OneAccountPerAddress RotationRetires LimitsOvershootBounded
PROPERTIES LockoutEnds
CHECK_DEADLOCK FALSE
