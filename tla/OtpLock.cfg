\* The lock runs out under a slow provider, nothing fails.
SPECIFICATION Spec
CONSTANTS
  p1 = p1  p2 = p2  p3 = p3
  Requests = {p1, p2}
  LockTtl = 1
  ProviderTimeout = 2
  Cooldown = 3
  OtpTtl = 4
  AttemptTtl = 7
  BlockTtl = 7
  AttemptLimit = 3
  MaxFaults = 0
INVARIANT LockExclusion
CHECK_DEADLOCK FALSE
