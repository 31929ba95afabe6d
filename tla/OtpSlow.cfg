\* The SMS gateway: slower than the lock, with a crash, and time that passes.
SPECIFICATION FairSpec
CONSTANTS
  p1 = p1  p2 = p2  p3 = p3
  Requests = {p1, p2}
  LockTtl = 1
  ProviderTimeout = 2
  Cooldown = 3
  OtpTtl = 1
  AttemptTtl = 4
  BlockTtl = 1
  AttemptLimit = 1
  MaxFaults = 1
INVARIANT OneProviderCall
PROPERTIES CooldownSpacing LockIsFreed
CHECK_DEADLOCK FALSE
