\* Providers that answer within the lock's time to live or outlive it.
SPECIFICATION Spec
CONSTANTS
  p1 = p1  p2 = p2  p3 = p3
  Requests = {p1, p2}
  LockTtl = 2
  ProviderTimeout = 2
  Cooldown = 3
  OtpTtl = 4
  AttemptTtl = 7
  BlockTtl = 7
  AttemptLimit = 3
  MaxFaults = 1
SYMMETRY RequestSymmetry
INVARIANTS TypeOK ExclusiveUnlessLapsed GuessesPerCode GuessesAcrossCodes SingleUse
PROPERTY NoAcceptWhileBlocked
CHECK_DEADLOCK FALSE
