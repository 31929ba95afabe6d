\* Two members, two events with one email address, every kind of message, and
\* a duplicate of the first.
SPECIFICATION FairSpec
CONSTANTS
  m1 = m1  m2 = m2  e1 = e1  e2 = e2  email = email  Nobody = Nobody
  badCity = badCity  notJson = notJson  offSchema = offSchema
  Events = {e1, e2, badCity, notJson, offSchema}
  Malformed = {notJson}
  Unexpected = {offSchema}
  Poison = {badCity}
  Members = {m1, m2}
  Log <- MixedLog
  KeysOf <- SameEmail
  Pushing = FALSE
  MaxAttempts = 2
  TxnAttempts = 2
  MaxFaults = 3
INVARIANTS TypeOK EffectOnce SkipsAreRefusals
PROPERTY ImplementsDelivery
CHECK_DEADLOCK FALSE
