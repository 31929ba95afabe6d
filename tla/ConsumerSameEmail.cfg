\* Two registrations with one email address, nothing fails.
SPECIFICATION Spec
CONSTANTS
  m1 = m1  m2 = m2  e1 = e1  e2 = e2  email = email  Nobody = Nobody
  badCity = badCity  notJson = notJson  offSchema = offSchema
  Events = {e1, e2, badCity, notJson, offSchema}
  Malformed = {notJson}
  Unexpected = {offSchema}
  Poison = {badCity}
  Members = {m1}
  Log <- TwoLog
  KeysOf <- SameEmail
  Pushing = FALSE
  MaxAttempts = 3
  TxnAttempts = 3
  MaxFaults = 0
INVARIANT NoSilentLoss
CHECK_DEADLOCK FALSE
