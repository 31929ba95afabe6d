\* A push consumer: two members, a redelivered event.
SPECIFICATION Spec
CONSTANTS
  m1 = m1  m2 = m2  e1 = e1  e2 = e2  email = email  Nobody = Nobody
  badCity = badCity  notJson = notJson  offSchema = offSchema
  Events = {e1, e2, badCity, notJson, offSchema}
  Malformed = {notJson}
  Unexpected = {offSchema}
  Poison = {badCity}
  Members = {m1, m2}
  Log <- RepeatLog
  KeysOf <- NoKeys
  Pushing = TRUE
  MaxAttempts = 3
  TxnAttempts = 2
  MaxFaults = 4
SYMMETRY MemberSymmetry
INVARIANTS NoSilentLoss PushRepeatsNeedFaults ParkingNeedsFaults
CHECK_DEADLOCK FALSE
