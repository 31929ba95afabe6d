\* Two passengers, requests of anyone for any of three emails, one at a time
\* (each touches the database once), one fault.
SPECIFICATION FairSpec
CONSTANTS
  p1 = p1  p2 = p2  r1 = r1
  upper = upper  lower = lower  other = other
  Nobody = Nobody  NoEmail = NoEmail  NoProfile = NoProfile  NoForm = NoForm
  Passengers = {p1, p2}
  Requests = {r1}
  Emails = {upper, lower, other}
  Lower <- TwoSpellings
  MaxFaults = 1
INVARIANTS TypeOK SharedOnlyBySpelling
PROPERTIES ProfilesFollowEvents ProfilesCome
CHECK_DEADLOCK FALSE
