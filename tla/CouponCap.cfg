\* Three good requests and a bad one after two redemptions.
SPECIFICATION FairSpec
CONSTANTS
  q1 = q1  q2 = q2  q3 = q3  q4 = q4
  Requests = {q1, q2, q3, q4}
  Body <- MixedBodies
  Cap = 2
  Type = "percent"
  Value = 10000
  Unit = 1000
  Largest = 1000000
  MaxFaults = 2
INVARIANTS TypeOK CapRespected CountMatchesOutbox OneEventPerRequest AnswersAreCommitted
PROPERTIES ImplementsLedger EveryRequestEnds
CHECK_DEADLOCK FALSE
