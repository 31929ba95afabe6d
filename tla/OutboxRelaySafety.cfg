\* Two instances of the service relay one collection: handlers and
\* overlapping sweeps of both, three faults.  Rows do not affect each other
\* but by cutting a sweep short, which the live run covers.
SPECIFICATION Spec
CONSTANTS
  i1 = i1  i2 = i2  r1 = r1  r2 = r2  s1 = s1  s2 = s2  k1 = k1
  Instances = {i1, i2}
  Rows = {r1}
  Sweeps = {s1, s2}
  Keys <- OneKey
  KeyOf <- SameKey
  SweepLimit = 50
  MaxFaults = 3
SYMMETRY Symmetry
INVARIANTS TypeOK WorkIsSound SentIsPublished CopiesBound
CHECK_DEADLOCK FALSE
