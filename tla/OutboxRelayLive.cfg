\* One instance, two rows, overlapping sweeps over batches, a fault that cuts one short.
SPECIFICATION FairSpec
CONSTANTS
  i1 = i1  i2 = i2  r1 = r1  r2 = r2  s1 = s1  s2 = s2  k1 = k1
  Instances = {i1}
  Rows = {r1, r2}
  Sweeps = {s1, s2}
  Keys <- OneKey
  KeyOf <- SameKey
  SweepLimit = 2
  MaxFaults = 1
PROPERTIES EventuallySent ImplementsPublication
CHECK_DEADLOCK FALSE
