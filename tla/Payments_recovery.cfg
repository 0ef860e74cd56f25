\* One card and one bank slip, both in the job's batch, any webhook lost.
SPECIFICATION FairSpec
CONSTANTS
  c1 = c1
  c2 = c2
  k1 = k1
  Cards = {c1}
  Slips = {k1}
  BatchSize = 2
PROPERTIES
  CapturedIsRecorded
CHECK_DEADLOCK FALSE
