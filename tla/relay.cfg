SPECIFICATION FairSpec
CONSTANTS
  t1 = t1
  t2 = t2
  t3 = t3
  i1 = i1
  i2 = i2
  Rows = {1, 2}
  Ticks = {t1, t2, t3}
  Instances = {i1, i2}
  InstanceOf <- TwoInstances
  Free = Free
  Batch = 1
  ReadReplica = TRUE
  MaxFaults = 1
INVARIANTS MarkedIsSent OneWorker DuplicatesHaveCauses
PROPERTIES EventuallySent
