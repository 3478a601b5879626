SPECIFICATION FairSpec
CONSTANTS
  c1 = c1
  c2 = c2
  c3 = c3
  g1 = g1
  wa = wa
  wb = wb
  r1 = r1
  Wallets = {wa, wb}
  Currency = USD
  Opening <- OpenOne
  Calls = {c1, c2}
  Readers = {g1}
  RequestIds = {r1}
  NoRequestId = NoRequestId
  Free = Free
  Requests <- CrossDeposits
  Overlapping = TRUE
  ReadReplica = TRUE
  MaxFaults = 1
INVARIANTS LockExcludes
PROPERTIES CacheSettles
CHECK_DEADLOCK FALSE
