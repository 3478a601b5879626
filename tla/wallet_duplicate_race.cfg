SPECIFICATION Spec
CONSTANTS
  c1 = c1
  c2 = c2
  c3 = c3
  g1 = g1
  wa = wa
  wb = wb
  r1 = r1
  Wallets = {wa, wb}
  Currency = USD
  Opening <- OpenOne
  Calls = {c1, c2}
  Readers = {}
  RequestIds = {r1}
  NoRequestId = NoRequestId
  Free = Free
  Requests <- OneWithdrawal
  Overlapping = TRUE
  ReadReplica = FALSE
  MaxFaults = 0
INVARIANTS OncePerRequestId
CHECK_DEADLOCK FALSE
