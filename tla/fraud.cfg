SPECIFICATION FairSpec
CHECK_DEADLOCK FALSE
CONSTANTS
  e1 = e1
  e2 = e2
  e3 = e3
  w1 = w1
  None = None
  Events = {e1, e2, e3}
  Wallets = {w1}
  Payloads <- Scenarios
  Handlers = {h1, h2}
  MaxAttempts = 1
  MaxWithdrawals = 1
  Window = 2
  Threshold = 5
  MaxSends = 1
  MaxFaults = 1
INVARIANTS TypeOK AlertedOnce EventsAccounted BurstIsAlerted AlarmIsBurst
PROPERTY EventuallyExamined
