SPECIFICATION Spec
CONSTANTS
  alice = alice
  bob = bob
  r1 = r1
  Wallets = {alice, bob}
  Currencies = {"USD", "EUR"}
  DefaultCurrency = "USD"
  Opening <- OpeningBoth
  Calls = {c1}
  Instances = {i1, i2}
  RequestIds = {r1}
  NoRequestId = NoRequestId
  NoSaga = NoSaga
  Free = Free
  Requests <- OneWay
  Amounts = {1}
  Limits = {}
  MaxRetries = 2
  Batch = 1
  Overlap = FALSE
  ReadReplica = FALSE
  MaxFaults = 2
  MaxOps = 1
INVARIANTS PaidOutOnce
