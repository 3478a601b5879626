SPECIFICATION FairSpec
CONSTANTS
  alice = alice
  bob = bob
  r1 = r1
  Wallets = {alice, bob}
  Currencies = {"USD", "EUR"}
  DefaultCurrency = "USD"
  Opening <- OpeningEuro
  Calls = {c1}
  Instances = {i1, i2}
  RequestIds = {r1}
  NoRequestId = NoRequestId
  NoSaga = NoSaga
  Free = Free
  Requests <- OneWay
  Amounts = {1}
  Limits = {}
  MaxRetries = 2
  Batch = 1
  Overlap = TRUE
  ReadReplica = TRUE
  MaxFaults = 1
  MaxOps = 1
INVARIANTS TypeOK AtMostOnce NoLostUpdate KeyAnswersTransfer OneCurrency
PROPERTIES CallsEnd DebitedIsSettled
