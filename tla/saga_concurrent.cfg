SPECIFICATION Spec
CONSTANTS
  alice = alice
  bob = bob
  r1 = r1
  Wallets = {alice, bob}
  Currencies = {"USD", "EUR"}
  DefaultCurrency = "USD"
  Opening <- OpeningNewReceiver
  Calls = {c1, c2}
  Instances = {i1}
  RequestIds = {r1}
  NoRequestId = NoRequestId
  NoSaga = NoSaga
  Free = Free
  Requests <- Assorted
  Amounts = {1}
  Limits <- SomeLimits
  MaxRetries = 2
  Batch = 1
  Overlap = FALSE
  ReadReplica = FALSE
  MaxFaults = 1
  MaxOps = 2
INVARIANTS FailedMeansUntouched SagaTellsLedger MoneyConserved LedgerIsBalance ClosedIsEmpty
PROPERTIES ClosedForever ImplementsEscrow
