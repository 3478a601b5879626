SPECIFICATION Spec
CONSTANTS
  Amounts = {4, 5, 10, 15}
  Limits <- SomeLimits
  Instants = {50, 60, 71, 72, 80}
  Offsets <- Zones
  MaxCalls = 6
INVARIANTS LedgerTypeOK EventsAddUp
PROPERTIES LimitPerDay CountedStays
CHECK_DEADLOCK FALSE
