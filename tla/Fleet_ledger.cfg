CONSTANTS
  v1 = v1
  v2 = v2
  oil = oil
  tyres = tyres
  k1 = k1
  k2 = k2
  Requests = {t1, t2, t3}
  NoRequest = NoRequest
  Vehicles = {v1, v2}
  ActiveVehicles = {v1, v2}
  Rules = {oil}
  FirstRules = {oil}
  Keys = {k1, k2}
  MaxDay = 0
  RuleSpec <- LedgerSpec
  Inputs <- LedgerInputs
  StartKm <- FirstKm
SPECIFICATION FairSpec
INVARIANTS
  EveryKilometreClosedOnce
  OneRecordPerKey
PROPERTIES
  ImplementsLedger
  EveryRequestAnswered
CHECK_DEADLOCK FALSE
