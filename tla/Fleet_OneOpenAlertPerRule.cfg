CONSTANTS
  v1 = v1
  v2 = v2
  oil = oil
  tyres = tyres
  k1 = k1
  k2 = k2
  Requests = {t1, t2, t3}
  NoRequest = NoRequest
  Vehicles = {v1}
  ActiveVehicles = {v1}
  Rules = {oil, tyres}
  FirstRules = {oil}
  Keys = {k1, k2}
  MaxDay = 1
  RuleSpec <- AlertSpec
  Inputs <- AlertInputs
  StartKm <- FirstKm
SYMMETRY Symmetry
SPECIFICATION Spec
INVARIANT OneOpenAlertPerRule
CHECK_DEADLOCK FALSE
