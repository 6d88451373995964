CONSTANTS
  v1 = v1
  v2 = v2
  w1 = w1
  NoVehicle = NoVehicle
  Scenarios <- FourScenarios
  Vehicles = {v1, v2}
  Consumption <- OnlyTheFirst
  Price = 4
  MonthStarts = {1, 4}
  Mondays = {1, 3}
  MaxDay = 4
SPECIFICATION Spec
INVARIANTS
  SamplingNests
  SharesAddUp
  ReportsAgree
