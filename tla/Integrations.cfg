CONSTANTS
  v1 = v1
  stranger = stranger
  tank = tank
  consumption = consumption
  low = low
  high = high
  p1 = p1
  Nobody = Nobody
  Calls = {c1, c2, c3}
  Keys = {k1, k2, k3}
  VehicleIds = {v1, stranger}
  Vehicles = {v1}
  Fields = {tank, consumption}
  Values = {low, high}
  Prices = {p1}
  Imports <- SevenImports
SYMMETRY Interchangeable
SPECIFICATION Spec
INVARIANTS
  EveryPriceHasItsReceipt
  SameKeySameReceipt
PROPERTY TechnicalDataFollowsReceipts
