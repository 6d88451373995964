CONSTANTS
  created = created
  updated = updated
  Events = {created, updated}
  Workers = {w1, w2}
  MaxAttempts = 2
  MaxCount = 4
  Configured = TRUE
  CreatedAt <- Begins
SPECIFICATION FairSpec
INVARIANTS
  NoConcurrentSends
  SendsAreCounted
PROPERTIES
  ImplementsDelivery
  EveryEventSettles
CHECK_DEADLOCK FALSE
