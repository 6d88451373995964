CONSTANTS
  ana = ana
  bia = bia
  home = home
  Nobody = Nobody
  Attempts = {1, 2, 3}
  Identities = {ana, bia}
  Sources = {home}
  Inputs <- SharedSource
  Window = 2
  Block = 2
  Limit = 2
  Retention = 2
  MaxDuration = 1
  MaxNow = 4
SPECIFICATION FairSpec
INVARIANTS
  FailuresAreCounted
  BlockedIsRefused
PROPERTY EveryAttemptEnds
CHECK_DEADLOCK FALSE
