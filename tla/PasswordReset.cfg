CONSTANTS
  ana = ana
  stranger = stranger
  home = home
  Nobody = Nobody
  Requests = {r1, r2}
  Confirms = {c1, c2}
  Users = {ana}
  Keys = {ana, stranger, home}
  Inputs <- TwoAddresses
  Passwords = {old, new}
  FirstPassword = old
  TTL = 2
  Window = 1
  Limit = 1
  Retention = 0
  MaxNow = 2
  MaxCrashes = 1
SPECIFICATION FairSpec
INVARIANTS
  LinkResetsOnce
  OldLinksAreDead
PROPERTIES
  EveryCallEnds
CHECK_DEADLOCK FALSE
