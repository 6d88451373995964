CONSTANTS
  c1 = c1
  c2 = c2
  c3 = c3
  c4 = c4
  t1 = t1
  t2 = t2
  l1 = l1
  l2 = l2
  v1 = v1
  v2 = v2
  e1 = e1
  e2 = e2
  s1 = s1
  s2 = s2
  Initial = Initial
  Nobody = Nobody
  Calls = {c1, c2, c3, c4}
  Emails = {e1, e2}
  Subjects = {s1, s2}
  CodeLife = 1
  Retention = 1
  MaxNow = 3
  Scenarios <- EightScenarios
  Tabs = {t1, t2}
  Loads = {l1, l2}
  Vehicles = {v1, v2}
  Owner <- Fleets
  Requests = 2
  Opened <- OpenTabs
  AtOnce <- LoadSlots
SPECIFICATION DashboardSpec
SYMMETRY Alike
CHECK_DEADLOCK FALSE
INVARIANTS
  AccountsAreWhole
  CodeIssuesOneToken
  ScreenIsOfOneOrganization
  WritesStayAtHome
  LoadingHasACause
PROPERTIES
  LinksAreFinal
