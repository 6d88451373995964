---------------------------- MODULE MCDashboard ----------------------------
(* Instances of Dashboard, and with it of Sessions, for TLC. *)
EXTENDS Dashboard, TLC

CONSTANTS c1, c2, c3, c4, t1, t2, l1, l2, v1, v2, e1, e2, s1, s2

As(i1, i2, i3, i4) ==
  [c \in Calls |-> CASE c = c1 -> i1 [] c = c2 -> i2 [] c = c3 -> i3 [] c = c4 -> i4]

Registered(e, o) == [kind |-> "account", email |-> e, organization |-> o]
Registration(e)  == [kind |-> "register", email |-> e]
Start(e)         == [kind |-> "bootstrap", email |-> e]
NewUser(e, o)    == [kind |-> "user", email |-> e, organization |-> o]
LoginAs(c)       == [kind |-> "login", account |-> c]
Google(e, s)     == [kind |-> "callback", email |-> e, subject |-> s]
Trade(c)         == [kind |-> "exchange", code |-> c]

(* Two users take turns in one tab, where loads overlap; two users in two tabs; *)
(* a code presented twice; the form beside the exchange; a registration for an  *)
(* address that somebody else adds; an address that changes hands; an address   *)
(* wanted by two registrations and a starting server; one Google account for    *)
(* two addresses.                                                               *)
TakingTurns == As(Registered(e1, c1), Registered(e2, c2), LoginAs(c1), LoginAs(c2))
SideBySide  == As(Registered(e1, c1), Registered(e2, c2), LoginAs(c2), LoginAs(c1))
OneCode     == As(Registered(e1, c1), Google(e1, s1), Trade(c2), Trade(c2))
TwoWaysIn   == As(Registered(e1, c1), Google(e1, s1), Trade(c2), LoginAs(c1))
Newcomer    == As(Registered(e1, c1), LoginAs(c1), Registration(e2), NewUser(e2, c1))

EightScenarios ==
  {TakingTurns, SideBySide, OneCode, TwoWaysIn, Newcomer,
   As(Registered(e1, c1), Google(e1, s1), Google(e1, s2), Trade(c3)),
   As(Registration(e1), Registration(e1), Start(e1), Google(e1, s1)),
   As(Registered(e1, c1), NewUser(e2, c1), Google(e1, s1), Google(e2, s1))}

OpenTabs  == [s \in EightScenarios |->
  CASE s = SideBySide -> 2 [] s \in {TakingTurns, OneCode, TwoWaysIn, Newcomer} -> 1 [] OTHER -> 0]
LoadSlots == [s \in EightScenarios |-> IF s = TakingTurns THEN 2 ELSE 1]

(* One vehicle for each of the two users that meet in a browser. *)
Fleets == (v1 :> c1) @@ (v2 :> c2)

Alike == Permutations(Loads) \cup Permutations(Tabs)
=============================================================================
