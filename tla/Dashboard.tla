----------------------------- MODULE Dashboard -----------------------------
(***************************************************************************)
(* OperationsDashboard and LoginForm in the tabs of one browser, composed  *)
(* with Sessions.  The tabs share localStorage and the cookie; each has    *)
(* its own component, whose requests are answered in any order and carry   *)
(* the token that was stored when they were sent.                          *)
(***************************************************************************)
EXTENDS Sessions

CONSTANTS
  Tabs,
  Loads,
  Vehicles, Owner, \* vehicles and their organisations
  Requests,        \* how many lists loadDashboard asks for
  Opened, AtOnce   \* bounds for each scenario: tabs, and loads under way at once

ASSUME TabsAssumption     == Nobody \notin Tabs /\ Opened \in [Scenarios -> Nat] /\ AtOnce \in [Scenarios -> Nat]
ASSUME VehiclesAssumption == Owner \in [Vehicles -> Organization] /\ IsFiniteSet(Vehicles)
ASSUME RequestsAssumption == Requests \in Nat \ {0}

VARIABLES
  stored,        \* localStorage: the call that issued access_token
  cookie,        \* oauth_correlation, named by the sign-in it belongs to
  page,          \* what each tab shows
  url,           \* auth_code in the address, or the sign-in a tab left for
  asking,        \* calls of the login form, or the exchange, under way
  authenticated, loading,
  due,           \* the timer that will call loadDashboard is set
  screen,        \* what the component holds
  load,          \* requests under way
  written        \* for the properties: vehicles written to, and for whom

tab  == <<page, url, asking, authenticated, loading, due, screen>>
vars == <<server, stored, cookie, tab, load, written>>

FleetOf(o) == {v \in Vehicles : Owner[v] = o}

(* The organisation of a token, as the row of its account says. *)
OrganizationOfToken(k) ==
  (CHOOSE u \in users : u.id = tokens[k]).organization

Nothing == Organization \cup {Nobody}

Screen == [session : Nothing, fleet : SUBSET Vehicles, financials : Nothing]
Load == [tab : Tabs \cup {Nobody},
         phase : {"submit", "lists", "financials", "ended"}, token : Calls \cup {Nobody},
         of : Nothing \cup Vehicles, waiting : Nat, failed : BOOLEAN, mounted : BOOLEAN]

(* The type of every variable, those of the server included; an authenticated   *)
(* tab is one that shows the application, and a token was issued to be stored.  *)
DashboardTypeOK ==
  /\ TypeOK
  /\ stored \in Calls \cup {Nobody} /\ cookie \in Calls \cup {Nobody}
  /\ stored # Nobody => tokens[stored] # Nobody
  /\ page \in [Tabs -> {"closed", "mounting", "shown", "google"}]
  /\ url \in [Tabs -> Calls \cup {Nobody}]
  /\ asking \in [Tabs -> SUBSET Calls]
  /\ authenticated \in [Tabs -> BOOLEAN] /\ loading \in [Tabs -> BOOLEAN]
  /\ due \in [Tabs -> BOOLEAN]
  /\ screen \in [Tabs -> Screen]
  /\ load \in [Loads -> Load]
  /\ written \subseteq Vehicles \X Organization
  /\ \A t \in Tabs : /\ authenticated[t] => page[t] = "shown"
                     /\ due[t] => authenticated[t]

Blank == [session |-> Nobody, fleet |-> {}, financials |-> Nobody]
NoLoad == [tab |-> Nobody, phase |-> "ended", token |-> Nobody, of |-> Nobody, waiting |-> 0,
           failed |-> FALSE, mounted |-> FALSE]

DashboardInit ==
  /\ Init
  /\ stored = Nobody /\ cookie = Nobody
  /\ page \in [Tabs -> {"closed", "mounting"}]
  /\ Cardinality({t \in Tabs : page[t] = "mounting"}) = Opened[input]
  /\ url = [t \in Tabs |-> Nobody] /\ asking = [t \in Tabs |-> {}]
  /\ authenticated = [t \in Tabs |-> FALSE] /\ loading = [t \in Tabs |-> TRUE]
  /\ due = [t \in Tabs |-> FALSE]
  /\ screen = [t \in Tabs |-> Blank]
  /\ load = [l \in Loads |-> NoLoad] /\ written = {}

-----------------------------------------------------------------------------
IsFree(l) ==
  load[l] = NoLoad /\ Cardinality({k \in Loads : load[k] # NoLoad}) < AtOnce[input]

(* A component is mounted anew; what the former one began goes on without it.  *)
MountAnew(t) ==
  /\ page' = [page EXCEPT ![t] = "mounting"]
  /\ authenticated' = [authenticated EXCEPT ![t] = FALSE]
  /\ loading' = [loading EXCEPT ![t] = TRUE] /\ due' = [due EXCEPT ![t] = FALSE]
  /\ screen' = [screen EXCEPT ![t] = Blank]
  /\ load' = [l \in Loads |->
       IF load[l].tab = t THEN [load[l] EXCEPT !.mounted = FALSE] ELSE load[l]]

(* A link of the application leads to another page, with a component of its own. *)
Navigate(t) ==
  /\ authenticated[t] /\ asking[t] = {} /\ MountAnew(t)
  /\ UNCHANGED <<server, stored, cookie, url, asking, written>>

(* setAuthenticated(TRUE); the effect sets the timer only if that is a change. *)
Authenticate(t) ==
  /\ authenticated' = [authenticated EXCEPT ![t] = TRUE]
  /\ due' = [due EXCEPT ![t] = @ \/ ~authenticated[t]]

(* Without a code in the address the stored token decides. *)
Restore(t) ==
  /\ page[t] = "mounting" /\ url[t] = Nobody
  /\ page' = [page EXCEPT ![t] = "shown"]
  /\ \/ stored # Nobody /\ Authenticate(t)
     \/ stored = Nobody /\ UNCHANGED <<authenticated, due>>
  /\ UNCHANGED <<server, stored, cookie, url, asking, loading, screen, load, written>>

(* The code leaves the address before it is exchanged. *)
Exchange(t) ==
  /\ page[t] = "mounting" /\ url[t] # Nobody
  /\ page' = [page EXCEPT ![t] = "shown"] /\ url' = [url EXCEPT ![t] = Nobody]
  /\ \E c \in CallsOf("exchange") :
       /\ input[c].code = url[t] /\ Begin(c)
       /\ asking' = [asking EXCEPT ![t] = @ \cup {c}]
  /\ UNCHANGED <<stored, cookie, authenticated, loading, due, screen, load, written>>

(* The login form is shown while nobody is authenticated; one submission at a time. *)
SubmitLogin(t) ==
  /\ page[t] = "shown" /\ ~authenticated[t] /\ asking[t] \subseteq CallsOf("exchange")
  /\ \E c \in CallsOf("login") \cup CallsOf("register") :
       Begin(c) /\ asking' = [asking EXCEPT ![t] = @ \cup {c}]
  /\ UNCHANGED <<stored, cookie, page, url, authenticated, loading, due, screen, load, written>>

(* The answer to the form or to the exchange: its token replaces the stored one. *)
TakeAnswer(t) ==
  /\ \E c \in asking[t] :
       /\ pc[c] \in Ended /\ asking' = [asking EXCEPT ![t] = @ \ {c}]
       /\ \/ tokens[c] # Nobody /\ stored' = c /\ Authenticate(t)
          \/ tokens[c] = Nobody /\ UNCHANGED <<stored, authenticated, due>>
  /\ UNCHANGED <<server, cookie, page, url, loading, screen, load, written>>

(* The browser leaves for Google, and what the page had begun is given up. *)
LeaveForGoogle(t) ==
  /\ page[t] = "shown" /\ ~authenticated[t]
  /\ \E c \in CallsOf("callback") :
       /\ pc[c] = "idle" /\ \A s \in Tabs : url[s] # c
       /\ cookie' = c /\ url' = [url EXCEPT ![t] = c]
  /\ page' = [page EXCEPT ![t] = "google"] /\ asking' = [asking EXCEPT ![t] = {}]
  /\ load' = [l \in Loads |-> IF load[l].tab = t THEN NoLoad ELSE load[l]]
  /\ UNCHANGED <<server, stored, authenticated, loading, due, screen, written>>

(* The state must be that of the cookie, which the latest sign-in has set. *)
Callback(t) ==
  /\ page[t] = "google" /\ cookie = url[t] /\ Begin(url[t])
  /\ UNCHANGED <<stored, cookie, tab, load, written>>

(* The redirect deletes the cookie, whichever it is by now. *)
Return(t) ==
  /\ page[t] = "google" /\ pc[url[t]] = "answered" /\ cookie' = Nobody
  /\ page' = [page EXCEPT ![t] = "mounting"]
  /\ screen' = [screen EXCEPT ![t] = Blank] /\ loading' = [loading EXCEPT ![t] = TRUE]
  /\ UNCHANGED <<server, stored, url, asking, authenticated, due, load, written>>

(* An error of the callback, or a change of mind: the user opens the page again. *)
GiveUp(t) ==
  /\ page[t] = "google" /\ pc[url[t]] # "answered"
  /\ page' = [page EXCEPT ![t] = "mounting"] /\ url' = [url EXCEPT ![t] = Nobody]
  /\ screen' = [screen EXCEPT ![t] = Blank] /\ loading' = [loading EXCEPT ![t] = TRUE]
  /\ UNCHANGED <<server, stored, cookie, asking, authenticated, due, load, written>>

-----------------------------------------------------------------------------
Send(t, phase, of, n) ==
  [tab |-> t, phase |-> phase, token |-> stored, of |-> of, waiting |-> n, failed |-> FALSE, mounted |-> TRUE]

(* What the server says to a request that carries a token: 403 for none, 401   *)
(* for an expired one.                                                         *)
Forbidden(l)    == load[l].token = Nobody
Unauthorized(l) == load[l].token \in expired
Accepted(l)     == ~Forbidden(l) /\ ~Unauthorized(l)

(* loadDashboard sends its seven requests at once, with one token. *)
BeginLoad(l, t) ==
  /\ load' = [load EXCEPT ![l] = Send(t, "lists", Nobody, Requests)]
  /\ loading' = [loading EXCEPT ![t] = TRUE]

(* The timer fires, or the user tries again. *)
LoadDashboard(l, t) ==
  /\ authenticated[t] /\ IsFree(l) /\ BeginLoad(l, t)
  /\ due' = [due EXCEPT ![t] = FALSE]
  /\ UNCHANGED <<server, stored, cookie, page, url, asking, authenticated, screen, written>>

(* A closing or an execution for a vehicle the screen shows. *)
Submit(l, t) ==
  /\ authenticated[t] /\ ~due[t] /\ IsFree(l)
  /\ \E v \in screen[t].fleet : load' = [load EXCEPT ![l] = Send(t, "submit", v, 1)]
  /\ UNCHANGED <<server, stored, cookie, tab, written>>

(* Mutant: what somebody else left on the screen stays there. *)
AsItWas(s) == [s EXCEPT !.session = Nobody]

(* signOut keeps the financial figures, the totals and the catalogue. *)
SignedOut(s) == [s EXCEPT !.session = Nobody, !.fleet = {}]

(* signOut, by the button or by a 401: whose token it removes does not matter. *)
SignOut(t) ==
  /\ stored' = Nobody
  /\ authenticated' = [authenticated EXCEPT ![t] = FALSE] /\ due' = [due EXCEPT ![t] = FALSE]
  /\ screen' = [screen EXCEPT ![t] = SignedOut(@)]

PressSignOut(t) ==
  /\ authenticated[t] /\ SignOut(t)
  /\ UNCHANGED <<server, cookie, page, url, asking, loading, load, written>>

(* Mutant: the vehicle is looked up by its identity alone. *)
FindsAny(l, v) == TRUE

(* Vehicles of other organisations are not found: 404. *)
Finds(l, v) == Owner[v] = OrganizationOfToken(load[l].token)

(* Whether an accepted request finds its rows. *)
Found(l) ==
  CASE load[l].phase = "submit" -> Finds(l, load[l].of)
    [] load[l].phase = "financials" -> \A v \in FleetOf(load[l].of) : Finds(l, v)
    [] OTHER -> TRUE

(* An answer to one of the requests; a 401 signs the tab out whatever became of *)
(* the load.                                                                    *)
Answer(l) ==
  /\ load[l].phase # "submit" /\ load[l].waiting > 0
  /\ \/ /\ load[l].phase = "ended" /\ load[l].waiting = 1
        /\ load' = [load EXCEPT ![l] = NoLoad]
     \/ /\ load[l].phase # "ended" \/ load[l].waiting > 1
        /\ load' = [load EXCEPT ![l].waiting = @ - 1, ![l].failed = @ \/ ~(Accepted(l) /\ Found(l))]
  /\ \/ Unauthorized(l) /\ SignOut(load[l].tab)
     \/ ~Unauthorized(l) /\ UNCHANGED <<stored, authenticated, due, screen>>
  /\ UNCHANGED <<server, cookie, page, url, asking, loading, written>>

(* Mutant: a failed load says nothing. *)
StillLoading(l) == loading

(* finally: setLoading(FALSE), for a component that is still there. *)
NoLongerLoading(l) ==
  IF load[l].mounted THEN [loading EXCEPT ![load[l].tab] = FALSE] ELSE loading

(* The load is over, and n of its requests are still under way. *)
EndLoad(l, n) ==
  /\ load' = [load EXCEPT ![l] =
       IF n = 0 THEN NoLoad ELSE [@ EXCEPT !.phase = "ended", !.waiting = n]]
  /\ loading' = NoLongerLoading(l)

(* The load fails: by a connection or a refused summary at once, by a refused  *)
(* list after all lists have been answered.                                    *)
FailLoad(l) ==
  /\ load[l].phase \in {"lists", "financials"}
  /\ \/ load[l].waiting > 0 /\ EndLoad(l, load[l].waiting - 1)
     \/ /\ load[l].failed /\ (load[l].phase = "financials" \/ load[l].waiting = 0)
        /\ EndLoad(l, load[l].waiting)
  /\ UNCHANGED <<server, stored, cookie, page, url, asking, authenticated, due, screen, written>>

(* All lists are there: one request for each vehicle, with the token of now. *)
AskFinancials(l) ==
  /\ load[l].phase = "lists" /\ load[l].waiting = 0 /\ ~load[l].failed
  /\ LET o == OrganizationOfToken(load[l].token) IN
       load' = [load EXCEPT ![l] = [Send(load[l].tab, "financials", o, Cardinality(FleetOf(o)))
                                      EXCEPT !.mounted = load[l].mounted]]
  /\ UNCHANGED <<server, stored, cookie, tab, written>>

(* Everything is shown at once, whoever is signed in by now. *)
Shown(l) ==
  [session |-> load[l].of, fleet |-> FleetOf(load[l].of),
   financials |-> IF FleetOf(load[l].of) = {} THEN Nobody ELSE OrganizationOfToken(load[l].token)]

ShowDashboard(l) ==
  /\ load[l].phase = "financials" /\ load[l].waiting = 0 /\ ~load[l].failed
  /\ EndLoad(l, 0)
  /\ \/ load[l].mounted /\ screen' = [screen EXCEPT ![load[l].tab] = Shown(l)]
     \/ ~load[l].mounted /\ UNCHANGED screen
  /\ UNCHANGED <<server, stored, cookie, page, url, asking, authenticated, due, written>>

(* The server writes; the tab then loads again, signed in or not.  A connection *)
(* may fail before or after the write: then nothing more happens in the tab.    *)
AnswerSubmit(l) ==
  LET ok == Accepted(l) /\ Found(l)
      row == <<load[l].of, OrganizationOfToken(load[l].token)>>
  IN
    /\ load[l].phase = "submit"
    /\ \/ /\ ok /\ written' = written \cup {row}
          /\ load' = [load EXCEPT ![l] = [Send(load[l].tab, "lists", Nobody, Requests)
                                            EXCEPT !.mounted = load[l].mounted]]
          /\ loading' = [loading EXCEPT ![load[l].tab] = @ \/ load[l].mounted]
          /\ UNCHANGED <<stored, authenticated, due, screen>>
       \/ /\ ~ok /\ load' = [load EXCEPT ![l] = NoLoad] /\ UNCHANGED <<loading, written>>
          /\ \/ Unauthorized(l) /\ SignOut(load[l].tab)
             \/ ~Unauthorized(l) /\ UNCHANGED <<stored, authenticated, due, screen>>
       \/ /\ load' = [load EXCEPT ![l] = NoLoad]
          /\ written' = IF ok THEN written \cup {row} ELSE written
          /\ UNCHANGED <<stored, authenticated, due, loading, screen>>
       \/ load' = [load EXCEPT ![l] = NoLoad]
          /\ UNCHANGED <<stored, authenticated, due, loading, screen, written>>
    /\ UNCHANGED <<server, cookie, page, url, asking>>

-----------------------------------------------------------------------------
(* Calls of other devices begin on their own; a login there changes nothing, and *)
(* the sign-in a tab has left for is that tab's.                                 *)
Elsewhere(c) == input[c].kind # "login" /\ (\A t \in Tabs : url[t] # c) /\ Begin(c)

Server == /\ Environment \/ \E c \in Calls : Elsewhere(c) \/ Step(c)
          /\ UNCHANGED <<stored, cookie, tab, load, written>>

Visit(t) ==
  \/ Navigate(t) \/ Restore(t) \/ Exchange(t) \/ SubmitLogin(t) \/ TakeAnswer(t)
  \/ LeaveForGoogle(t) \/ Callback(t) \/ Return(t) \/ GiveUp(t) \/ PressSignOut(t)

Proceed(l) ==
  Answer(l) \/ FailLoad(l) \/ AskFinancials(l) \/ ShowDashboard(l) \/ AnswerSubmit(l)

DashboardNext ==
  \/ Server
  \/ \E t \in Tabs : Visit(t)
  \/ \E l \in Loads, t \in Tabs : LoadDashboard(l, t) \/ Submit(l, t)
  \/ \E l \in Loads : Proceed(l)

DashboardSpec == DashboardInit /\ [][DashboardNext]_vars

-----------------------------------------------------------------------------
(* What a tab shows comes from one organisation, whatever tokens came and went *)
(* between the lists and the financial summaries, and nothing of a fleet stays *)
(* when the tab has been signed out.                                           *)
ScreenIsOfOneOrganization ==
  \A t \in Tabs :
    LET s == screen[t] IN
      /\ s.session = Nobody => s.fleet = {}
      /\ s.session # Nobody => /\ s.fleet = FleetOf(s.session)
                               /\ s.financials \in {s.session, Nobody}

(* What is submitted for a vehicle on the screen is written for the            *)
(* organisation of the vehicle or not at all, also when another user has       *)
(* signed in, in this tab or another, since the vehicle was shown.             *)
WritesStayAtHome == \A row \in written : Owner[row[1]] = row[2]

(* The application never waits for nothing: a tab that says it is loading has  *)
(* a timer or a load of its present component under way.                       *)
LoadingHasACause ==
  \A t \in Tabs :
    authenticated[t] /\ loading[t] =>
      due[t] \/ \E l \in Loads : load[l].tab = t /\ load[l].mounted /\ load[l].phase \in {"lists", "financials"}
=============================================================================
