------------------------------ MODULE Sessions ------------------------------
(***************************************************************************)
(* Accounts and the tokens of their sessions: registration, new users, the *)
(* first administrator, the callback of Google and the exchange of its     *)
(* code.  Every call is a request (or a start of the server) that runs its *)
(* statements at READ COMMITTED beside the others.                         *)
(***************************************************************************)
EXTENDS Naturals, FiniteSets

CONSTANTS
  Calls,
  Emails, Subjects,  \* what Google vouches for; an address may change hands
  Initial,           \* the organisation the first migration inserts
  Nobody,
  CodeLife,          \* two minutes
  Retention,         \* one day
  MaxNow,            \* bound on the clock
  Scenarios          \* which calls are made: functions from Calls to Input

(* Organisations and accounts are named by the calls that insert them. *)
Organization == Calls \cup {Initial}

Input ==
       [kind : {"account"}, email : Emails, organization : Organization] \* exists already
  \cup [kind : {"register", "bootstrap"}, email : Emails]
  \cup [kind : {"user"}, email : Emails, organization : Organization]
  \cup [kind : {"login"}, account : Calls]
  \cup [kind : {"callback"}, email : Emails, subject : Subjects]
  \cup [kind : {"exchange"}, code : Calls]

ASSUME NamesAssumption == Nobody \notin Organization \cup Subjects /\ Initial \notin Calls
ASSUME TimesAssumption == CodeLife \in Nat \ {0} /\ Retention \in Nat /\ MaxNow \in Nat
ASSUME ScenariosAssumption == Scenarios \subseteq [Calls -> Input]

(* uq_users_email held before the calls of a behaviour, too. *)
ASSUME AccountsAssumption ==
  \A s \in Scenarios : \A c, d \in Calls :
    s[c].kind = "account" /\ s[d].kind = "account" /\ s[c].email = s[d].email => c = d

VARIABLES
  input,
  users,          \* committed accounts
  organizations,  \* committed organisations
  linked,         \* google_subject of each account
  codes,          \* committed rows of oauth_exchange_codes, named by their callbacks
  holder,         \* who has locked each code
  pc, clock,      \* where each call is and the time it has read
  found,          \* the account or organisation a call has selected
  tokens,         \* the account the token issued by a call names
  expired,        \* calls whose token is past its hour
  now

identity == <<users, organizations, linked>>
server == <<input, users, organizations, linked, codes, holder, pc, clock, found, tokens, expired, now>>

User == [id : Calls, email : Emails, organization : Organization]
OAuthExchangeCode == [id : Calls, account : Calls, expires : Nat, used : BOOLEAN]

Ended == {"answered", "refused"}
Open  == {"begun", "select", "insert", "commit", "link", "lock", "use"}

CallsOf(kind) == {c \in Calls : input[c].kind = kind}

(* Accounts and organisations refer to each other: every organisation but the  *)
(* first has the account it was registered with, and addresses are unique.     *)
AccountsAreWhole ==
  /\ \A u \in users : u.organization \in organizations
  /\ \A o \in organizations \ {Initial} : \E u \in users : u.organization = o
  /\ \A u, w \in users : u.email = w.email => u = w

(* The type of every variable, and the references between the tables. *)
TypeOK ==
  /\ input \in Scenarios
  /\ users \subseteq User /\ organizations \subseteq Organization
  /\ linked \in [Calls -> Subjects \cup {Nobody}]
  /\ codes \subseteq OAuthExchangeCode
  /\ holder \in [Calls -> Calls \cup {Nobody}]
  /\ pc \in [Calls -> {"idle"} \cup Open \cup Ended]
  /\ clock \in [Calls -> 0..MaxNow] /\ now \in 0..MaxNow
  /\ found \in [Calls -> Organization \cup {Nobody}]
  /\ tokens \in [Calls -> Calls \cup {Nobody}]
  /\ expired \subseteq {c \in Calls : tokens[c] # Nobody}
  /\ \A c \in Calls : holder[c] # Nobody => pc[holder[c]] = "use" /\ input[holder[c]].code = c
  /\ AccountsAreWhole

Account(c) == [id |-> c, email |-> input[c].email, organization |-> input[c].organization]

Init ==
  /\ input \in Scenarios
  /\ users = {Account(c) : c \in CallsOf("account")}
  /\ organizations = {Initial} \cup {u.organization : u \in users}
  /\ linked = [c \in Calls |-> Nobody]
  /\ codes = {}
  /\ holder = [c \in Calls |-> Nobody]
  /\ pc = [c \in Calls |-> IF input[c].kind = "account" THEN "answered" ELSE "idle"]
  /\ clock = [c \in Calls |-> 0] /\ now = 0
  /\ found = [c \in Calls |-> Nobody]
  /\ tokens = [c \in Calls |-> Nobody]
  /\ expired = {}

-----------------------------------------------------------------------------
(* Operators whose comment begins with "Mutant" are wrong on purpose: putting *)
(* one in the place of the definition that follows it must break a property.  *)

Goto(c, phase) == pc' = [pc EXCEPT ![c] = phase]

(* A request arrives, or a server starts.  An administrator adds users. *)
Begin(c) ==
  /\ pc[c] = "idle" /\ Goto(c, "begun")
  /\ input[c].kind = "user" => input[c].organization \in organizations
  /\ UNCHANGED <<input, users, organizations, linked, codes, holder, clock, found, tokens, expired, now>>

(* create_access_token: sub and organization_id come from the row; neither, nor *)
(* the role, nor active ever changes, so get_current_user only checks the hour. *)
IssueToken(c, account) == tokens' = [tokens EXCEPT ![c] = account]

(* The password is right and the throttle lets it through. *)
Login(c) ==
  /\ pc[c] = "begun" /\ input[c].kind = "login"
  /\ \E u \in users : u.id = input[c].account
  /\ IssueToken(c, input[c].account) /\ Goto(c, "answered")
  /\ UNCHANGED <<input, users, organizations, linked, codes, holder, clock, found, expired, now>>

(* bootstrap_admin does nothing once there is a user. *)
CheckBootstrap(c) ==
  /\ pc[c] = "begun" /\ input[c].kind = "bootstrap"
  /\ Goto(c, IF users = {} THEN "select" ELSE "answered")
  /\ UNCHANGED <<input, users, organizations, linked, codes, holder, clock, found, tokens, expired, now>>

(* Any organisation will do, also one that was registered in between. *)
SelectOrganization(c) ==
  /\ pc[c] = "select" /\ Goto(c, "insert")
  /\ \E o \in organizations : found' = [found EXCEPT ![c] = o]
  /\ UNCHANGED <<input, users, organizations, linked, codes, holder, clock, tokens, expired, now>>

(* The organisation the account of c belongs to. *)
OrganizationOf(c) ==
  CASE input[c].kind = "register"  -> c
    [] input[c].kind = "user"      -> input[c].organization
    [] input[c].kind = "bootstrap" -> found[c]

Inserting(c) == \/ pc[c] = "insert"
                \/ pc[c] = "begun" /\ input[c].kind \in {"register", "user"}

EmailIsPending(e) == \E d \in Calls : pc[d] = "commit" /\ input[d].email = e

(* Mutant: addresses are unique within an organisation only. *)
IsTakenInside(c) == \E u \in users : u.email = input[c].email /\ u.organization = OrganizationOf(c)

(* uq_users_email *)
EmailIsTaken(c) == \E u \in users : u.email = input[c].email

(* The flush of the account, after that of the organisation. *)
InsertUser(c) ==
  /\ Inserting(c) /\ ~EmailIsPending(input[c].email)
  /\ Goto(c, IF EmailIsTaken(c) THEN "refused" ELSE "commit")
  /\ UNCHANGED <<input, users, organizations, linked, codes, holder, clock, found, tokens, expired, now>>

CommitUser(c) ==
  /\ pc[c] = "commit" /\ Goto(c, "answered")
  /\ users' = users \cup
       {[id |-> c, email |-> input[c].email, organization |-> OrganizationOf(c)]}
  /\ organizations' = organizations \cup {OrganizationOf(c)}
  /\ \/ input[c].kind = "register" /\ IssueToken(c, c)
     \/ input[c].kind # "register" /\ UNCHANGED tokens
  /\ UNCHANGED <<input, linked, codes, holder, clock, found, expired, now>>

(* Mutant: the callback runs in a thread, like the other handlers. *)
AnyThread(c) == TRUE

(* The callback is a coroutine that does not await anything between its SELECT *)
(* and its commit: the event loop of the one process runs no other meanwhile.  *)
EventLoopIsFree(c) == \A d \in Calls : pc[d] # "link"

(* The account of the address, unless it is linked to somebody else. *)
Authorized(c) ==
  {u \in users : u.email = input[c].email /\ linked[u.id] \in {Nobody, input[c].subject}}

SelectAccount(c) ==
  /\ pc[c] = "begun" /\ input[c].kind = "callback" /\ EventLoopIsFree(c)
  /\ \/ /\ \E u \in Authorized(c) : found' = [found EXCEPT ![c] = u.id]
        /\ Goto(c, "link")
     \/ Authorized(c) = {} /\ Goto(c, "refused") /\ UNCHANGED found
  /\ UNCHANGED <<input, users, organizations, linked, codes, holder, clock, tokens, expired, now>>

(* The UPDATE fails when another account has the subject. *)
SubjectIsTaken(c) == \E u \in users : u.id # found[c] /\ linked[u.id] = input[c].subject

LinkAccount(c) ==
  /\ pc[c] = "link"
  /\ \/ /\ ~SubjectIsTaken(c) /\ Goto(c, "answered")
        /\ linked' = [linked EXCEPT ![found[c]] = input[c].subject]
        /\ codes' = codes \cup
             {[id |-> c, account |-> found[c], expires |-> now + CodeLife, used |-> FALSE]}
     \/ SubjectIsTaken(c) /\ Goto(c, "refused") /\ UNCHANGED <<linked, codes>>
  /\ UNCHANGED <<input, users, organizations, holder, clock, found, tokens, expired, now>>

Stale == {k \in codes : k.expires + Retention < now}

(* The clock is read once; the clean-up waits for the rows it deletes. *)
StartExchange(c) ==
  /\ pc[c] = "begun" /\ input[c].kind = "exchange"
  /\ \A k \in Stale : holder[k.id] = Nobody
  /\ clock' = [clock EXCEPT ![c] = now] /\ codes' = codes \ Stale
  /\ Goto(c, "lock")
  /\ UNCHANGED <<input, users, organizations, linked, holder, found, tokens, expired, now>>

Unused(c) == {k \in codes : k.id = input[c].code /\ ~k.used}

(* Mutant: the SELECT does not lock. *)
CodeIsRead(k) == TRUE

(* FOR UPDATE waits, and looks at used_at again afterwards. *)
CodeIsFree(k) == holder[k.id] = Nobody

LockCode(c) ==
  /\ pc[c] = "lock"
  /\ \/ \E k \in Unused(c) :
          /\ CodeIsFree(k)
          /\ \/ k.expires > clock[c] /\ Goto(c, "use") /\ holder' = [holder EXCEPT ![k.id] = c]
             \/ k.expires <= clock[c] /\ Goto(c, "refused") /\ UNCHANGED holder
     \/ Unused(c) = {} /\ Goto(c, "refused") /\ UNCHANGED holder
  /\ UNCHANGED <<input, users, organizations, linked, codes, clock, found, tokens, expired, now>>

Release(c) == holder' = [k \in Calls |-> IF holder[k] = c THEN Nobody ELSE holder[k]]

UseCode(c) ==
  /\ pc[c] = "use" /\ Goto(c, "answered") /\ Release(c)
  /\ \E k \in codes : k.id = input[c].code /\ IssueToken(c, k.account)
  /\ codes' = {[k EXCEPT !.used = @ \/ k.id = input[c].code] : k \in codes}
  /\ UNCHANGED <<input, users, organizations, linked, clock, found, expired, now>>

(* The server dies or the connection is lost: everything is rolled back.  A    *)
(* call that has done nothing yet has nothing to lose.                         *)
Crash(c) ==
  /\ pc[c] \in Open \ {"begun"} /\ Goto(c, "refused") /\ Release(c)
  /\ UNCHANGED <<input, users, organizations, linked, codes, clock, found, tokens, expired, now>>

Expire(c) ==
  /\ tokens[c] # Nobody /\ c \notin expired /\ expired' = expired \cup {c}
  /\ UNCHANGED <<input, users, organizations, linked, codes, holder, pc, clock, found, tokens, now>>

(* Only codes care about the time. *)
Tick ==
  /\ codes # {} /\ now < MaxNow /\ now' = now + 1
  /\ UNCHANGED <<input, users, organizations, linked, codes, holder, pc, clock, found, tokens, expired>>

Step(c) ==
  \/ Login(c) \/ CheckBootstrap(c) \/ SelectOrganization(c) \/ InsertUser(c) \/ CommitUser(c)
  \/ SelectAccount(c) \/ LinkAccount(c) \/ StartExchange(c) \/ LockCode(c) \/ UseCode(c)

Environment == Tick \/ \E c \in Calls : Crash(c) \/ Expire(c)

Next == Environment \/ \E c \in Calls : Begin(c) \/ Step(c)

Spec == Init /\ [][Next]_server

-----------------------------------------------------------------------------
(* A code yields one token at most, however many exchanges present it, and the *)
(* token names an account linked to the subject the callback was about.        *)
CodeIssuesOneToken ==
  \A c, d \in CallsOf("exchange") :
    tokens[c] # Nobody =>
      /\ linked[tokens[c]] = input[input[c].code].subject
      /\ c # d /\ input[c].code = input[d].code => tokens[d] = Nobody

(* An account that is linked stays linked to the same subject, although the    *)
(* callback overwrites the column without a lock.                              *)
LinksAreFinal == [][\A c \in Calls : linked[c] # Nobody => linked'[c] = linked[c]]_server
=============================================================================
