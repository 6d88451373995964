-------------------------- MODULE DashboardProofs --------------------------
(***************************************************************************)
(* Proofs about Sessions and, on top of them, about Dashboard: for any     *)
(* calls, addresses, scenarios, tabs, loads, vehicles and times.           *)
(***************************************************************************)
EXTENDS Dashboard, FiniteSetTheorems, TLAPS

(* What a call is doing fits what it was asked to do. *)
PhasesFitKinds ==
  \A c \in Calls :
    /\ input[c].kind = "account" => pc[c] = "answered"
    /\ pc[c] \in {"select", "insert"} => input[c].kind = "bootstrap"
    /\ pc[c] = "commit" => input[c].kind \in {"register", "user", "bootstrap"}
    /\ pc[c] = "link" => input[c].kind = "callback"
    /\ pc[c] \in {"lock", "use"} => input[c].kind = "exchange"

(* Accounts come from calls that have ended, and an organisation that a call   *)
(* is going to add an account to is there.                                     *)
AccountsHaveCalls ==
  /\ \A u \in users : /\ pc[u.id] = "answered" /\ u.email = input[u.id].email
                      /\ input[u.id].kind \in {"account", "register", "user", "bootstrap"}
  /\ \A c \in Calls :
       /\ input[c].kind = "user" /\ pc[c] # "idle" => input[c].organization \in organizations
       /\ pc[c] = "insert" => found[c] \in organizations
       /\ pc[c] = "commit" /\ input[c].kind = "bootstrap" => found[c] \in organizations

(* An address that is being committed is reserved for the call. *)
AddressIsReserved ==
  \A c \in Calls : pc[c] = "commit" =>
    /\ \A u \in users : u.email # input[c].email
    /\ \A d \in Calls : pc[d] = "commit" /\ input[d].email = input[c].email => d = c

AccountsInv == TypeOK /\ PhasesFitKinds /\ AccountsHaveCalls /\ AddressIsReserved

(* One callback at a time is between its SELECT and its commit, and what it    *)
(* has read of the link is still so.                                           *)
LinkReadIsCurrent ==
  \A c \in Calls : pc[c] = "link" =>
    /\ \E u \in users : u.id = found[c]
    /\ linked[found[c]] \in {Nobody, input[c].subject}
    /\ \A d \in Calls : pc[d] = "link" => d = c

(* A code is that of one callback and names the account this has linked. *)
CodesFollowLinks ==
  \A k \in codes :
    /\ input[k.id].kind = "callback" /\ pc[k.id] = "answered"
    /\ \E u \in users : u.id = k.account
    /\ linked[k.account] = input[k.id].subject
    /\ \A m \in codes : m.id = k.id => m = k

LinkInv == AccountsInv /\ LinkReadIsCurrent /\ CodesFollowLinks

(* An exchange past the lock owns an unused code. *)
UsersHoldTheirCode ==
  \A c \in Calls : pc[c] = "use" =>
    /\ holder[input[c].code] = c
    /\ \E k \in codes : k.id = input[c].code /\ ~k.used

(* A token names an account; one that a code was exchanged for names the       *)
(* account of the link, and the code is used up and will not come back.        *)
TokensHaveSources ==
  \A c \in Calls : tokens[c] # Nobody =>
    /\ pc[c] = "answered"
    /\ \E u \in users : u.id = tokens[c]
    /\ input[c].kind = "exchange" =>
         /\ input[input[c].code].kind = "callback" /\ pc[input[c].code] = "answered"
         /\ linked[tokens[c]] = input[input[c].code].subject
         /\ \A k \in codes : k.id = input[c].code => k.used

SessionsInv == LinkInv /\ UsersHoldTheirCode /\ TokensHaveSources /\ CodeIssuesOneToken

-----------------------------------------------------------------------------
(* What the fields of an input are. *)
LEMMA InputFields ==
  ASSUME TypeOK, NEW c \in Calls
  PROVE  /\ input[c].kind \in {"account", "register", "bootstrap", "user", "login", "callback", "exchange"}
         /\ input[c].kind \in {"account", "register", "bootstrap", "user", "callback"} => input[c].email \in Emails
         /\ input[c].kind \in {"account", "user"} => input[c].organization \in Organization
         /\ input[c].kind = "login" => input[c].account \in Calls
         /\ input[c].kind = "callback" => input[c].subject \in Subjects
         /\ input[c].kind = "exchange" => input[c].code \in Calls
<1>1. input[c] \in Input
  BY ScenariosAssumption DEF TypeOK
<1>2. QED
  BY <1>1 DEF Input

(* What a move of one call does to the phases. *)
LEMMA Moves ==
  ASSUME TypeOK, NEW c \in Calls, NEW phase \in {"idle"} \cup Open \cup Ended, Goto(c, phase)
  PROVE  /\ pc' \in [Calls -> {"idle"} \cup Open \cup Ended]
         /\ pc'[c] = phase /\ \A d \in Calls \ {c} : pc'[d] = pc[d]
BY DEF TypeOK, Goto

(* No step changes the inputs, or the phase of a call that is not its own. *)
LEMMA InputsStay ==
  ASSUME [Next]_server
  PROVE  input' = input
BY DEF Next, Environment, Tick, Expire, Crash, Begin, Step, Login, CheckBootstrap, SelectOrganization,
   InsertUser, CommitUser, SelectAccount, LinkAccount, StartExchange, LockCode, UseCode, server

(* A call moves only when it begins, crashes or takes its own step. *)
LEMMA OneCallMoves ==
  ASSUME TypeOK, [Next]_server, NEW c \in Calls, pc'[c] # pc[c]
  PROVE  Begin(c) \/ Crash(c) \/ Step(c)
<1>1. ASSUME NEW d \in Calls, Begin(d) \/ Crash(d)
      PROVE  d = c
  BY <1>1 DEF TypeOK, Begin, Crash, Goto
<1>2. ASSUME NEW d \in Calls, Step(d)
      PROVE  d = c
  BY <1>2 DEF TypeOK, Step, Login, CheckBootstrap, SelectOrganization, InsertUser, CommitUser,
     SelectAccount, LinkAccount, StartExchange, LockCode, UseCode, Goto
<1>3. CASE Tick \/ UNCHANGED server \/ \E d \in Calls : Expire(d)
  BY <1>3 DEF Tick, Expire, server
<1>4. CASE \E d \in Calls : Begin(d) \/ Crash(d) \/ Step(d)
  BY <1>1, <1>2, <1>4
<1>5. QED
  BY <1>3, <1>4 DEF Next, Environment

(* What a step may do to the phase of a call. *)
LEMMA Phases ==
  ASSUME TypeOK, [Next]_server, NEW c \in Calls, pc'[c] # pc[c]
  PROVE  \/ pc[c] = "idle" /\ pc'[c] = "begun" /\ Begin(c)
         \/ pc[c] \in Open /\ pc'[c] \in Ended
         \/ pc[c] = "begun" /\ pc'[c] = "select" /\ CheckBootstrap(c)
         \/ pc[c] = "select" /\ pc'[c] = "insert" /\ SelectOrganization(c)
         \/ pc'[c] = "commit" /\ InsertUser(c) /\ ~EmailIsTaken(c)
         \/ pc[c] = "begun" /\ pc'[c] = "link" /\ SelectAccount(c)
         \/ pc[c] = "begun" /\ pc'[c] = "lock" /\ StartExchange(c)
         \/ pc[c] = "lock" /\ pc'[c] = "use" /\ LockCode(c)
<1>1. CASE Begin(c) \/ Crash(c)
  BY <1>1 DEF TypeOK, Begin, Crash, Goto, Open, Ended
<1>2. CASE Step(c)
  BY <1>2 DEF TypeOK, Step, Login, CheckBootstrap, SelectOrganization, InsertUser, Inserting, CommitUser,
     SelectAccount, LinkAccount, StartExchange, LockCode, UseCode, Goto, Open, Ended
<1>3. QED
  BY <1>1, <1>2, OneCallMoves

(* The account that a call commits is well formed, and its organisation is the *)
(* one the call registers or one that is there.                                *)
LEMMA OrganizationFits ==
  ASSUME AccountsInv, NEW c \in Calls, pc[c] = "commit"
  PROVE  /\ OrganizationOf(c) \in Organization /\ input[c].email \in Emails
         /\ OrganizationOf(c) \in organizations \/ (input[c].kind = "register" /\ OrganizationOf(c) = c)
<1>1. input[c].kind \in {"register", "user", "bootstrap"}
  BY DEF AccountsInv, PhasesFitKinds
<1>2. input[c].email \in Emails
  BY <1>1, InputFields DEF AccountsInv
<1>3. CASE input[c].kind = "register"
  BY <1>2, <1>3 DEF OrganizationOf, Organization
<1>4. CASE input[c].kind = "user"
  <2>1. OrganizationOf(c) = input[c].organization
    BY <1>4 DEF OrganizationOf
  <2>2. QED
    BY <1>2, <1>4, <2>1 DEF AccountsInv, AccountsHaveCalls, TypeOK
<1>5. CASE input[c].kind = "bootstrap"
  <2>1. OrganizationOf(c) = found[c]
    BY <1>5 DEF OrganizationOf
  <2>2. QED
    BY <1>2, <1>5, <2>1 DEF AccountsInv, AccountsHaveCalls, TypeOK
<1>6. QED
  BY <1>1, <1>3, <1>4, <1>5

(* One address, one account; one account, one call. *)
LEMMA AccountsAreDistinct ==
  ASSUME AccountsInv, NEW u \in users, NEW w \in users, u.id = w.id
  PROVE  u = w
BY DEF AccountsInv, AccountsHaveCalls, TypeOK, AccountsAreWhole

(* Accounts and organisations are only ever added, by a call that commits.      *)
LEMMA AccountsGrow ==
  ASSUME AccountsInv, [Next]_server
  PROVE  \/ UNCHANGED <<users, organizations>>
         \/ \E c \in Calls :
              /\ pc[c] = "commit" /\ pc' = [pc EXCEPT ![c] = "answered"]
              /\ users' = users \cup
                   {[id |-> c, email |-> input[c].email, organization |-> OrganizationOf(c)]}
              /\ organizations' = organizations \cup {OrganizationOf(c)}
<1>1. ASSUME NEW c \in Calls, Step(c), ~CommitUser(c)
      PROVE  UNCHANGED <<users, organizations>>
  BY <1>1 DEF Step, Login, CheckBootstrap, SelectOrganization, InsertUser,
     SelectAccount, LinkAccount, StartExchange, LockCode, UseCode
<1>2. ASSUME NEW c \in Calls, CommitUser(c)
      PROVE  /\ pc[c] = "commit" /\ pc' = [pc EXCEPT ![c] = "answered"]
             /\ users' = users \cup
                  {[id |-> c, email |-> input[c].email, organization |-> OrganizationOf(c)]}
             /\ organizations' = organizations \cup {OrganizationOf(c)}
  BY <1>2 DEF CommitUser, Goto
<1>3. ASSUME NEW c \in Calls, Begin(c) \/ Crash(c) \/ Expire(c)
      PROVE  UNCHANGED <<users, organizations>>
  BY <1>3 DEF Begin, Crash, Expire
<1>4. CASE Tick \/ UNCHANGED server
  BY <1>4 DEF Tick, server
<1>5. QED
  BY <1>1, <1>2, <1>3, <1>4 DEF Next, Environment

(* What a call is doing goes on fitting what it was asked to do. *)
LEMMA PhasesFit ==
  ASSUME AccountsInv, [Next]_server
  PROVE  PhasesFitKinds'
<1> SUFFICES ASSUME NEW c \in Calls
             PROVE  /\ input[c].kind = "account" => pc'[c] = "answered"
                    /\ pc'[c] \in {"select", "insert"} => input[c].kind = "bootstrap"
                    /\ pc'[c] = "commit" => input[c].kind \in {"register", "user", "bootstrap"}
                    /\ pc'[c] = "link" => input[c].kind = "callback"
                    /\ pc'[c] \in {"lock", "use"} => input[c].kind = "exchange"
  BY InputsStay DEF PhasesFitKinds
<1> USE DEF AccountsInv, PhasesFitKinds
<1>1. CASE pc'[c] = pc[c]
  BY <1>1
<1>2. CASE pc'[c] # pc[c]
  BY <1>2, Phases DEF Open, Ended, CheckBootstrap, SelectOrganization, InsertUser, Inserting,
     SelectAccount, StartExchange, LockCode
<1>3. QED
  BY <1>1, <1>2

(* An account is committed when its call ends, and by then its organisation is *)
(* there.                                                                      *)
LEMMA AccountsKeepCalls ==
  ASSUME AccountsInv, [Next]_server
  PROVE  AccountsHaveCalls'
<1> USE DEF AccountsInv, AccountsHaveCalls
<1>1. \A u \in users' : /\ pc'[u.id] = "answered" /\ u.email = input'[u.id].email
                        /\ input'[u.id].kind \in {"account", "register", "user", "bootstrap"}
  <2> SUFFICES ASSUME NEW u \in users'
               PROVE  /\ pc'[u.id] = "answered" /\ u.email = input[u.id].email
                      /\ input[u.id].kind \in {"account", "register", "user", "bootstrap"}
    BY InputsStay
  <2>1. CASE u \in users
    <3>1. u.id \in Calls
      BY <2>1 DEF TypeOK, User
    <3>2. pc'[u.id] = pc[u.id]
      BY <2>1, <3>1, Phases DEF Open, Begin, CheckBootstrap, SelectOrganization, InsertUser, Inserting
    <3>3. QED
      BY <2>1, <3>2
  <2>2. CASE u \notin users
    <3>1. PICK c \in Calls :
            /\ pc[c] = "commit" /\ pc' = [pc EXCEPT ![c] = "answered"]
            /\ u = [id |-> c, email |-> input[c].email, organization |-> OrganizationOf(c)]
      BY <2>2, AccountsGrow
    <3>2. QED
      BY <3>1 DEF TypeOK, PhasesFitKinds
  <2>3. QED
    BY <2>1, <2>2
<1>2. organizations \subseteq organizations'
  BY AccountsGrow
<1>3. ASSUME NEW c \in Calls
      PROVE  /\ input'[c].kind = "user" /\ pc'[c] # "idle" => input'[c].organization \in organizations'
             /\ pc'[c] = "insert" => found'[c] \in organizations'
             /\ pc'[c] = "commit" /\ input'[c].kind = "bootstrap" => found'[c] \in organizations'
  <2>1. CASE pc'[c] = pc[c] /\ found'[c] = found[c]
    BY <1>2, <2>1, InputsStay
  <2>2. CASE found'[c] # found[c]
    <3>1. SelectOrganization(c) \/ SelectAccount(c)
      BY <2>2 DEF TypeOK, Next, Environment, Tick, Expire, Crash, Begin, Step, Login, CheckBootstrap,
         SelectOrganization, InsertUser, CommitUser, SelectAccount, LinkAccount, StartExchange,
         LockCode, UseCode, server
    <3>2. QED
      BY <1>2, <3>1, InputsStay DEF SelectOrganization, SelectAccount, TypeOK, Goto, PhasesFitKinds
  <2>3. CASE pc'[c] # pc[c] /\ found'[c] = found[c]
    <3>1. pc'[c] # "idle"
      BY <2>3, Phases DEF Ended
    <3>2. input[c].kind = "user" => input[c].organization \in organizations
      BY <2>3, Phases DEF Open, Begin, CheckBootstrap, SelectOrganization, InsertUser, Inserting,
         SelectAccount, StartExchange, LockCode
    <3>3. pc'[c] = "insert" => found[c] \in organizations
      BY <2>3, Phases DEF Ended, SelectOrganization, TypeOK
    <3>4. pc'[c] = "commit" /\ input[c].kind = "bootstrap" => found[c] \in organizations
      BY <2>3, Phases DEF Ended, InsertUser, Inserting
    <3>5. QED
      BY <1>2, <2>3, <3>2, <3>3, <3>4, InputsStay
  <2>4. QED
    BY <2>1, <2>2, <2>3
<1>4. QED
  BY <1>1, <1>3

(* The unique index: an address is committed by one call at a time, and only   *)
(* while no account has it.                                                    *)
LEMMA AddressStaysReserved ==
  ASSUME AccountsInv, [Next]_server
  PROVE  AddressIsReserved'
<1> USE DEF AccountsInv
<1> SUFFICES ASSUME NEW c \in Calls, pc'[c] = "commit"
             PROVE  /\ \A u \in users' : u.email # input[c].email
                    /\ \A d \in Calls : pc'[d] = "commit" /\ input[d].email = input[c].email => d = c
  BY InputsStay DEF AddressIsReserved
<1>1. CASE pc[c] = "commit"
  <2>1. \A u \in users' : u.email # input[c].email
    <3>1. CASE UNCHANGED users
      BY <1>1, <3>1 DEF AddressIsReserved
    <3>2. ASSUME NEW d \in Calls, pc[d] = "commit", pc' = [pc EXCEPT ![d] = "answered"],
                 users' = users \cup
                   {[id |-> d, email |-> input[d].email, organization |-> OrganizationOf(d)]}
          PROVE  \A u \in users' : u.email # input[c].email
      <4>1. d # c
        BY <3>2 DEF TypeOK
      <4>2. QED
        BY <1>1, <3>2, <4>1 DEF AddressIsReserved
    <3>3. QED
      BY <3>1, <3>2, AccountsGrow
  <2>2. ASSUME NEW d \in Calls, pc'[d] = "commit", input[d].email = input[c].email, d # c
        PROVE  FALSE
    <3>1. pc[d] # "commit"
      BY <1>1, <2>2 DEF AddressIsReserved
    <3>2. InsertUser(d)
      BY <2>2, <3>1, Phases DEF Ended
    <3>3. QED
      BY <1>1, <2>2, <3>1, <3>2 DEF InsertUser, EmailIsPending, Goto, TypeOK
  <2>3. QED
    BY <2>1, <2>2
<1>2. CASE pc[c] # "commit"
  <2>1. InsertUser(c) /\ ~EmailIsTaken(c)
    BY <1>2, Phases DEF Ended
  <2>2. \A u \in users' : u.email # input[c].email
    BY <2>1 DEF InsertUser, EmailIsTaken
  <2>3. \A d \in Calls \ {c} : pc'[d] = pc[d] /\ ~(pc[d] = "commit" /\ input[d].email = input[c].email)
    BY <2>1 DEF InsertUser, EmailIsPending, Goto, TypeOK
  <2>4. QED
    BY <2>2, <2>3
<1>3. QED
  BY <1>1, <1>2

(* Organisations and accounts go on referring to each other. *)
LEMMA AccountsStayWhole ==
  ASSUME AccountsInv, [Next]_server
  PROVE  AccountsAreWhole' /\ users' \subseteq User /\ organizations' \subseteq Organization
<1> USE DEF AccountsInv
<1>1. CASE UNCHANGED <<users, organizations>>
  BY <1>1 DEF TypeOK, AccountsAreWhole
<1>2. ASSUME NEW c \in Calls, pc[c] = "commit",
             users' = users \cup
               {[id |-> c, email |-> input[c].email, organization |-> OrganizationOf(c)]},
             organizations' = organizations \cup {OrganizationOf(c)}
      PROVE  AccountsAreWhole' /\ users' \subseteq User /\ organizations' \subseteq Organization
  <2> DEFINE u == [id |-> c, email |-> input[c].email, organization |-> OrganizationOf(c)]
  <2>1. u \in User /\ OrganizationOf(c) \in Organization
    BY <1>2, OrganizationFits DEF User
  <2>2. u.email = input[c].email /\ u.organization = OrganizationOf(c)
    OBVIOUS
  <2>3. users' = users \cup {u}
    BY <1>2
  <2> HIDE DEF u
  <2>4. \A w \in users' : w.organization \in organizations'
    BY <1>2, <2>2, <2>3 DEF TypeOK, AccountsAreWhole
  <2>5. \A o \in organizations' \ {Initial} : \E w \in users' : w.organization = o
    BY <1>2, <2>2, <2>3 DEF TypeOK, AccountsAreWhole
  <2>6. \A w, x \in users' : w.email = x.email => w = x
    BY <1>2, <2>2, <2>3 DEF TypeOK, AccountsAreWhole, AddressIsReserved
  <2>7. QED
    BY <1>2, <2>1, <2>3, <2>4, <2>5, <2>6 DEF TypeOK, AccountsAreWhole
<1>3. QED
  BY <1>1, <1>2, AccountsGrow

(* A column is written by one statement only. *)
LEMMA Writers ==
  ASSUME TypeOK, [Next]_server
  PROVE  /\ UNCHANGED <<linked, codes>> \/ (UNCHANGED linked /\ \E c \in Calls : StartExchange(c) \/ UseCode(c))
              \/ \E c \in Calls : LinkAccount(c)
         /\ UNCHANGED holder \/ \E c \in Calls : LockCode(c) \/ UseCode(c) \/ Crash(c)
         /\ UNCHANGED tokens \/ \E c \in Calls : Login(c) \/ CommitUser(c) \/ UseCode(c)
         /\ UNCHANGED found \/ \E c \in Calls : SelectOrganization(c) \/ SelectAccount(c)
         /\ UNCHANGED clock \/ \E c \in Calls : StartExchange(c)
         /\ UNCHANGED expired \/ \E c \in Calls : Expire(c)
         /\ UNCHANGED now \/ Tick
BY DEF Next, Environment, Step, Tick, Expire, Crash, Begin, Login, CheckBootstrap, SelectOrganization,
   InsertUser, CommitUser, SelectAccount, LinkAccount, StartExchange, LockCode, UseCode, server

(* The rows of the codes stay well formed: a new one names an account, and an  *)
(* exchange only marks or deletes.                                             *)
LEMMA CodesKeepType ==
  ASSUME LinkInv, [Next]_server
  PROVE  codes' \subseteq OAuthExchangeCode /\ linked' \in [Calls -> Subjects \cup {Nobody}]
<1> USE DEF LinkInv, AccountsInv
<1>1. ASSUME NEW c \in Calls, LinkAccount(c)
      PROVE  codes' \subseteq OAuthExchangeCode /\ linked' \in [Calls -> Subjects \cup {Nobody}]
  <2>1. input[c].subject \in Subjects /\ found[c] \in Calls
    BY <1>1, InputFields DEF LinkAccount, PhasesFitKinds, LinkReadIsCurrent, TypeOK, User
  <2>2. now + CodeLife \in Nat
    BY TimesAssumption DEF TypeOK
  <2>3. [id |-> c, account |-> found[c], expires |-> now + CodeLife, used |-> FALSE] \in OAuthExchangeCode
    BY <2>1, <2>2 DEF OAuthExchangeCode
  <2>4. linked' = linked \/ linked' = [linked EXCEPT ![found[c]] = input[c].subject]
    BY <1>1 DEF LinkAccount
  <2>5. QED
    BY <1>1, <2>1, <2>3, <2>4 DEF TypeOK, LinkAccount
<1>2. ASSUME NEW c \in Calls, UseCode(c)
      PROVE  codes' \subseteq OAuthExchangeCode /\ UNCHANGED linked
  <2>1. ASSUME NEW k \in codes
        PROVE  [k EXCEPT !.used = @ \/ k.id = input[c].code] \in OAuthExchangeCode
    <3>1. k \in OAuthExchangeCode /\ (k.used \/ k.id = input[c].code) \in BOOLEAN
      BY DEF TypeOK
    <3>2. QED
      BY <3>1 DEF OAuthExchangeCode
  <2>2. QED
    BY <1>2, <2>1 DEF UseCode
<1>3. ASSUME NEW c \in Calls, StartExchange(c)
      PROVE  codes' \subseteq OAuthExchangeCode /\ UNCHANGED linked
  BY <1>3 DEF TypeOK, StartExchange
<1>4. QED
  BY <1>1, <1>2, <1>3, Writers DEF TypeOK

(* Whoever has locked a code is between its SELECT and its commit. *)
LEMMA HoldersKeepType ==
  ASSUME AccountsInv, [Next]_server
  PROVE  /\ holder' \in [Calls -> Calls \cup {Nobody}]
         /\ \A k \in Calls : holder'[k] # Nobody => pc'[holder'[k]] = "use" /\ input'[holder'[k]].code = k
<1> USE DEF AccountsInv
<1>1. CASE UNCHANGED holder /\ \A c \in Calls : pc[c] = "use" => pc'[c] = "use"
  BY <1>1, InputsStay, NamesAssumption DEF TypeOK, Organization
<1>2. ASSUME NEW c \in Calls, pc[c] = "use", pc'[c] # "use"
      PROVE  UseCode(c) \/ Crash(c)
  BY <1>2, OneCallMoves DEF Step, Begin, Login, CheckBootstrap, SelectOrganization, InsertUser, Inserting,
     CommitUser, SelectAccount, LinkAccount, StartExchange, LockCode
<1>3. ASSUME NEW c \in Calls, Release(c), pc[c] \in Open, NEW phase \in Ended, Goto(c, phase)
      PROVE  /\ holder' \in [Calls -> Calls \cup {Nobody}]
             /\ \A k \in Calls : holder'[k] # Nobody => pc'[holder'[k]] = "use" /\ input'[holder'[k]].code = k
  <2>1. holder' \in [Calls -> Calls \cup {Nobody}]
    BY <1>3 DEF Release, TypeOK
  <2>2. ASSUME NEW k \in Calls, holder'[k] # Nobody
        PROVE  pc'[holder'[k]] = "use" /\ input'[holder'[k]].code = k
    <3>1. holder'[k] = holder[k] /\ holder[k] # c
      BY <1>3, <2>2 DEF Release
    <3>2. pc'[holder[k]] = pc[holder[k]]
      BY <1>3, <2>2, <3>1 DEF TypeOK, Goto
    <3>3. QED
      BY <2>2, <3>1, <3>2, InputsStay DEF TypeOK
  <2>3. QED
    BY <2>1, <2>2
<1>4. ASSUME NEW c \in Calls, LockCode(c)
      PROVE  /\ holder' \in [Calls -> Calls \cup {Nobody}]
             /\ \A k \in Calls : holder'[k] # Nobody => pc'[holder'[k]] = "use" /\ input'[holder'[k]].code = k
  <2>1. pc[c] = "lock" /\ input[c].kind = "exchange" /\ input[c].code \in Calls
    BY <1>4, InputFields DEF LockCode, PhasesFitKinds
  <2>2. \A d \in Calls \ {c} : pc'[d] = pc[d]
    BY <1>4 DEF LockCode, Goto, TypeOK
  <2>3. CASE holder' = holder
    BY <2>1, <2>2, <2>3, InputsStay DEF TypeOK
  <2>4. CASE pc'[c] = "use" /\ holder' = [holder EXCEPT ![input[c].code] = c]
    BY <2>1, <2>2, <2>4, InputsStay DEF TypeOK
  <2>5. QED
    BY <1>4, <2>3, <2>4 DEF LockCode, Unused, Goto, TypeOK
<1>5. ASSUME NEW c \in Calls, UseCode(c) \/ Crash(c)
      PROVE  Release(c) /\ pc[c] \in Open /\ (Goto(c, "answered") \/ Goto(c, "refused"))
  BY <1>5 DEF UseCode, Crash, Open
<1>6. QED
  BY <1>1, <1>2, <1>3, <1>4, <1>5, Writers DEF Ended

(* A token names an account. *)
LEMMA TokensKeepType ==
  ASSUME AccountsInv, [Next]_server
  PROVE  /\ tokens' \in [Calls -> Calls \cup {Nobody}]
         /\ \A c \in Calls : tokens[c] # Nobody => tokens'[c] # Nobody
<1> USE DEF AccountsInv
<1>1. ASSUME NEW c \in Calls, NEW a \in Calls, IssueToken(c, a)
      PROVE  /\ tokens' \in [Calls -> Calls \cup {Nobody}]
             /\ \A d \in Calls : tokens[d] # Nobody => tokens'[d] # Nobody
  BY <1>1, NamesAssumption DEF IssueToken, TypeOK, Organization
<1>2. ASSUME NEW c \in Calls, Login(c)
      PROVE  input[c].account \in Calls /\ IssueToken(c, input[c].account)
  BY <1>2, InputFields DEF Login
<1>3. ASSUME NEW c \in Calls, CommitUser(c)
      PROVE  UNCHANGED tokens \/ IssueToken(c, c)
  BY <1>3 DEF CommitUser
<1>4. ASSUME NEW c \in Calls, UseCode(c)
      PROVE  \E a \in Calls : IssueToken(c, a)
  BY <1>4 DEF UseCode, TypeOK, OAuthExchangeCode
<1>5. QED
  BY <1>1, <1>2, <1>3, <1>4, Writers DEF TypeOK

(* The remaining variables. *)
LEMMA TypesStay ==
  ASSUME LinkInv, [Next]_server
  PROVE  TypeOK'
<1> USE DEF LinkInv, AccountsInv
<1>1. pc' \in [Calls -> {"idle"} \cup Open \cup Ended]
  <2>1. ASSUME NEW c \in Calls, NEW phase \in {"idle"} \cup Open \cup Ended, Goto(c, phase)
        PROVE  pc' \in [Calls -> {"idle"} \cup Open \cup Ended]
    BY <2>1, Moves
  <2>2. ASSUME NEW c \in Calls, Begin(c) \/ Crash(c) \/ Step(c)
        PROVE  \E phase \in {"idle"} \cup Open \cup Ended : Goto(c, phase)
    BY <2>2 DEF Begin, Crash, Step, Login, CheckBootstrap, SelectOrganization, InsertUser, CommitUser,
       SelectAccount, LinkAccount, StartExchange, LockCode, UseCode, Open, Ended
  <2>3. CASE Tick \/ UNCHANGED server \/ \E c \in Calls : Expire(c)
    BY <2>3 DEF TypeOK, Tick, Expire, server
  <2>4. QED
    BY <2>1, <2>2, <2>3 DEF Next, Environment
<1>2. found' \in [Calls -> Organization \cup {Nobody}]
  <2>1. ASSUME NEW c \in Calls, SelectOrganization(c) \/ SelectAccount(c)
        PROVE  found' = found \/ \E x \in Organization : found' = [found EXCEPT ![c] = x]
    BY <2>1 DEF SelectOrganization, SelectAccount, Authorized, TypeOK, User, Organization
  <2>2. QED
    BY <2>1, Writers DEF TypeOK
<1>3. clock' \in [Calls -> 0..MaxNow]
  BY Writers DEF TypeOK, StartExchange
<1>4. expired' \subseteq {c \in Calls : tokens'[c] # Nobody}
  BY Writers, TokensKeepType DEF TypeOK, Expire
<1>5. now' \in 0..MaxNow
  <2>1. now \in Nat /\ MaxNow \in Nat /\ now <= MaxNow
    BY TimesAssumption DEF TypeOK
  <2>2. CASE Tick
    BY <2>1, <2>2 DEF Tick
  <2>3. QED
    BY <2>1, <2>2, Writers
<1>6. input' \in Scenarios
  BY InputsStay DEF TypeOK
<1>7. QED
  BY <1>1, <1>2, <1>3, <1>4, <1>5, <1>6, AccountsStayWhole, CodesKeepType, HoldersKeepType, TokensKeepType
  DEF TypeOK

(* A call that has ended does nothing more. *)
LEMMA EndedStays ==
  ASSUME TypeOK, [Next]_server, NEW c \in Calls, pc[c] \in Ended
  PROVE  pc'[c] = pc[c]
BY Phases DEF Ended, Open, Begin, CheckBootstrap, SelectOrganization, InsertUser, Inserting

(* The callback overwrites google_subject, but only with what is there. *)
LEMMA LinksStay ==
  ASSUME LinkInv, [Next]_server
  PROVE  /\ \A a \in Calls : linked[a] # Nobody => linked'[a] = linked[a]
         /\ \A c \in Calls : LinkAccount(c) => linked' = linked \/ linked'[found[c]] = input[c].subject
<1> USE DEF LinkInv, AccountsInv
<1>1. ASSUME NEW c \in Calls, LinkAccount(c)
      PROVE  /\ \A a \in Calls : linked[a] # Nobody => linked'[a] = linked[a]
             /\ linked' = linked \/ linked'[found[c]] = input[c].subject
  <2>1. found[c] \in Calls /\ linked[found[c]] \in {Nobody, input[c].subject}
    BY <1>1 DEF LinkAccount, LinkReadIsCurrent, TypeOK, User
  <2>2. linked' = linked \/ linked' = [linked EXCEPT ![found[c]] = input[c].subject]
    BY <1>1 DEF LinkAccount
  <2>3. QED
    BY <2>1, <2>2 DEF TypeOK
<1>2. QED
  BY <1>1, Writers

(* No callback comes between the SELECT of another and its UPDATE. *)
LEMMA LinkReadStaysCurrent ==
  ASSUME LinkInv, [Next]_server
  PROVE  LinkReadIsCurrent'
<1> USE DEF LinkInv, AccountsInv
<1> SUFFICES ASSUME NEW c \in Calls, pc'[c] = "link"
             PROVE  /\ \E u \in users' : u.id = found'[c]
                    /\ linked'[found'[c]] \in {Nobody, input[c].subject}
                    /\ \A d \in Calls : pc'[d] = "link" => d = c
  BY InputsStay DEF LinkReadIsCurrent
<1>0. users \subseteq users'
  BY AccountsGrow
<1>1. CASE pc[c] = "link"
  <2>1. found'[c] = found[c]
    BY <1>1, Writers DEF SelectOrganization, SelectAccount, TypeOK
  <2>2. linked' = linked
    <3>1. ASSUME NEW d \in Calls, LinkAccount(d)
          PROVE  FALSE
      <4>1. d = c
        BY <1>1, <3>1 DEF LinkAccount, LinkReadIsCurrent
      <4>2. QED
        BY <3>1, <4>1 DEF LinkAccount, Goto, TypeOK
    <3>2. QED
      BY <3>1, Writers
  <2>3. ASSUME NEW d \in Calls, pc'[d] = "link", d # c
        PROVE  FALSE
    <3>1. pc[d] # "link"
      BY <1>1, <2>3 DEF LinkReadIsCurrent
    <3>2. SelectAccount(d)
      BY <2>3, <3>1, Phases DEF Ended
    <3>3. QED
      BY <1>1, <3>2 DEF SelectAccount, EventLoopIsFree
  <2>4. QED
    BY <1>0, <1>1, <2>1, <2>2, <2>3 DEF LinkReadIsCurrent
<1>2. CASE pc[c] # "link"
  <2>1. SelectAccount(c)
    BY <1>2, Phases DEF Ended
  <2>2. PICK u \in Authorized(c) : found' = [found EXCEPT ![c] = u.id]
    BY <2>1 DEF SelectAccount, Goto, TypeOK
  <2>3. u \in users /\ linked[u.id] \in {Nobody, input[c].subject} /\ found'[c] = u.id /\ linked' = linked
    BY <2>1, <2>2 DEF Authorized, TypeOK, SelectAccount
  <2>4. \A d \in Calls : pc'[d] = "link" => d = c
    BY <2>1 DEF SelectAccount, EventLoopIsFree, Goto, TypeOK
  <2>5. QED
    BY <1>0, <2>3, <2>4
<1>3. QED
  BY <1>1, <1>2

(* The rows of the codes: a new one is that of a callback that ends with it,   *)
(* the others keep their callback and their account.                           *)
LEMMA CodesChange ==
  ASSUME LinkInv, [Next]_server, NEW k \in codes'
  PROVE  \/ /\ pc[k.id] = "link" /\ pc'[k.id] = "answered" /\ LinkAccount(k.id)
            /\ k.account = found[k.id] /\ ~k.used
         \/ \E m \in codes : m.id = k.id /\ m.account = k.account /\ (m.used => k.used)
<1> USE DEF LinkInv, AccountsInv
<1>1. ASSUME NEW c \in Calls, LinkAccount(c), k \notin codes
      PROVE  /\ k.id = c /\ pc[c] = "link" /\ pc'[c] = "answered"
             /\ k.account = found[c] /\ ~k.used
  BY <1>1 DEF LinkAccount, Goto, TypeOK
<1>2. ASSUME NEW c \in Calls, UseCode(c)
      PROVE  \E m \in codes : m.id = k.id /\ m.account = k.account /\ (m.used => k.used)
  <2>1. PICK m \in codes : k = [m EXCEPT !.used = @ \/ m.id = input[c].code]
    BY <1>2 DEF UseCode
  <2>2. m \in OAuthExchangeCode
    BY DEF TypeOK
  <2>3. m.id = k.id /\ m.account = k.account /\ (m.used => k.used)
    BY <2>1, <2>2 DEF OAuthExchangeCode
  <2>4. QED
    BY <2>3
<1>3. ASSUME NEW c \in Calls, StartExchange(c)
      PROVE  k \in codes
  BY <1>3 DEF StartExchange
<1>4. QED
  BY <1>1, <1>2, <1>3, Writers

(* A callback inserts one code. *)
LEMMA CodesAreDistinct ==
  ASSUME LinkInv, [Next]_server, NEW k \in codes', NEW m \in codes', m.id = k.id
  PROVE  m = k
<1> USE DEF LinkInv, AccountsInv
<1>1. UNCHANGED codes => m = k
  BY DEF CodesFollowLinks
<1>2. ASSUME NEW c \in Calls, LinkAccount(c)
      PROVE  m = k
  <2>1. \A n \in codes : n.id # c
    BY <1>2 DEF LinkAccount, CodesFollowLinks
  <2> DEFINE new == [id |-> c, account |-> found[c], expires |-> now + CodeLife, used |-> FALSE]
  <2>2. new.id = c /\ codes' \subseteq codes \cup {new}
    BY <1>2 DEF LinkAccount
  <2> HIDE DEF new
  <2>3. QED
    BY <2>1, <2>2 DEF CodesFollowLinks
<1>3. ASSUME NEW c \in Calls, UseCode(c)
      PROVE  m = k
  <2>1. PICK i \in codes, j \in codes : /\ k = [i EXCEPT !.used = @ \/ i.id = input[c].code]
                                       /\ m = [j EXCEPT !.used = @ \/ j.id = input[c].code]
    BY <1>3 DEF UseCode
  <2>2. i.id = k.id /\ j.id = m.id
    BY <2>1 DEF TypeOK, OAuthExchangeCode
  <2>3. QED
    BY <2>1, <2>2 DEF CodesFollowLinks
<1>4. ASSUME NEW c \in Calls, StartExchange(c)
      PROVE  m = k
  BY <1>4 DEF StartExchange, CodesFollowLinks
<1>5. QED
  BY <1>1, <1>2, <1>3, <1>4, Writers

(* A code stays with the account its callback has linked. *)
LEMMA CodesStayLinked ==
  ASSUME LinkInv, [Next]_server
  PROVE  CodesFollowLinks'
<1> USE DEF LinkInv, AccountsInv
<1> SUFFICES ASSUME NEW k \in codes'
             PROVE  /\ input[k.id].kind = "callback" /\ pc'[k.id] = "answered"
                    /\ \E u \in users' : u.id = k.account
                    /\ linked'[k.account] = input[k.id].subject
                    /\ \A m \in codes' : m.id = k.id => m = k
  BY InputsStay DEF CodesFollowLinks
<1>0. users \subseteq users' /\ k \in OAuthExchangeCode /\ k.id \in Calls /\ k.account \in Calls
  BY AccountsGrow, CodesKeepType DEF OAuthExchangeCode
<1>1. CASE \E m \in codes : m.id = k.id /\ m.account = k.account
  <2>1. input[k.id].kind = "callback" /\ pc[k.id] = "answered" /\ linked[k.account] = input[k.id].subject
    BY <1>1 DEF CodesFollowLinks
  <2>2. input[k.id].subject # Nobody
    BY <1>0, <2>1, InputFields, NamesAssumption
  <2>3. pc'[k.id] = "answered" /\ linked'[k.account] = input[k.id].subject
    BY <1>0, <2>1, <2>2, EndedStays, LinksStay DEF Ended
  <2>4. \E u \in users' : u.id = k.account
    BY <1>0, <1>1 DEF CodesFollowLinks
  <2>5. QED
    BY <2>1, <2>3, <2>4, CodesAreDistinct
<1>2. CASE /\ pc[k.id] = "link" /\ pc'[k.id] = "answered" /\ LinkAccount(k.id)
           /\ k.account = found[k.id]
  <2>1. input[k.id].kind = "callback"
    BY <1>0, <1>2 DEF PhasesFitKinds
  <2>2. \E u \in users' : u.id = k.account
    BY <1>0, <1>2 DEF LinkReadIsCurrent
  <2>3. linked'[k.account] = input[k.id].subject
    BY <1>0, <1>2 DEF LinkAccount, Goto, Ended, TypeOK
  <2>4. QED
    BY <1>2, <2>1, <2>2, <2>3, CodesAreDistinct
<1>3. QED
  BY <1>1, <1>2, CodesChange

(* The lock on a code keeps it unused and in place until its exchange commits. *)
LEMMA UsersKeepTheirCode ==
  ASSUME LinkInv, UsersHoldTheirCode, [Next]_server
  PROVE  UsersHoldTheirCode'
<1> USE DEF LinkInv, AccountsInv
<1> SUFFICES ASSUME NEW c \in Calls, pc'[c] = "use"
             PROVE  /\ holder'[input[c].code] = c
                    /\ \E k \in codes' : k.id = input[c].code /\ ~k.used
  BY InputsStay DEF UsersHoldTheirCode
<1>1. CASE pc[c] = "use"
  <2>1. input[c].kind = "exchange" /\ input[c].code \in Calls
    BY <1>1, InputFields DEF PhasesFitKinds
  <2>2. PICK k \in codes : k.id = input[c].code /\ ~k.used
    BY <1>1 DEF UsersHoldTheirCode
  <2>3. holder[input[c].code] = c
    BY <1>1 DEF UsersHoldTheirCode
  <2>4. ASSUME NEW d \in Calls, LockCode(d)
        PROVE  holder'[input[c].code] = c
    <3>1. \A x \in Calls : holder[x] # Nobody => holder'[x] = holder[x]
      BY <2>4 DEF LockCode, CodeIsFree, TypeOK
    <3>2. QED
      BY <2>1, <2>3, <3>1, NamesAssumption DEF Organization
  <2>5. ASSUME NEW d \in Calls, UseCode(d) \/ Crash(d)
        PROVE  d # c /\ holder'[input[c].code] = c
    <3>1. d # c
      BY <2>5 DEF UseCode, Crash, Goto, TypeOK
    <3>2. QED
      BY <2>1, <2>3, <2>5, <3>1 DEF UseCode, Crash, Release
  <2>6. holder'[input[c].code] = c
    BY <2>3, <2>4, <2>5, Writers
  <2>7. ASSUME NEW d \in Calls, StartExchange(d)
        PROVE  k \in codes'
    BY <2>2, <2>3, <2>7, NamesAssumption DEF StartExchange, Organization
  <2>8. ASSUME NEW d \in Calls, UseCode(d)
        PROVE  k \in codes'
    <3>1. d # c /\ holder[input[d].code] = d
      BY <2>5, <2>8 DEF UseCode, UsersHoldTheirCode
    <3>2. k.id # input[d].code
      BY <2>2, <2>3, <3>1
    <3>3. k \in OAuthExchangeCode
      BY DEF TypeOK
    <3>4. [k EXCEPT !.used = @ \/ k.id = input[d].code] = k
      BY <3>2, <3>3 DEF OAuthExchangeCode
    <3>5. QED
      BY <2>8, <3>4 DEF UseCode
  <2>9. ASSUME NEW d \in Calls, LinkAccount(d)
        PROVE  k \in codes'
    BY <2>9 DEF LinkAccount
  <2>10. k \in codes'
    BY <2>7, <2>8, <2>9, Writers
  <2>11. QED
    BY <2>2, <2>6, <2>10
<1>2. CASE pc[c] # "use"
  <2>1. LockCode(c)
    BY <1>2, Phases DEF Ended
  <2>2. input[c].kind = "exchange" /\ input[c].code \in Calls
    BY <2>1, InputFields DEF PhasesFitKinds, LockCode
  <2>3. PICK k \in Unused(c) : holder' = [holder EXCEPT ![k.id] = c]
    BY <2>1 DEF LockCode, Goto, TypeOK
  <2>4. codes' = codes
    BY <2>1 DEF LockCode
  <2>5. QED
    BY <2>2, <2>3, <2>4 DEF Unused, TypeOK
<1>3. QED
  BY <1>1, <1>2

(* A token is issued by the step that ends its call. *)
LEMMA TokensChange ==
  ASSUME LinkInv, TokensHaveSources, [Next]_server, NEW c \in Calls, tokens'[c] # tokens[c]
  PROVE  /\ tokens[c] = Nobody /\ pc'[c] = "answered"
         /\ Login(c) \/ (CommitUser(c) /\ tokens'[c] = c) \/ UseCode(c)
<1> USE DEF LinkInv, AccountsInv
<1>1. PICK d \in Calls : Login(d) \/ CommitUser(d) \/ UseCode(d)
  BY Writers
<1>2. c = d /\ pc'[c] = "answered" /\ pc[c] # "answered"
  BY <1>1 DEF Login, CommitUser, UseCode, IssueToken, Goto, TypeOK
<1>3. tokens[c] = Nobody
  BY <1>2 DEF TokensHaveSources
<1>4. QED
  BY <1>1, <1>2, <1>3 DEF CommitUser, IssueToken, TypeOK

(* Tokens keep what they name, and the codes they came from stay used. *)
LEMMA TokensKeepSources ==
  ASSUME LinkInv, UsersHoldTheirCode, TokensHaveSources, [Next]_server
  PROVE  TokensHaveSources'
<1> USE DEF LinkInv, AccountsInv
<1> SUFFICES ASSUME NEW c \in Calls, tokens'[c] # Nobody
             PROVE  /\ pc'[c] = "answered"
                    /\ \E u \in users' : u.id = tokens'[c]
                    /\ input[c].kind = "exchange" =>
                         /\ input[input[c].code].kind = "callback" /\ pc'[input[c].code] = "answered"
                         /\ linked'[tokens'[c]] = input[input[c].code].subject
                         /\ \A k \in codes' : k.id = input[c].code => k.used
  BY InputsStay DEF TokensHaveSources
<1>0. users \subseteq users'
  BY AccountsGrow
<1>1. CASE tokens'[c] = tokens[c]
  <2>1. pc'[c] = "answered" /\ \E u \in users' : u.id = tokens'[c]
    BY <1>0, <1>1, EndedStays DEF TokensHaveSources, Ended
  <2>2. ASSUME input[c].kind = "exchange"
        PROVE  /\ input[input[c].code].kind = "callback" /\ pc'[input[c].code] = "answered"
               /\ linked'[tokens'[c]] = input[input[c].code].subject
               /\ \A k \in codes' : k.id = input[c].code => k.used
    <3>1. input[c].code \in Calls /\ tokens[c] \in Calls
      BY <1>1, <2>2, InputFields DEF TypeOK
    <3>2. /\ input[input[c].code].kind = "callback" /\ pc[input[c].code] = "answered"
          /\ linked[tokens[c]] = input[input[c].code].subject
          /\ \A k \in codes : k.id = input[c].code => k.used
      BY <1>1, <2>2 DEF TokensHaveSources
    <3>3. linked[tokens[c]] # Nobody
      BY <3>1, <3>2, InputFields, NamesAssumption
    <3>4. pc'[input[c].code] = "answered" /\ linked'[tokens'[c]] = linked[tokens[c]]
      BY <1>1, <3>1, <3>2, <3>3, EndedStays, LinksStay DEF Ended
    <3>5. \A k \in codes' : k.id = input[c].code => k.used
      BY <3>2, CodesChange
    <3>6. QED
      BY <3>2, <3>4, <3>5
  <2>3. QED
    BY <2>1, <2>2
<1>2. CASE tokens'[c] # tokens[c]
  <2>1. pc'[c] = "answered"
    BY <1>2, TokensChange
  <2>2. CASE Login(c)
    BY <2>1, <2>2 DEF Login, IssueToken, TypeOK
  <2>3. CASE CommitUser(c) /\ tokens'[c] = c
    <3>1. input[c].kind # "exchange"
      BY <2>3 DEF CommitUser, PhasesFitKinds
    <3>2. \E u \in users' : u.id = tokens'[c]
      <4>1. [id |-> c, email |-> input[c].email, organization |-> OrganizationOf(c)] \in users'
        BY <2>3 DEF CommitUser
      <4>2. [id |-> c, email |-> input[c].email, organization |-> OrganizationOf(c)].id = tokens'[c]
        BY <2>3
      <4>3. QED
        BY <4>1, <4>2
    <3>3. QED
      BY <2>1, <3>1, <3>2
  <2>4. CASE UseCode(c)
    <3>1. input[c].kind = "exchange" /\ input[c].code \in Calls
      BY <2>4, InputFields DEF UseCode, PhasesFitKinds
    <3>2. PICK k \in codes : k.id = input[c].code /\ tokens'[c] = k.account
      BY <2>4 DEF UseCode, IssueToken, TypeOK
    <3>3. /\ input[k.id].kind = "callback" /\ pc[k.id] = "answered"
          /\ \E u \in users : u.id = k.account
          /\ linked[k.account] = input[k.id].subject
      BY DEF CodesFollowLinks
    <3>4. pc'[k.id] = "answered" /\ UNCHANGED linked
      BY <2>4, <3>1, <3>2, <3>3, EndedStays DEF Ended, UseCode
    <3>5. ASSUME NEW m \in codes', m.id = input[c].code
          PROVE  m.used
      <4>1. PICK n \in codes : m = [n EXCEPT !.used = @ \/ n.id = input[c].code]
        BY <2>4 DEF UseCode
      <4>2. n \in OAuthExchangeCode
        BY DEF TypeOK
      <4>3. QED
        BY <3>5, <4>1, <4>2 DEF OAuthExchangeCode
    <3>6. QED
      BY <1>0, <2>1, <3>2, <3>3, <3>4, <3>5
  <2>5. QED
    BY <1>2, <2>2, <2>3, <2>4, TokensChange
<1>3. QED
  BY <1>1, <1>2

(* The second exchange of a code finds it used. *)
LEMMA CodesIssueOneToken ==
  ASSUME SessionsInv, [Next]_server
  PROVE  CodeIssuesOneToken'
<1> USE DEF SessionsInv, LinkInv, AccountsInv
<1> SUFFICES ASSUME NEW c \in Calls, NEW d \in Calls, input[c].kind = "exchange", input[d].kind = "exchange",
                    tokens'[c] # Nobody
             PROVE  /\ linked'[tokens'[c]] = input[input[c].code].subject
                    /\ c # d /\ input[c].code = input[d].code => tokens'[d] = Nobody
  BY InputsStay DEF CodeIssuesOneToken, CallsOf
<1>1. linked'[tokens'[c]] = input[input[c].code].subject
  BY TokensKeepSources, InputsStay DEF TokensHaveSources
<1>2. ASSUME NEW x \in Calls, NEW y \in Calls, x # y, input[x].kind = "exchange", input[y].kind = "exchange",
             input[x].code = input[y].code, tokens'[x] # tokens[x], tokens'[y] # Nobody
      PROVE  FALSE
  <2>1. UseCode(x)
    BY <1>2, TokensChange DEF Login, CommitUser, PhasesFitKinds
  <2>2. tokens[y] # Nobody
    BY <1>2, <2>1 DEF UseCode, IssueToken, TypeOK
  <2>3. \A k \in codes : k.id = input[x].code => k.used
    BY <1>2, <2>2 DEF TokensHaveSources
  <2>4. QED
    BY <2>1, <2>3 DEF UseCode, UsersHoldTheirCode
<1>3. ASSUME c # d, input[c].code = input[d].code, tokens'[d] # Nobody
      PROVE  FALSE
  <2>1. CASE tokens'[c] = tokens[c] /\ tokens'[d] = tokens[d]
    BY <1>3, <2>1 DEF CodeIssuesOneToken, CallsOf
  <2>2. QED
    BY <1>2, <1>3, <2>1
<1>4. QED
  BY <1>1, <1>3

(* Every step of the server keeps the invariant. *)
LEMMA SessionsStep ==
  ASSUME SessionsInv, [Next]_server
  PROVE  SessionsInv'
BY TypesStay, PhasesFit, AccountsKeepCalls, AddressStaysReserved, LinkReadStaysCurrent, CodesStayLinked,
   UsersKeepTheirCode, TokensKeepSources, CodesIssueOneToken
DEF SessionsInv, LinkInv, AccountsInv

(* The accounts of a scenario are there from the start, with their             *)
(* organisations; nothing else is.                                             *)
LEMMA SessionsInit == Init => SessionsInv
<1> SUFFICES ASSUME Init
             PROVE  SessionsInv
  OBVIOUS
<1>1. input \in [Calls -> Input]
  BY ScenariosAssumption DEF Init
<1>2. ASSUME NEW c \in Calls, input[c].kind = "account"
      PROVE  input[c].email \in Emails /\ input[c].organization \in Organization /\ Account(c) \in User
  BY <1>1, <1>2 DEF Input, Account, User
<1>3. users \subseteq User /\ organizations \subseteq Organization
  BY <1>2 DEF Init, CallsOf, Organization, User
<1>4. \A u \in users : \E c \in Calls : input[c].kind = "account" /\ u = Account(c)
  BY DEF Init, CallsOf
<1>5. \A u, w \in users : u.email = w.email => u = w
  BY <1>4, AccountsAssumption DEF Init, Account
<1>6. AccountsAreWhole
  BY <1>5 DEF Init, AccountsAreWhole
<1>7. 0 \in 0..MaxNow
  BY TimesAssumption
<1>8. TypeOK
  BY <1>3, <1>6, <1>7 DEF Init, TypeOK, Ended, Open
<1>9. AccountsHaveCalls
  BY <1>4 DEF Init, AccountsHaveCalls, Account
<1>10. PhasesFitKinds /\ AddressIsReserved /\ LinkReadIsCurrent /\ CodesFollowLinks
  BY DEF Init, PhasesFitKinds, AddressIsReserved, LinkReadIsCurrent, CodesFollowLinks
<1>11. UsersHoldTheirCode /\ TokensHaveSources /\ CodeIssuesOneToken
  BY DEF Init, UsersHoldTheirCode, TokensHaveSources, CodeIssuesOneToken, CallsOf
<1>12. QED
  BY <1>8, <1>9, <1>10, <1>11 DEF SessionsInv, LinkInv, AccountsInv

(* Registration, new users, the first administrator, Google and the exchange,  *)
(* interleaved at will and cut off anywhere, keep the invariant.               *)
THEOREM SessionsHold == Spec => []SessionsInv
BY SessionsInit, SessionsStep, PTL DEF Spec

-----------------------------------------------------------------------------
(* The browser.  A tab at Google has a sign-in of its own in its address, and  *)
(* only a page that is shown waits for a form or an exchange.                  *)
TabsFit ==
  \A t \in Tabs : /\ page[t] = "google" => url[t] \in Calls
                  /\ asking[t] # {} => page[t] = "shown"

(* The token of a request was issued.  What has been answered well was         *)
(* answered to a token, and all summaries to one of the fleet's organisation.  *)
LoadFits(r) ==
  /\ r.token # Nobody => tokens[r.token] # Nobody
  /\ r.phase = "submit" => r.of \in Vehicles
  /\ r.phase = "lists" /\ ~r.failed /\ r.waiting < Requests => r.token # Nobody
  /\ r.phase = "financials" =>
       /\ r.of \in Organization
       /\ ~r.failed /\ r.waiting < Cardinality(FleetOf(r.of)) =>
            /\ r.token # Nobody
            /\ \A v \in FleetOf(r.of) : Owner[v] = OrganizationOfToken(r.token)

LoadsFit == \A l \in Loads : LoadFits(load[l])

BrowserInv == SessionsInv /\ DashboardTypeOK /\ TabsFit /\ LoadsFit

DashboardInv == BrowserInv /\ ScreenIsOfOneOrganization /\ WritesStayAtHome /\ LoadingHasACause

(* A browser only begins calls: every step of Dashboard is one of Sessions or  *)
(* leaves the server alone.                                                    *)
LEMMA BrowserStepsAreCalls ==
  ASSUME TabsFit, [DashboardNext]_vars
  PROVE  [Next]_server
<1>1. ASSUME NEW t \in Tabs, Visit(t)
      PROVE  UNCHANGED server \/ \E c \in Calls : Begin(c)
  BY <1>1 DEF Visit, Navigate, Restore, Exchange, SubmitLogin, TakeAnswer, LeaveForGoogle, Callback, Return,
     GiveUp, PressSignOut, TabsFit, CallsOf, tab
<1>2. ASSUME NEW l \in Loads, Proceed(l) \/ \E t \in Tabs : LoadDashboard(l, t) \/ Submit(l, t)
      PROVE  UNCHANGED server
  BY <1>2 DEF Proceed, Answer, FailLoad, AskFinancials, ShowDashboard, AnswerSubmit, LoadDashboard, Submit
<1>3. CASE Server
  BY <1>3 DEF Server, Elsewhere, Next
<1>4. CASE UNCHANGED vars
  BY <1>4 DEF vars
<1>5. QED
  BY <1>1, <1>2, <1>3, <1>4 DEF DashboardNext, Next

(* The organisation of a token is that of its account, and stays so.           *)
LEMMA TokensKeepOrganization ==
  ASSUME SessionsInv, NEW k \in Calls, tokens[k] # Nobody
  PROVE  /\ OrganizationOfToken(k) \in Organization
         /\ [Next]_server => OrganizationOfToken(k)' = OrganizationOfToken(k)
<1> USE DEF SessionsInv
<1>1. PICK u \in users : u.id = tokens[k]
  BY DEF TokensHaveSources
<1>2. \A w \in users : w.id = tokens[k] => w = u
  BY <1>1, AccountsAreDistinct DEF LinkInv
<1>3. OrganizationOfToken(k) = u.organization
  <2>1. (CHOOSE w \in users : w.id = tokens[k]) = u
    BY <1>1, <1>2
  <2>2. QED
    BY <2>1 DEF OrganizationOfToken
<1>4. u.organization \in Organization
  BY DEF LinkInv, AccountsInv, TypeOK, User
<1>5. ASSUME [Next]_server
      PROVE  OrganizationOfToken(k)' = u.organization
  <2>1. tokens'[k] = tokens[k] /\ u \in users'
    BY <1>5, AccountsGrow, TokensChange DEF LinkInv
  <2>2. AccountsInv'
    BY <1>5, SessionsStep DEF LinkInv
  <2>3. \A w \in users' : w.id = tokens[k] => w = u
    BY <1>1, <2>1, <2>2 DEF AccountsInv, AccountsHaveCalls, TypeOK, AccountsAreWhole
  <2>4. (CHOOSE w \in users' : w.id = tokens[k]) = u
    BY <1>1, <2>1, <2>3
  <2>5. QED
    BY <2>1, <2>4 DEF OrganizationOfToken
<1>6. QED
  BY <1>3, <1>4, <1>5

(* What is known of a load outlasts the calls of the server. *)
LEMMA LoadsOutlastCalls ==
  ASSUME SessionsInv, [Next]_server, NEW r \in Load, LoadFits(r)
  PROVE  LoadFits(r)'
<1>1. r.token # Nobody => /\ r.token \in Calls /\ tokens[r.token] # Nobody /\ tokens'[r.token] # Nobody
                          /\ OrganizationOfToken(r.token)' = OrganizationOfToken(r.token)
  BY TokensKeepOrganization, TokensKeepType DEF LoadFits, Load, SessionsInv, LinkInv
<1>2. QED
  BY <1>1 DEF LoadFits, FleetOf, OrganizationOfToken

(* A step of the server leaves a load that fits fitting. *)
LEMMA LoadsStayFit ==
  ASSUME SessionsInv, [Next]_server, load' \in [Loads -> Load], \A l \in Loads : LoadFits(load'[l])
  PROVE  LoadsFit'
<1> SUFFICES ASSUME NEW l \in Loads
             PROVE  LoadFits(load[l])'
  BY DEF LoadsFit
<1>1. PICK r \in Load : r = load'[l]
  OBVIOUS
<1>2. LoadFits(r)
  BY <1>1 DEF LoadFits
<1>3. LoadFits(r)'
  BY <1>2, LoadsOutlastCalls
<1>4. QED
  BY <1>1, <1>3 DEF LoadFits, FleetOf, OrganizationOfToken

(* The records of the loads: none, a request that is sent, one whose component *)
(* is gone, one that is over, one that has been answered.                      *)
LEMMA NoLoadFits == NoLoad \in Load /\ LoadFits(NoLoad)
BY DEF NoLoad, Load, LoadFits, Nothing

(* Whether the component is mounted is all that changes of a load. *)
LEMMA MountedAsBefore ==
  ASSUME NEW r \in Load, NEW b \in BOOLEAN
  PROVE  /\ [r EXCEPT !.mounted = b] \in Load /\ [r EXCEPT !.mounted = b].mounted = b
         /\ [r EXCEPT !.mounted = b].tab = r.tab /\ [r EXCEPT !.mounted = b].phase = r.phase
         /\ [r EXCEPT !.mounted = b].token = r.token /\ [r EXCEPT !.mounted = b].of = r.of
         /\ [r EXCEPT !.mounted = b].waiting = r.waiting /\ [r EXCEPT !.mounted = b].failed = r.failed
         /\ LoadFits(r) => LoadFits([r EXCEPT !.mounted = b])
<1> DEFINE s == [r EXCEPT !.mounted = b]
<1>1. /\ s \in Load /\ s.mounted = b
      /\ s.tab = r.tab /\ s.token = r.token /\ s.phase = r.phase /\ s.failed = r.failed
      /\ s.waiting = r.waiting /\ s.of = r.of
  BY DEF Load
<1> HIDE DEF s
<1>2. LoadFits(r) => LoadFits(s)
  BY <1>1 DEF LoadFits
<1>3. QED
  BY <1>1, <1>2 DEF s

(* A load that ends still fits. *)
LEMMA EndedLoadFits ==
  ASSUME NEW r \in Load, LoadFits(r), NEW n \in Nat
  PROVE  /\ [r EXCEPT !.phase = "ended", !.waiting = n] \in Load
         /\ LoadFits([r EXCEPT !.phase = "ended", !.waiting = n])
<1> DEFINE s == [r EXCEPT !.phase = "ended", !.waiting = n]
<1>1. s \in Load /\ s.token = r.token /\ s.phase = "ended"
  BY DEF Load
<1> HIDE DEF s
<1>2. LoadFits(s)
  BY <1>1 DEF LoadFits
<1>3. QED
  BY <1>1, <1>2 DEF s

(* The actions of a tab, one by one; what becomes of the loads comes later.    *)
(* The parts of the browser a step must keep in order:                         *)
TabTypes ==
  /\ stored \in Calls \cup {Nobody} /\ cookie \in Calls \cup {Nobody}
  /\ stored # Nobody => tokens[stored] # Nobody
  /\ page \in [Tabs -> {"closed", "mounting", "shown", "google"}]
  /\ url \in [Tabs -> Calls \cup {Nobody}]
  /\ asking \in [Tabs -> SUBSET Calls]
  /\ authenticated \in [Tabs -> BOOLEAN] /\ loading \in [Tabs -> BOOLEAN]
  /\ due \in [Tabs -> BOOLEAN]
  /\ \A t \in Tabs : /\ authenticated[t] => page[t] = "shown"
                     /\ due[t] => authenticated[t]

(* The tabs and their loads keep their types. *)
LEMMA TabTypesStay ==
  ASSUME BrowserInv, [DashboardNext]_vars
  PROVE  TabTypes' /\ TabsFit'
<1> USE DEF BrowserInv, DashboardTypeOK, TabTypes, TabsFit
<1>0. \A c \in Calls : tokens[c] # Nobody => tokens'[c] # Nobody
  BY BrowserStepsAreCalls, TokensKeepType DEF SessionsInv, LinkInv
<1>1. ASSUME NEW t \in Tabs, Navigate(t)
      PROVE  TabTypes' /\ TabsFit'
  BY <1>0, <1>1 DEF Navigate, MountAnew
<1>2. ASSUME NEW t \in Tabs, Restore(t)
      PROVE  TabTypes' /\ TabsFit'
  BY <1>0, <1>2 DEF Restore, Authenticate
<1>3. ASSUME NEW t \in Tabs, Exchange(t)
      PROVE  TabTypes' /\ TabsFit'
  BY <1>0, <1>3 DEF Exchange, CallsOf
<1>4. ASSUME NEW t \in Tabs, SubmitLogin(t)
      PROVE  TabTypes' /\ TabsFit'
  BY <1>0, <1>4 DEF SubmitLogin, CallsOf
<1>5. ASSUME NEW t \in Tabs, TakeAnswer(t)
      PROVE  TabTypes' /\ TabsFit'
  <2>1. PICK c \in asking[t] :
          /\ asking' = [asking EXCEPT ![t] = @ \ {c}]
          /\ \/ tokens[c] # Nobody /\ stored' = c /\ Authenticate(t)
             \/ tokens[c] = Nobody /\ UNCHANGED <<stored, authenticated, due>>
    BY <1>5 DEF TakeAnswer
  <2>2. c \in Calls /\ page[t] = "shown" /\ UNCHANGED <<server, cookie, page, url, loading>>
    BY <1>5 DEF TakeAnswer
  <2>3. asking' \in [Tabs -> SUBSET Calls] /\ \A s \in Tabs : asking'[s] # {} => page'[s] = "shown"
    BY <2>1, <2>2
  <2>4. CASE tokens[c] # Nobody /\ stored' = c /\ Authenticate(t)
    BY <1>0, <2>2, <2>3, <2>4 DEF Authenticate
  <2>5. CASE UNCHANGED <<stored, authenticated, due>>
    BY <1>0, <2>2, <2>3, <2>5
  <2>6. QED
    BY <2>1, <2>4, <2>5
<1>6. ASSUME NEW t \in Tabs, LeaveForGoogle(t)
      PROVE  TabTypes' /\ TabsFit'
  BY <1>0, <1>6 DEF LeaveForGoogle, CallsOf
<1>7. ASSUME NEW t \in Tabs, Callback(t)
      PROVE  TabTypes' /\ TabsFit'
  BY <1>0, <1>7 DEF Callback, tab
<1>8. ASSUME NEW t \in Tabs, Return(t)
      PROVE  TabTypes' /\ TabsFit'
  BY <1>0, <1>8, NamesAssumption DEF Return, Organization
<1>9. ASSUME NEW t \in Tabs, GiveUp(t)
      PROVE  TabTypes' /\ TabsFit'
  BY <1>0, <1>9 DEF GiveUp
<1>10. ASSUME NEW t \in Tabs, PressSignOut(t)
       PROVE  TabTypes' /\ TabsFit'
  BY <1>0, <1>10, NamesAssumption DEF PressSignOut, SignOut, Organization
<1>11. ASSUME NEW l \in Loads, NEW t \in Tabs, LoadDashboard(l, t) \/ Submit(l, t)
       PROVE  TabTypes' /\ TabsFit'
  BY <1>0, <1>11 DEF LoadDashboard, Submit, BeginLoad, tab
<1>12. ASSUME NEW l \in Loads, Answer(l)
       PROVE  TabTypes' /\ TabsFit'
  BY <1>0, <1>12 DEF Answer, SignOut
<1>13. ASSUME NEW l \in Loads, FailLoad(l) \/ AskFinancials(l) \/ ShowDashboard(l)
       PROVE  TabTypes' /\ TabsFit'
  BY <1>0, <1>13 DEF FailLoad, AskFinancials, ShowDashboard, EndLoad, NoLongerLoading, tab
<1>14. ASSUME NEW l \in Loads, AnswerSubmit(l)
       PROVE  TabTypes' /\ TabsFit'
  BY <1>0, <1>14 DEF AnswerSubmit, SignOut
<1>15. CASE Server
  BY <1>0, <1>15 DEF Server, tab
<1>16. CASE UNCHANGED vars
  BY <1>0, <1>16 DEF vars, tab
<1>17. QED
  BY <1>1, <1>2, <1>3, <1>4, <1>5, <1>6, <1>7, <1>8, <1>9, <1>10, <1>11, <1>12, <1>13, <1>14, <1>15, <1>16
  DEF DashboardNext, Visit, Proceed

(* The next load of a component that has been left. *)
LEMMA LeavingKeepsLoads ==
  ASSUME BrowserInv, NEW t \in Tabs
  PROVE  /\ MountAnew(t) => load' \in [Loads -> Load] /\ \A l \in Loads : LoadFits(load'[l])
         /\ LeaveForGoogle(t) => load' \in [Loads -> Load] /\ \A l \in Loads : LoadFits(load'[l])
<1>1. \A l \in Loads : load[l] \in Load /\ LoadFits(load[l])
  BY DEF BrowserInv, DashboardTypeOK, LoadsFit
<1>2. ASSUME MountAnew(t)
      PROVE  load' \in [Loads -> Load] /\ \A l \in Loads : LoadFits(load'[l])
  <2>1. load' = [l \in Loads |->
                  IF load[l].tab = t THEN [load[l] EXCEPT !.mounted = FALSE] ELSE load[l]]
    BY <1>2 DEF MountAnew
  <2>2. ASSUME NEW l \in Loads
        PROVE  load'[l] \in Load /\ LoadFits(load'[l])
    <3>1. CASE load[l].tab = t
      <4>1. load'[l] = [load[l] EXCEPT !.mounted = FALSE]
        BY <2>1, <3>1
      <4>2. [load[l] EXCEPT !.mounted = FALSE] \in Load /\ LoadFits([load[l] EXCEPT !.mounted = FALSE])
        BY <1>1, MountedAsBefore
      <4>3. QED
        BY <4>1, <4>2
    <3>2. CASE load[l].tab # t
      BY <1>1, <2>1, <3>2
    <3>3. QED
      BY <3>1, <3>2
  <2>3. QED
    BY <2>1, <2>2
<1>3. ASSUME LeaveForGoogle(t)
      PROVE  load' \in [Loads -> Load] /\ \A l \in Loads : LoadFits(load'[l])
  <2>1. load' = [l \in Loads |-> IF load[l].tab = t THEN NoLoad ELSE load[l]]
    BY <1>3 DEF LeaveForGoogle
  <2>2. QED
    BY <1>1, <2>1, NoLoadFits
<1>4. QED
  BY <1>2, <1>3

(* A request that is sent: without an answer, nothing is claimed of it. *)
LEMMA SendingKeepsLoads ==
  ASSUME BrowserInv, NEW l \in Loads, NEW t \in Tabs
  PROVE  LoadDashboard(l, t) \/ Submit(l, t) =>
           load' \in [Loads -> Load] /\ \A k \in Loads : LoadFits(load'[k])
<1>1. /\ \A k \in Loads : load[k] \in Load /\ LoadFits(load[k])
      /\ load \in [Loads -> Load] /\ stored \in Calls \cup {Nobody} /\ (stored # Nobody => tokens[stored] # Nobody)
  BY DEF BrowserInv, DashboardTypeOK, LoadsFit
<1>2. ASSUME NEW r \in Load, LoadFits(r), load' = [load EXCEPT ![l] = r]
      PROVE  load' \in [Loads -> Load] /\ \A k \in Loads : LoadFits(load'[k])
  BY <1>1, <1>2
<1>3. ASSUME LoadDashboard(l, t)
      PROVE  load' \in [Loads -> Load] /\ \A k \in Loads : LoadFits(load'[k])
  <2>1. load' = [load EXCEPT ![l] = Send(t, "lists", Nobody, Requests)]
    BY <1>3 DEF LoadDashboard, BeginLoad
  <2> DEFINE s == Send(t, "lists", Nobody, Requests)
  <2>2. s \in Load /\ s.phase = "lists" /\ s.token = stored /\ s.waiting = Requests
    BY <1>1, RequestsAssumption DEF Send, Load, Nothing
  <2> HIDE DEF s
  <2>3. LoadFits(s)
    BY <1>1, <2>2, RequestsAssumption DEF LoadFits
  <2>4. QED
    BY <1>2, <2>1, <2>2, <2>3 DEF s
<1>4. ASSUME Submit(l, t)
      PROVE  load' \in [Loads -> Load] /\ \A k \in Loads : LoadFits(load'[k])
  <2>1. PICK v \in screen[t].fleet : load' = [load EXCEPT ![l] = Send(t, "submit", v, 1)]
    BY <1>4 DEF Submit
  <2>2. v \in Vehicles
    BY DEF BrowserInv, DashboardTypeOK, Screen
  <2> DEFINE s == Send(t, "submit", v, 1)
  <2>3. s \in Load /\ s.phase = "submit" /\ s.token = stored /\ s.of = v
    BY <1>1, <2>2 DEF Send, Load, Nothing
  <2> HIDE DEF s
  <2>4. LoadFits(s)
    BY <1>1, <2>2, <2>3 DEF LoadFits
  <2>5. QED
    BY <1>2, <2>1, <2>3, <2>4 DEF s
<1>5. QED
  BY <1>3, <1>4

(* An organization without a vehicle has an empty fleet. *)
LEMMA FleetsAreFinite ==
  ASSUME NEW o
  PROVE  /\ Cardinality(FleetOf(o)) \in Nat
         /\ Cardinality(FleetOf(o)) = 0 => FleetOf(o) = {}
<1>1. FleetOf(o) \subseteq Vehicles /\ IsFiniteSet(Vehicles)
  BY VehiclesAssumption DEF FleetOf
<1>2. IsFiniteSet(FleetOf(o))
  BY <1>1, FS_Subset
<1>3. QED
  BY <1>2, FS_CardinalityType, FS_EmptySet

(* An accepted request carries a token that was issued. *)
LEMMA AcceptedHasToken ==
  ASSUME BrowserInv, NEW l \in Loads, Accepted(l)
  PROVE  /\ load[l].token \in Calls /\ tokens[load[l].token] # Nobody
         /\ OrganizationOfToken(load[l].token) \in Organization
<1>1. load[l] \in Load /\ LoadFits(load[l]) /\ load[l].token # Nobody
  BY DEF BrowserInv, DashboardTypeOK, LoadsFit, Accepted, Forbidden
<1>2. load[l].token \in Calls /\ tokens[load[l].token] # Nobody
  BY <1>1 DEF Load, LoadFits
<1>3. QED
  BY <1>2, TokensKeepOrganization DEF BrowserInv

(* An answer: without a fault it says that the request was accepted and what it *)
(* was about found.                                                            *)
LEMMA AnsweringKeepsLoads ==
  ASSUME BrowserInv, NEW l \in Loads, Answer(l)
  PROVE  load' \in [Loads -> Load] /\ \A k \in Loads : LoadFits(load'[k])
<1>1. /\ \A k \in Loads : load[k] \in Load /\ LoadFits(load[k])
      /\ load \in [Loads -> Load]
  BY DEF BrowserInv, DashboardTypeOK, LoadsFit
<1>2. CASE load' = [load EXCEPT ![l] = NoLoad]
  BY <1>1, <1>2, NoLoadFits
<1>3. CASE load' = [load EXCEPT ![l].waiting = @ - 1, ![l].failed = @ \/ ~(Accepted(l) /\ Found(l))]
  <2> DEFINE s == load'[l]
  <2>1. load[l].waiting > 0 /\ load[l].waiting \in Nat /\ load[l].failed \in BOOLEAN
    BY <1>1 DEF Answer, Load
  <2>2. (Accepted(l) /\ Found(l)) \in BOOLEAN
    BY DEF Accepted, Forbidden
  <2> DEFINE n == load[l].waiting - 1
             b == load[l].failed \/ ~(Accepted(l) /\ Found(l))
             r == load[l]
  <2>3. s = [r EXCEPT !.waiting = n, !.failed = b]
    BY <1>1, <1>3
  <2>4. /\ s \in Load /\ s.token = load[l].token /\ s.phase = load[l].phase /\ s.of = load[l].of
        /\ s.failed = b
    <3>1. n \in Nat /\ b \in BOOLEAN /\ r \in Load
      BY <1>1, <2>1
    <3> HIDE DEF n, b, s, r
    <3>2. /\ s \in Load /\ s.token = r.token /\ s.phase = r.phase /\ s.of = r.of
          /\ s.failed = b
      BY <2>3, <3>1 DEF Load
    <3>3. QED
      BY <3>2 DEF r
  <2>5. \A k \in Loads \ {l} : load'[k] = load[k]
    BY <1>1, <1>3
  <2>6. load' \in [Loads -> Load]
    <3>1. DOMAIN load' = Loads /\ load' = [k \in Loads |-> load'[k]]
      BY <1>1, <1>3
    <3>2. QED
      BY <1>1, <2>4, <2>5, <3>1
  <2> HIDE DEF s
  <2>7. ~s.failed => /\ load[l].token # Nobody
                     /\ load[l].phase = "financials" => \A v \in FleetOf(load[l].of) : Finds(l, v)
    <3>1. ~s.failed => Accepted(l) /\ Found(l)
      BY <2>4
    <3>2. QED
      BY <3>1 DEF Accepted, Forbidden, Found
  <2>8. LoadFits(load[l])
    BY <1>1
  <2>9. LoadFits(s)
    BY <2>4, <2>7, <2>8 DEF LoadFits, Finds
  <2>10. QED
    BY <1>1, <2>5, <2>6, <2>9 DEF s
<1>4. QED
  BY <1>2, <1>3 DEF Answer

(* A load that fails or is shown keeps the loads fitting. *)
LEMMA EndingKeepsLoads ==
  ASSUME BrowserInv, NEW l \in Loads, FailLoad(l) \/ ShowDashboard(l)
  PROVE  load' \in [Loads -> Load] /\ \A k \in Loads : LoadFits(load'[k])
<1>1. /\ \A k \in Loads : load[k] \in Load /\ LoadFits(load[k])
      /\ load \in [Loads -> Load]
  BY DEF BrowserInv, DashboardTypeOK, LoadsFit
<1>2. \E n \in Nat : EndLoad(l, n)
  <2>1. load[l].waiting \in Nat
    BY <1>1 DEF Load
  <2>2. CASE FailLoad(l)
    <3>1. load[l].waiting > 0 => load[l].waiting - 1 \in Nat
      BY <2>1
    <3>2. QED
      BY <2>1, <2>2, <3>1 DEF FailLoad
  <2>3. CASE ShowDashboard(l)
    BY <2>3 DEF ShowDashboard
  <2>4. QED
    BY <2>2, <2>3
<1>3. PICK n \in Nat : load' = [load EXCEPT ![l] =
                                  IF n = 0 THEN NoLoad ELSE [@ EXCEPT !.phase = "ended", !.waiting = n]]
  BY <1>2 DEF EndLoad
<1> DEFINE s == [load[l] EXCEPT !.phase = "ended", !.waiting = n]
<1>4. load' = [load EXCEPT ![l] = IF n = 0 THEN NoLoad ELSE s]
  BY <1>3
<1>5. s \in Load /\ LoadFits(s)
  BY <1>1, EndedLoadFits
<1> HIDE DEF s
<1>6. QED
  BY <1>1, <1>4, <1>5, NoLoadFits

(* The summaries are asked for one organisation; none has been answered yet. *)
LEMMA AskingKeepsLoads ==
  ASSUME BrowserInv, NEW l \in Loads, AskFinancials(l)
  PROVE  load' \in [Loads -> Load] /\ \A k \in Loads : LoadFits(load'[k])
<1>1. /\ \A k \in Loads : load[k] \in Load /\ LoadFits(load[k])
      /\ load \in [Loads -> Load] /\ stored \in Calls \cup {Nobody} /\ (stored # Nobody => tokens[stored] # Nobody)
  BY DEF BrowserInv, DashboardTypeOK, LoadsFit
<1> DEFINE o == OrganizationOfToken(load[l].token)
           m == Cardinality(FleetOf(o))
           q == Send(load[l].tab, "financials", o, m)
           s == [q EXCEPT !.mounted = load[l].mounted]
<1>2. load' = [load EXCEPT ![l] = s]
  BY DEF AskFinancials
<1>3. load[l].token # Nobody
  <2>1. load[l].phase = "lists" /\ load[l].waiting = 0 /\ ~load[l].failed
    BY DEF AskFinancials
  <2>2. QED
    BY <1>1, <2>1, RequestsAssumption DEF LoadFits
<1>4. o \in Organization
  <2>1. load[l].token \in Calls /\ tokens[load[l].token] # Nobody
    BY <1>1, <1>3 DEF Load, LoadFits
  <2>2. QED
    BY <2>1, TokensKeepOrganization DEF BrowserInv
<1>5. m \in Nat /\ load[l].mounted \in BOOLEAN /\ load[l].tab \in Tabs \cup {Nobody}
  BY <1>1, FleetsAreFinite DEF Load
<1> HIDE DEF o
<1>6. /\ q \in Load /\ q.phase = "financials" /\ q.token = stored /\ q.of = o
      /\ q.waiting = Cardinality(FleetOf(o))
  BY <1>1, <1>4, <1>5 DEF Send, Load, Nothing
<1> HIDE DEF m, q
<1>7. LoadFits(q)
  <2>1. Cardinality(FleetOf(o)) \in Nat
    BY FleetsAreFinite
  <2>2. QED
    BY <1>1, <1>4, <1>6, <2>1 DEF LoadFits
<1>8. s \in Load /\ LoadFits(s)
  BY <1>5, <1>6, <1>7, MountedAsBefore
<1> HIDE DEF s
<1>9. QED
  BY <1>1, <1>2, <1>8

(* After a submission the tab loads again, with the token of now. *)
LEMMA SubmittingKeepsLoads ==
  ASSUME BrowserInv, NEW l \in Loads, AnswerSubmit(l)
  PROVE  load' \in [Loads -> Load] /\ \A k \in Loads : LoadFits(load'[k])
<1>1. /\ \A k \in Loads : load[k] \in Load /\ LoadFits(load[k])
      /\ load \in [Loads -> Load] /\ stored \in Calls \cup {Nobody} /\ (stored # Nobody => tokens[stored] # Nobody)
  BY DEF BrowserInv, DashboardTypeOK, LoadsFit
<1> DEFINE q == Send(load[l].tab, "lists", Nobody, Requests)
           s == [q EXCEPT !.mounted = load[l].mounted]
<1>2. load' = [load EXCEPT ![l] = NoLoad] \/ load' = [load EXCEPT ![l] = s]
  BY DEF AnswerSubmit
<1>3. load[l].mounted \in BOOLEAN /\ load[l].tab \in Tabs \cup {Nobody}
  BY <1>1 DEF Load
<1>4. /\ q \in Load /\ q.phase = "lists" /\ q.token = stored /\ q.waiting = Requests
  BY <1>1, <1>3, RequestsAssumption DEF Send, Load, Nothing
<1> HIDE DEF q
<1>5. LoadFits(q)
  BY <1>1, <1>4, RequestsAssumption DEF LoadFits
<1>6. s \in Load /\ LoadFits(s)
  BY <1>3, <1>4, <1>5, MountedAsBefore
<1> HIDE DEF s
<1>7. QED
  BY <1>1, <1>2, <1>6, NoLoadFits

(* What is known of the loads stays known, whatever happens. *)
LEMMA LoadsKeepFit ==
  ASSUME BrowserInv, [DashboardNext]_vars
  PROVE  load' \in [Loads -> Load] /\ LoadsFit'
<1>1. /\ \A k \in Loads : load[k] \in Load /\ LoadFits(load[k])
      /\ load \in [Loads -> Load]
  BY DEF BrowserInv, DashboardTypeOK, LoadsFit
<1>2. ASSUME NEW t \in Tabs, Visit(t), ~Navigate(t), ~LeaveForGoogle(t)
      PROVE  UNCHANGED load
  BY <1>2 DEF Visit, Restore, Exchange, SubmitLogin, TakeAnswer, Callback, Return, GiveUp, PressSignOut
<1>3. ASSUME NEW t \in Tabs, Navigate(t) \/ LeaveForGoogle(t)
      PROVE  load' \in [Loads -> Load] /\ \A l \in Loads : LoadFits(load'[l])
  BY <1>3, LeavingKeepsLoads DEF Navigate
<1>4. ASSUME NEW l \in Loads, NEW t \in Tabs, LoadDashboard(l, t) \/ Submit(l, t)
      PROVE  load' \in [Loads -> Load] /\ \A k \in Loads : LoadFits(load'[k])
  BY <1>4, SendingKeepsLoads
<1>5. ASSUME NEW l \in Loads, Proceed(l)
      PROVE  load' \in [Loads -> Load] /\ \A k \in Loads : LoadFits(load'[k])
  BY <1>5, AnsweringKeepsLoads, EndingKeepsLoads, AskingKeepsLoads, SubmittingKeepsLoads DEF Proceed
<1>6. ASSUME UNCHANGED load
      PROVE  load' \in [Loads -> Load] /\ \A k \in Loads : LoadFits(load'[k])
  BY <1>1, <1>6
<1>7. load' \in [Loads -> Load] /\ \A l \in Loads : LoadFits(load'[l])
  <2>1. CASE Server \/ UNCHANGED vars
    BY <1>6, <2>1 DEF Server, vars
  <2>2. CASE \E t \in Tabs : Visit(t)
    BY <1>2, <1>3, <1>6, <2>2
  <2>3. CASE \E l \in Loads, t \in Tabs : LoadDashboard(l, t) \/ Submit(l, t)
    BY <1>4, <2>3
  <2>4. CASE \E l \in Loads : Proceed(l)
    BY <1>5, <2>4
  <2>5. QED
    BY <2>1, <2>2, <2>3, <2>4 DEF DashboardNext
<1>8. QED
  BY <1>7, LoadsStayFit, BrowserStepsAreCalls DEF BrowserInv

(* What a tab shows: a fleet with figures of its own organisation, or nothing. *)
ScreenFits(s) ==
  /\ s \in Screen
  /\ s.session = Nobody => s.fleet = {}
  /\ s.session # Nobody => /\ s.fleet = FleetOf(s.session)
                           /\ s.financials \in {s.session, Nobody}

(* The screen of a new tab shows nothing ... *)
LEMMA BlankFits == ScreenFits(Blank)
BY DEF ScreenFits, Blank, Screen, Nothing

(* ... and signing out clears it. *)
LEMMA SignedOutFits ==
  ASSUME NEW s, ScreenFits(s)
  PROVE  ScreenFits(SignedOut(s))
<1> DEFINE z == [s EXCEPT !.session = Nobody, !.fleet = {}]
<1>1. z \in Screen /\ z.session = Nobody /\ z.fleet = {}
  BY DEF ScreenFits, Screen, Nothing
<1> HIDE DEF z
<1>2. ScreenFits(z)
  BY <1>1 DEF ScreenFits
<1>3. QED
  BY <1>2 DEF z, SignedOut

(* All lists and all summaries have been answered to tokens of one             *)
(* organisation before anything is shown.                                      *)
LEMMA ShownFits ==
  ASSUME BrowserInv, NEW l \in Loads, load[l].phase = "financials", load[l].waiting = 0, ~load[l].failed
  PROVE  ScreenFits(Shown(l))
<1> DEFINE o == load[l].of
           f == IF FleetOf(o) = {} THEN Nobody ELSE OrganizationOfToken(load[l].token)
<1>1. load[l] \in Load /\ LoadFits(load[l])
  BY DEF BrowserInv, DashboardTypeOK, LoadsFit
<1>2. o \in Organization /\ o # Nobody
  BY <1>1, NamesAssumption DEF LoadFits
<1>3. f \in {o, Nobody}
  <2>1. CASE FleetOf(o) = {}
    BY <2>1
  <2>2. CASE FleetOf(o) # {}
    <3>1. 0 < Cardinality(FleetOf(o))
      BY <2>2, FleetsAreFinite
    <3>2. \A v \in FleetOf(o) : Owner[v] = OrganizationOfToken(load[l].token)
      BY <1>1, <3>1 DEF LoadFits
    <3>3. PICK v \in FleetOf(o) : TRUE
      BY <2>2
    <3>4. Owner[v] = o
      BY DEF FleetOf
    <3>5. QED
      BY <2>2, <3>2, <3>3, <3>4
  <2>3. QED
    BY <2>1, <2>2
<1>4. FleetOf(o) \subseteq Vehicles
  BY DEF FleetOf
<1>5. Shown(l) = [session |-> o, fleet |-> FleetOf(o), financials |-> f]
  BY DEF Shown
<1> HIDE DEF o, f
<1>6. QED
  BY <1>2, <1>3, <1>4, <1>5 DEF ScreenFits, Screen, Nothing

(* Every screen goes on to show one organization's data. *)
LEMMA ScreensStay ==
  ASSUME BrowserInv, ScreenIsOfOneOrganization, [DashboardNext]_vars
  PROVE  screen' \in [Tabs -> Screen] /\ ScreenIsOfOneOrganization'
<1>1. screen \in [Tabs -> Screen] /\ \A t \in Tabs : ScreenFits(screen[t])
  BY DEF BrowserInv, DashboardTypeOK, ScreenIsOfOneOrganization, ScreenFits
<1>2. SUFFICES screen' \in [Tabs -> Screen] /\ \A t \in Tabs : ScreenFits(screen'[t])
  BY DEF ScreenIsOfOneOrganization, ScreenFits, FleetOf
<1>3. ASSUME NEW t, NEW s, ScreenFits(s), screen' = [screen EXCEPT ![t] = s]
      PROVE  screen' \in [Tabs -> Screen] /\ \A u \in Tabs : ScreenFits(screen'[u])
  BY <1>1, <1>3 DEF ScreenFits
<1>4. ASSUME NEW t, SignOut(t)
      PROVE  screen' \in [Tabs -> Screen] /\ \A u \in Tabs : ScreenFits(screen'[u])
  <2>1. screen' = [screen EXCEPT ![t] = SignedOut(screen[t])]
    BY <1>4 DEF SignOut
  <2>2. CASE t \in Tabs
    BY <1>1, <1>3, <2>1, <2>2, SignedOutFits
  <2>3. CASE t \notin Tabs
    <3>1. screen' = screen
      BY <1>1, <2>1, <2>3
    <3>2. QED
      BY <1>1, <3>1
  <2>4. QED
    BY <2>2, <2>3
<1>5. ASSUME UNCHANGED screen
      PROVE  screen' \in [Tabs -> Screen] /\ \A u \in Tabs : ScreenFits(screen'[u])
  BY <1>1, <1>5
<1>6. ASSUME NEW t \in Tabs, Visit(t)
      PROVE  UNCHANGED screen \/ screen' = [screen EXCEPT ![t] = Blank] \/ SignOut(t)
  BY <1>6 DEF Visit, Navigate, MountAnew, Restore, Exchange, SubmitLogin, TakeAnswer, LeaveForGoogle, Callback,
     Return, GiveUp, PressSignOut, tab
<1>7. ASSUME NEW l \in Loads, Proceed(l)
      PROVE  \/ UNCHANGED screen \/ SignOut(load[l].tab)
             \/ /\ load[l].phase = "financials" /\ load[l].waiting = 0 /\ ~load[l].failed
                /\ screen' = [screen EXCEPT ![load[l].tab] = Shown(l)]
  BY <1>7 DEF Proceed, Answer, FailLoad, AskFinancials, ShowDashboard, AnswerSubmit, tab
<1>8. CASE Server \/ UNCHANGED vars \/ \E l \in Loads, t \in Tabs : LoadDashboard(l, t) \/ Submit(l, t)
  <2>1. UNCHANGED screen
    BY <1>8 DEF Server, vars, tab, LoadDashboard, Submit
  <2>2. QED
    BY <1>5, <2>1
<1>9. CASE \E t \in Tabs : Visit(t)
  BY <1>3, <1>4, <1>5, <1>6, <1>9, BlankFits
<1>10. CASE \E l \in Loads : Proceed(l)
  BY <1>3, <1>4, <1>5, <1>7, <1>10, ShownFits
<1>11. QED
  BY <1>8, <1>9, <1>10 DEF DashboardNext

(* The server looks the vehicle up among those of the organisation of the token. *)
LEMMA WritesStay ==
  ASSUME BrowserInv, WritesStayAtHome, [DashboardNext]_vars
  PROVE  written' \subseteq Vehicles \X Organization /\ WritesStayAtHome'
<1>1. written \subseteq Vehicles \X Organization
  BY DEF BrowserInv, DashboardTypeOK
<1>2. CASE UNCHANGED written
  BY <1>1, <1>2 DEF WritesStayAtHome
<1>3. ASSUME NEW l \in Loads, AnswerSubmit(l), written' # written
      PROVE  written' \subseteq Vehicles \X Organization /\ WritesStayAtHome'
  <2> DEFINE o == OrganizationOfToken(load[l].token)
  <2>1. Accepted(l) /\ Found(l) /\ load[l].phase = "submit" /\ written' = written \cup {<<load[l].of, o>>}
    BY <1>3 DEF AnswerSubmit
  <2>2. load[l].of \in Vehicles /\ Owner[load[l].of] = o
    BY <2>1 DEF BrowserInv, LoadsFit, LoadFits, Found, Finds
  <2>3. o \in Organization
    BY <2>1, AcceptedHasToken
  <2> HIDE DEF o
  <2>4. QED
    BY <1>1, <2>1, <2>2, <2>3 DEF WritesStayAtHome
<1>4. ASSUME NEW l \in Loads, Proceed(l), ~AnswerSubmit(l)
      PROVE  UNCHANGED written
  BY <1>4 DEF Proceed, Answer, FailLoad, AskFinancials, ShowDashboard
<1>5. ASSUME NEW t \in Tabs, Visit(t)
      PROVE  UNCHANGED written
  BY <1>5 DEF Visit, Navigate, Restore, Exchange, SubmitLogin, TakeAnswer, LeaveForGoogle, Callback,
     Return, GiveUp, PressSignOut
<1>6. CASE Server \/ UNCHANGED vars \/ \E l \in Loads, t \in Tabs : LoadDashboard(l, t) \/ Submit(l, t)
  BY <1>2, <1>6 DEF Server, vars, LoadDashboard, Submit
<1>7. QED
  BY <1>2, <1>3, <1>4, <1>5, <1>6 DEF DashboardNext

(* A load of the present component, which will say that it is over. *)
IsCause(r, t) == r.tab = t /\ r.mounted /\ r.phase \in {"lists", "financials"}

(* A screen that is loading goes on to have a load under way. *)
LEMMA LoadingKeepsItsCause ==
  ASSUME BrowserInv, LoadingHasACause, [DashboardNext]_vars
  PROVE  LoadingHasACause'
<1>0. /\ \A l \in Loads : load[l] \in Load
      /\ load \in [Loads -> Load] /\ loading \in [Tabs -> BOOLEAN] /\ authenticated \in [Tabs -> BOOLEAN]
      /\ due \in [Tabs -> BOOLEAN]
      /\ \A t \in Tabs : /\ authenticated[t] => page[t] = "shown"
                         /\ due[t] => authenticated[t]
      /\ ~NoLoad.mounted /\ NoLoad.phase = "ended"
  BY DEF BrowserInv, DashboardTypeOK, NoLoad
<1> SUFFICES ASSUME NEW t \in Tabs, authenticated'[t], loading'[t], ~due'[t]
             PROVE  \E l \in Loads : IsCause(load'[l], t)
  BY DEF LoadingHasACause, IsCause
<1>1. authenticated[t] /\ loading[t] /\ ~due[t] => \E l \in Loads : IsCause(load[l], t)
  BY DEF LoadingHasACause, IsCause
<1>2. ASSUME authenticated[t], loading[t], ~due[t], \A l \in Loads : IsCause(load[l], t) => IsCause(load'[l], t)
      PROVE  \E l \in Loads : IsCause(load'[l], t)
  BY <1>1, <1>2
<1>3. ASSUME UNCHANGED load, authenticated[t], loading[t], ~due[t]
      PROVE  \E l \in Loads : IsCause(load'[l], t)
  BY <1>1, <1>3 DEF IsCause
<1>4. ASSUME NEW s \in Tabs, Navigate(s)
      PROVE  \E l \in Loads : IsCause(load'[l], t)
  <2>1. s # t /\ authenticated[t] /\ loading[t] /\ ~due[t]
    BY <1>0, <1>4 DEF Navigate, MountAnew
  <2>2. \A l \in Loads : load[l].tab = t => load'[l] = load[l]
    BY <1>4, <2>1 DEF Navigate, MountAnew
  <2>3. QED
    BY <1>2, <2>1, <2>2 DEF IsCause
<1>5. ASSUME NEW s \in Tabs, LeaveForGoogle(s)
      PROVE  \E l \in Loads : IsCause(load'[l], t)
  <2>1. s # t /\ authenticated[t] /\ loading[t] /\ ~due[t]
    BY <1>0, <1>5 DEF LeaveForGoogle
  <2>2. \A l \in Loads : load[l].tab = t => load'[l] = load[l]
    BY <1>5, <2>1 DEF LeaveForGoogle
  <2>3. QED
    BY <1>2, <2>1, <2>2 DEF IsCause
<1>6. ASSUME NEW s \in Tabs, Restore(s) \/ TakeAnswer(s)
      PROVE  \E l \in Loads : IsCause(load'[l], t)
  <2>1. UNCHANGED <<load, loading>> /\ (Authenticate(s) \/ UNCHANGED <<authenticated, due>>)
    BY <1>6 DEF Restore, TakeAnswer
  <2>2. authenticated[t] /\ ~due[t]
    BY <1>0, <2>1 DEF Authenticate
  <2>3. QED
    BY <1>3, <2>1, <2>2
<1>7. ASSUME NEW s \in Tabs, Exchange(s) \/ SubmitLogin(s) \/ Callback(s) \/ PressSignOut(s)
      PROVE  \E l \in Loads : IsCause(load'[l], t)
  <2>1. authenticated[t] /\ ~due[t] /\ UNCHANGED <<load, loading>>
    BY <1>0, <1>7 DEF Exchange, SubmitLogin, Callback, PressSignOut, SignOut, tab
  <2>2. QED
    BY <1>3, <2>1
<1>8. ASSUME NEW s \in Tabs, Return(s) \/ GiveUp(s)
      PROVE  \E l \in Loads : IsCause(load'[l], t)
  <2>1. s # t /\ authenticated[t] /\ loading[t] /\ ~due[t] /\ UNCHANGED load
    BY <1>0, <1>8 DEF Return, GiveUp
  <2>2. QED
    BY <1>3, <2>1
<1>9. ASSUME NEW l \in Loads, NEW s \in Tabs, LoadDashboard(l, s)
      PROVE  \E k \in Loads : IsCause(load'[k], t)
  <2>1. load' = [load EXCEPT ![l] = Send(s, "lists", Nobody, Requests)] /\ ~IsCause(load[l], t)
    BY <1>0, <1>9 DEF LoadDashboard, BeginLoad, IsFree, IsCause
  <2>2. CASE s = t
    <3>1. IsCause(load'[l], t)
      BY <1>0, <2>1, <2>2 DEF Send, IsCause
    <3>2. QED
      BY <3>1
  <2>3. CASE s # t
    <3>1. authenticated[t] /\ loading[t] /\ ~due[t]
      BY <1>0, <1>9, <2>3 DEF LoadDashboard, BeginLoad
    <3>2. \A k \in Loads : IsCause(load[k], t) => IsCause(load'[k], t)
      BY <1>0, <2>1 DEF IsCause
    <3>3. QED
      BY <1>2, <3>1, <3>2
  <2>4. QED
    BY <2>2, <2>3
<1>10. ASSUME NEW l \in Loads, NEW s \in Tabs, Submit(l, s)
       PROVE  \E k \in Loads : IsCause(load'[k], t)
  <2>1. /\ ~IsCause(load[l], t) /\ \A k \in Loads \ {l} : load'[k] = load[k]
        /\ authenticated[t] /\ loading[t] /\ ~due[t]
    BY <1>0, <1>10 DEF Submit, IsFree, IsCause, tab
  <2>2. QED
    BY <1>2, <2>1 DEF IsCause
<1>11. ASSUME NEW l \in Loads, Answer(l)
       PROVE  \E k \in Loads : IsCause(load'[k], t)
  <2>1. authenticated[t] /\ loading[t] /\ ~due[t]
    BY <1>0, <1>11 DEF Answer, SignOut
  <2>2. \A k \in Loads \ {l} : load'[k] = load[k]
    BY <1>0, <1>11 DEF Answer
  <2>3. IsCause(load[l], t) => IsCause(load'[l], t)
    <3>1. CASE load' = [load EXCEPT ![l] = NoLoad] /\ load[l].phase = "ended"
      BY <3>1 DEF IsCause
    <3>2. CASE load' = [load EXCEPT ![l].waiting = @ - 1, ![l].failed = @ \/ ~(Accepted(l) /\ Found(l))]
      <4> DEFINE n == load[l].waiting - 1
                 b == load[l].failed \/ ~(Accepted(l) /\ Found(l))
                 r == load[l]
                 q == load'[l]
      <4>1. q = [r EXCEPT !.waiting = n, !.failed = b] /\ r \in Load
        BY <1>0, <3>2
      <4> HIDE DEF n, b, q, r
      <4>2. q.tab = r.tab /\ q.mounted = r.mounted /\ q.phase = r.phase
        BY <4>1 DEF Load
      <4>3. QED
        BY <4>2 DEF IsCause, q, r
    <3>3. QED
      BY <1>11, <3>1, <3>2 DEF Answer
  <2>4. QED
    BY <1>2, <2>1, <2>2, <2>3 DEF IsCause
<1>12. ASSUME NEW l \in Loads, FailLoad(l) \/ ShowDashboard(l)
       PROVE  \E k \in Loads : IsCause(load'[k], t)
  <2>1. PICK n : EndLoad(l, n)
    BY <1>12 DEF FailLoad, ShowDashboard
  <2>2. UNCHANGED <<authenticated, due>>
    BY <1>12 DEF FailLoad, ShowDashboard
  <2>3. loading[t] /\ ~IsCause(load[l], t)
    BY <1>0, <2>1 DEF EndLoad, NoLongerLoading, IsCause
  <2>4. \A k \in Loads \ {l} : load'[k] = load[k]
    BY <1>0, <2>1 DEF EndLoad
  <2>5. QED
    BY <1>2, <2>2, <2>3, <2>4 DEF IsCause
<1>13. ASSUME NEW l \in Loads, AskFinancials(l)
       PROVE  \E k \in Loads : IsCause(load'[k], t)
  <2> DEFINE o == OrganizationOfToken(load[l].token)
             q == Send(load[l].tab, "financials", o, Cardinality(FleetOf(o)))
  <2>1. load' = [load EXCEPT ![l] = [q EXCEPT !.mounted = load[l].mounted]]
        /\ UNCHANGED <<authenticated, loading, due>>
    BY <1>13 DEF AskFinancials, tab
  <2>2. \A k \in Loads \ {l} : load'[k] = load[k]
    BY <1>0, <2>1
  <2>3. /\ load'[l] = [q EXCEPT !.mounted = load[l].mounted]
        /\ q = [tab |-> load[l].tab, phase |-> "financials", token |-> stored, of |-> o,
                waiting |-> Cardinality(FleetOf(o)), failed |-> FALSE, mounted |-> TRUE]
    BY <1>0, <2>1 DEF Send
  <2> HIDE DEF o, q
  <2>4. load'[l].tab = load[l].tab /\ load'[l].mounted = load[l].mounted /\ load'[l].phase = "financials"
    BY <2>3
  <2>5. IsCause(load[l], t) => IsCause(load'[l], t)
    BY <2>4 DEF IsCause
  <2>6. QED
    BY <1>2, <2>1, <2>2, <2>5 DEF IsCause
<1>14. ASSUME NEW l \in Loads, AnswerSubmit(l)
       PROVE  \E k \in Loads : IsCause(load'[k], t)
  <2>1. load[l].phase = "submit" /\ ~IsCause(load[l], t) /\ authenticated[t] /\ ~due[t]
    BY <1>0, <1>14 DEF AnswerSubmit, SignOut, IsCause
  <2>2. \A k \in Loads \ {l} : load'[k] = load[k]
    BY <1>0, <1>14 DEF AnswerSubmit
  <2>3. CASE loading[t]
    BY <1>2, <2>1, <2>2, <2>3 DEF IsCause
  <2>4. CASE ~loading[t]
    <3> DEFINE q == Send(load[l].tab, "lists", Nobody, Requests)
    <3>1. /\ load' = [load EXCEPT ![l] = [q EXCEPT !.mounted = load[l].mounted]]
          /\ loading' = [loading EXCEPT ![load[l].tab] = @ \/ load[l].mounted]
      BY <1>14, <2>4 DEF AnswerSubmit
    <3>2. load[l].tab = t /\ load[l].mounted
      BY <1>0, <2>4, <3>1
    <3>3. /\ load'[l] = [q EXCEPT !.mounted = load[l].mounted]
          /\ q = [tab |-> load[l].tab, phase |-> "lists", token |-> stored, of |-> Nobody,
                  waiting |-> Requests, failed |-> FALSE, mounted |-> TRUE]
      BY <1>0, <3>1 DEF Send
    <3> HIDE DEF q
    <3>4. load'[l].tab = load[l].tab /\ load'[l].mounted = load[l].mounted /\ load'[l].phase = "lists"
      BY <3>3
    <3>5. QED
      BY <3>2, <3>4 DEF IsCause
  <2>5. QED
    BY <2>3, <2>4
<1>15. CASE Server \/ UNCHANGED vars
  <2>1. UNCHANGED <<load, authenticated, loading, due>>
    BY <1>15 DEF Server, vars, tab
  <2>2. QED
    BY <1>3, <2>1
<1>16. QED
  BY <1>4, <1>5, <1>6, <1>7, <1>8, <1>9, <1>10, <1>11, <1>12, <1>13, <1>14, <1>15
  DEF DashboardNext, Visit, Proceed

(* Every step of the browser or the server keeps the invariant ... *)
LEMMA DashboardStep ==
  ASSUME DashboardInv, [DashboardNext]_vars
  PROVE  DashboardInv'
<1>1. [Next]_server
  BY BrowserStepsAreCalls DEF DashboardInv, BrowserInv
<1>2. SessionsInv'
  BY <1>1, SessionsStep DEF DashboardInv, BrowserInv
<1>3. TypeOK'
  BY <1>2 DEF SessionsInv, LinkInv, AccountsInv
<1>4. TabTypes' /\ TabsFit'
  BY TabTypesStay DEF DashboardInv
<1>5. load' \in [Loads -> Load] /\ LoadsFit'
  BY LoadsKeepFit DEF DashboardInv
<1>6. screen' \in [Tabs -> Screen] /\ ScreenIsOfOneOrganization'
  BY ScreensStay DEF DashboardInv
<1>7. written' \subseteq Vehicles \X Organization /\ WritesStayAtHome'
  BY WritesStay DEF DashboardInv
<1>8. LoadingHasACause'
  BY LoadingKeepsItsCause DEF DashboardInv
<1>9. DashboardTypeOK'
  BY <1>3, <1>4, <1>5, <1>6, <1>7 DEF DashboardTypeOK, TabTypes
<1>10. QED
  BY <1>2, <1>4, <1>5, <1>6, <1>7, <1>8, <1>9 DEF DashboardInv, BrowserInv

(* ... which holds at first. *)
LEMMA DashboardStart == DashboardInit => DashboardInv
<1> SUFFICES ASSUME DashboardInit
             PROVE  DashboardInv
  OBVIOUS
<1>1. SessionsInv /\ TypeOK
  BY SessionsInit DEF DashboardInit, SessionsInv, LinkInv, AccountsInv
<1>2. Blank \in Screen /\ Blank.session = Nobody /\ Blank.fleet = {}
  BY DEF Blank, Screen, Nothing
<1>3. NoLoad \in Load /\ LoadFits(NoLoad)
  BY NoLoadFits
<1>4. DashboardTypeOK
  BY <1>1, <1>2, <1>3 DEF DashboardInit, DashboardTypeOK
<1>5. TabsFit /\ LoadsFit
  BY <1>3 DEF DashboardInit, TabsFit, LoadsFit
<1>6. ScreenIsOfOneOrganization
  BY <1>2 DEF DashboardInit, ScreenIsOfOneOrganization
<1>7. WritesStayAtHome /\ LoadingHasACause
  BY DEF DashboardInit, WritesStayAtHome, LoadingHasACause
<1>8. QED
  BY <1>1, <1>4, <1>5, <1>6, <1>7 DEF DashboardInv, BrowserInv

(* Every reachable state of the server with its browser satisfies the          *)
(* inductive invariant: loads, submissions and tabs fit the accounts, vehicles *)
(* and tokens they rest on.                                                    *)
THEOREM DashboardHolds == DashboardSpec => []DashboardInv
BY DashboardStart, DashboardStep, PTL DEF DashboardSpec

-----------------------------------------------------------------------------
(* What a browser does to the server is what Sessions allows: OperationsDashboard *)
(* adds nothing to the interleavings of the calls.                                *)
THEOREM DashboardImplementsSessions == DashboardSpec => Spec
<1>1. DashboardInit => Init
  BY DEF DashboardInit
<1>2. DashboardInv /\ [DashboardNext]_vars => [Next]_server
  BY BrowserStepsAreCalls DEF DashboardInv, BrowserInv
<1>3. QED
  BY <1>1, <1>2, DashboardHolds, PTL DEF DashboardSpec, Spec

(* Every variable of the server and of the browser keeps its type. *)
THEOREM DashboardTypes == DashboardSpec => []DashboardTypeOK
<1>1. DashboardInv => DashboardTypeOK
  BY DEF DashboardInv, BrowserInv
<1>2. QED
  BY <1>1, DashboardHolds, PTL

(* Registrations, new users and a starting server never leave an organisation  *)
(* without an account, or two accounts with one address.                       *)
THEOREM AccountsStayWholeAlways == DashboardSpec => []AccountsAreWhole
<1>1. SessionsInv => AccountsAreWhole
  BY DEF SessionsInv, LinkInv, AccountsInv, TypeOK
<1>2. QED
  BY <1>1, SessionsHold, DashboardImplementsSessions, PTL

(* However many exchanges present a code, one token at most is issued for it,  *)
(* and that for the account Google vouched for.                                *)
THEOREM OneTokenPerCode == DashboardSpec => []CodeIssuesOneToken
<1>1. SessionsInv => CodeIssuesOneToken
  BY DEF SessionsInv
<1>2. QED
  BY <1>1, SessionsHold, DashboardImplementsSessions, PTL

(* An account that is linked to a Google subject stays linked to it. *)
THEOREM LinksNeverChange == DashboardSpec => LinksAreFinal
<1>1. SessionsInv /\ [Next]_server => [\A c \in Calls : linked[c] # Nobody => linked'[c] = linked[c]]_server
  BY LinksStay DEF SessionsInv
<1>2. QED
  BY <1>1, SessionsHold, DashboardImplementsSessions, PTL DEF Spec, LinksAreFinal

(* What a tab shows is of one organisation, whoever has signed in since. *)
THEOREM ScreensAreOfOneOrganization == DashboardSpec => []ScreenIsOfOneOrganization
<1>1. DashboardInv => ScreenIsOfOneOrganization
  BY DEF DashboardInv
<1>2. QED
  BY <1>1, DashboardHolds, PTL

(* Nothing is written for an organisation that does not own the vehicle. *)
THEOREM WritesAlwaysStayAtHome == DashboardSpec => []WritesStayAtHome
<1>1. DashboardInv => WritesStayAtHome
  BY DEF DashboardInv
<1>2. QED
  BY <1>1, DashboardHolds, PTL

(* A tab that says it is loading has a timer or a load under way. *)
THEOREM LoadingAlwaysHasACause == DashboardSpec => []LoadingHasACause
<1>1. DashboardInv => LoadingHasACause
  BY DEF DashboardInv
<1>2. QED
  BY <1>1, DashboardHolds, PTL

=============================================================================
