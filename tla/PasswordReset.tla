--------------------------- MODULE PasswordReset ---------------------------
(***************************************************************************)
(* Password recovery: requests that count against a quota, revoke the      *)
(* pending tokens of the account, insert a new one and mail its link, and  *)
(* confirmations that lock a token, change the password and revoke the     *)
(* rest, as concurrent READ COMMITTED transactions.                        *)
(***************************************************************************)
EXTENDS Naturals, FiniteSets

CONSTANTS
  Requests,    \* calls of request_password_reset; request t creates at most token t
  Confirms,    \* calls of confirm_password_reset
  Nobody,      \* the holder of a row nobody has locked
  Users,       \* active accounts, named by their normalised e-mail
  Keys,        \* what quotas are kept for: e-mails and origins
  Inputs,      \* what a request may carry
  Passwords,
  FirstPassword,
  TTL,         \* RESET_TOKEN_TTL
  Window,      \* RESET_THROTTLE_WINDOW
  Limit,       \* RESET_THROTTLE_LIMIT
  Retention,   \* how long expired tokens and old quotas are kept
  MaxNow,      \* bound of the clock
  MaxCrashes   \* bound of the behaviours: how many calls die

Calls == Requests \cup Confirms
Input == [email : Keys, origin : Keys]

ASSUME CallsAssumption  == Requests # {} /\ Requests \cap Confirms = {} /\ Nobody \notin Calls
ASSUME InputsAssumption ==
  Inputs \subseteq Input /\ Keys # {} /\ Users \subseteq Keys /\ Users \cap Requests = {}
ASSUME PasswordsAssumption == FirstPassword \in Passwords
ASSUME TimesAssumption ==
  TTL \in Nat /\ Window \in Nat /\ Limit \in Nat /\ Retention \in Nat /\ MaxNow \in Nat /\ MaxCrashes \in Nat

VARIABLES
  now,
  (* Committed rows. *)
  quota,     \* auth_login_throttles of the scopes reset_identity and reset_origin
  token,     \* password_reset_tokens
  password,  \* users.password_hash
  holder,    \* row locks of tokens and users
  links,     \* tokens whose link reached the mailbox
  (* Private state of the calls. *)
  pc, input, chosen, clock, toRevoke, revoked,
  (* What each confirmation found when it began, for OldLinksAreDead. *)
  existed

rows    == <<quota, token, password>>
private == <<input, chosen, clock, toRevoke, revoked>>
vars    == <<now, rows, holder, links, pc, private, existed>>

Endings == {"done", "rejected", "error", "lost"}

Token  == [status : {"absent", "live", "used", "deleted"}, user : Keys, expires : Nat]
Quota  == [exists : BOOLEAN, count : Nat, since : Nat]
Choice == [token : Requests, password : Passwords]
Rows   == Requests \cup Users

NoQuota == [exists |-> FALSE, count |-> 0, since |-> 0]

(* Every row and private copy is well formed; quotas never count beyond Limit. *)
TypeOK ==
  /\ now \in Nat
  /\ quota \in [Keys -> Quota] /\ \A k \in Keys : quota[k].count <= Limit
  /\ token \in [Requests -> Token]
  /\ password \in [Users -> Passwords]
  /\ holder \in [Rows -> Calls \cup {Nobody}]
  /\ links \subseteq Requests
  /\ pc \in [Calls -> {"idle", "quota", "lock", "check", "write", "read", "revoke", "mail",
                       "disable"} \cup Endings]
  /\ input \in [Requests -> Input]
  /\ chosen \in [Confirms -> Choice]
  /\ clock \in [Calls -> Nat]
  /\ toRevoke \in [Calls -> SUBSET Requests]
  /\ revoked \in [Calls -> SUBSET Requests]
  /\ existed \in [Confirms -> SUBSET Requests]

Init ==
  /\ now = 0
  /\ quota = [k \in Keys |-> NoQuota]
  /\ token = [t \in Requests |-> [status |-> "absent", user |-> CHOOSE k \in Keys : TRUE, expires |-> 0]]
  /\ password = [u \in Users |-> FirstPassword]
  /\ holder = [r \in Rows |-> Nobody]
  /\ links = {}
  /\ pc = [x \in Calls |-> "idle"]
  /\ input = [t \in Requests |-> CHOOSE i \in Input : TRUE]
  /\ chosen = [c \in Confirms |-> CHOOSE ch \in Choice : TRUE]
  /\ clock = [x \in Calls |-> 0]
  /\ toRevoke = [x \in Calls |-> {}]
  /\ revoked = [x \in Calls |-> {}]
  /\ existed = [c \in Confirms |-> {}]

-----------------------------------------------------------------------------
Goto(x, phase) == pc' = [pc EXCEPT ![x] = phase]

(* The account a call is about. *)
Account(x) == IF x \in Requests THEN input[x].email ELSE token[chosen[x].token].user

LiveTokens(u) == {t \in Requests : token[t].status = "live" /\ token[t].user = u}

(* Ends the transaction of x: its locks are released and its copies are gone. *)
Release(x) ==
  /\ holder' = [r \in Rows |-> IF holder[r] = x THEN Nobody ELSE holder[r]]
  /\ clock' = [clock EXCEPT ![x] = 0]
  /\ toRevoke' = [toRevoke EXCEPT ![x] = {}]
  /\ revoked' = [revoked EXCEPT ![x] = {}]

(* password_reset.request_password_reset: the clean-up and its commit. *)
RequestStart(t, i) ==
  /\ pc[t] = "idle" /\ Goto(t, "quota")
  /\ input' = [input EXCEPT ![t] = i]
  /\ clock' = [clock EXCEPT ![t] = now]
  /\ quota' = [k \in Keys |-> IF quota[k].exists /\ quota[k].since + Retention < now
                              THEN NoQuota ELSE quota[k]]
  /\ LET stale == {u \in Requests : token[u].status # "absent" /\ token[u].expires + Retention < now}
     IN  /\ \A u \in stale : holder[u] = Nobody
         /\ token' = [u \in Requests |-> IF u \in stale THEN [token[u] EXCEPT !.status = "deleted"]
                                         ELSE token[u]]
  /\ UNCHANGED <<now, password, holder, links, chosen, toRevoke, revoked, existed>>

(* The row of _bucket as _consume_quota sees it: created when missing, started *)
(* again when its window is over.                                              *)
Renewed(k, time) ==
  IF ~quota[k].exists \/ quota[k].since + Window <= time
  THEN [exists |-> TRUE, count |-> 0, since |-> time] ELSE quota[k]

(* Operators whose comment begins with "Mutant" are wrong on purpose: putting *)
(* one in the place of the definition that follows it must break a property.  *)

Charged(q) == IF q.count < Limit THEN [q EXCEPT !.count = @ + 1] ELSE q

(* _consume_quota.  Both rows stay locked FOR UPDATE until its commit and are  *)
(* taken in the same order, so the transaction is one step; the time it uses   *)
(* was read before.  An e-mail that is no active account stops here.           *)
ConsumeQuota(t) ==
  LET keys == {input[t].email, input[t].origin}
      allowed == \A k \in keys : Renewed(k, clock[t]).count < Limit
  IN  /\ pc[t] = "quota"
      /\ quota' = [k \in Keys |-> IF k \in keys THEN Charged(Renewed(k, clock[t])) ELSE quota[k]]
      /\ Goto(t, IF allowed /\ input[t].email \in Users THEN "read" ELSE "done")
      /\ UNCHANGED <<now, token, password, holder, links, private, existed>>

-----------------------------------------------------------------------------
(* password_reset.confirm_password_reset *)

ConfirmStart(c, t, p) ==
  /\ pc[c] = "idle" /\ t \in links /\ Goto(c, "lock")
  /\ chosen' = [chosen EXCEPT ![c] = [token |-> t, password |-> p]]
  /\ clock' = [clock EXCEPT ![c] = now]
  /\ existed' = [existed EXCEPT ![c] = {u \in Requests : token[u].status # "absent"}]
  /\ UNCHANGED <<now, rows, holder, links, input, toRevoke, revoked>>

(* Mutant: the token is read without FOR UPDATE. *)
TokenIsRead(t) == TRUE

TokenIsFree(t) == holder[t] = Nobody

(* SELECT ... FOR UPDATE of an unused token, then the expiry. *)
ConfirmLock(c) ==
  LET t == chosen[c].token
  IN  /\ pc[c] = "lock" /\ TokenIsFree(t)
      /\ \/ /\ token[t].status # "live" \/ token[t].expires <= clock[c]
            /\ Goto(c, "rejected")
            /\ Release(c)
         \/ /\ token[t].status = "live" /\ token[t].expires > clock[c]
            /\ Goto(c, "check")
            /\ holder' = [holder EXCEPT ![t] = c]
            /\ UNCHANGED <<clock, toRevoke, revoked>>
      /\ UNCHANGED <<now, rows, links, input, chosen, existed>>

(* The account is read without a lock and the new password must be another. *)
ConfirmCheck(c) ==
  /\ pc[c] = "check"
  /\ \/ /\ password[Account(c)] = chosen[c].password
        /\ Goto(c, "rejected")
        /\ Release(c)
     \/ /\ password[Account(c)] # chosen[c].password
        /\ Goto(c, "write")
        /\ UNCHANGED <<holder, clock, toRevoke, revoked>>
  /\ UNCHANGED <<now, rows, links, input, chosen, existed>>

(* The flush of the new password, before the UPDATE of the tokens. *)
ConfirmWrite(c) ==
  /\ pc[c] = "write" /\ holder[Account(c)] = Nobody
  /\ holder' = [holder EXCEPT ![Account(c)] = c]
  /\ Goto(c, "read")
  /\ UNCHANGED <<now, rows, links, private, existed>>

-----------------------------------------------------------------------------
(* UPDATE password_reset_tokens ... WHERE used_at IS NULL, of both operations: *)
(* it visits the rows that were committed when it began, waits for the locked  *)
(* ones, and skips those that are not pending any more.                        *)

(* Mutant: a confirmation uses up its own token only. *)
OwnTokenOnly(x) == IF x \in Confirms THEN {chosen[x].token} ELSE LiveTokens(Account(x))

Revocable(x) == LiveTokens(Account(x))

RevokeBegin(x) ==
  /\ pc[x] = "read" /\ Goto(x, "revoke")
  /\ toRevoke' = [toRevoke EXCEPT ![x] = Revocable(x)]
  /\ UNCHANGED <<now, rows, holder, links, input, chosen, clock, revoked, existed>>

RevokeRow(x, t) ==
  /\ pc[x] = "revoke" /\ t \in toRevoke[x] /\ holder[t] \in {Nobody, x}
  /\ toRevoke' = [toRevoke EXCEPT ![x] = @ \ {t}]
  /\ IF token[t].status = "live"
     THEN /\ holder' = [holder EXCEPT ![t] = x]
          /\ revoked' = [revoked EXCEPT ![x] = @ \cup {t}]
     ELSE UNCHANGED <<holder, revoked>>
  /\ UNCHANGED <<now, rows, links, pc, input, chosen, clock, existed>>

(* The tokens once x has committed its UPDATE. *)
Used(x) == [t \in Requests |-> IF t \in revoked[x] THEN [token[t] EXCEPT !.status = "used"] ELSE token[t]]

(* The new token is inserted and both statements are committed. *)
RequestCommit(t) ==
  /\ pc[t] = "revoke" /\ toRevoke[t] = {}
  /\ token' = [Used(t) EXCEPT ![t] = [status |-> "live", user |-> input[t].email,
                                      expires |-> clock[t] + TTL]]
  /\ Goto(t, "mail")
  /\ Release(t)
  /\ UNCHANGED <<now, quota, password, links, input, chosen, existed>>

ConfirmCommit(c) ==
  /\ pc[c] = "revoke" /\ toRevoke[c] = {}
  /\ password' = [password EXCEPT ![Account(c)] = chosen[c].password]
  /\ token' = Used(c)
  /\ Goto(c, "done")
  /\ Release(c)
  /\ UNCHANGED <<now, quota, links, input, chosen, existed>>

-----------------------------------------------------------------------------
AfterFailedMail == "disable"

(* sender.send: the mail is sent, is not sent, or is sent and the transport  *)
(* raises afterwards.                                                        *)
SendMail(t) ==
  /\ pc[t] = "mail"
  /\ \/ links' = links \cup {t} /\ Goto(t, "done")
     \/ links' \in {links, links \cup {t}} /\ Goto(t, AfterFailedMail)
  /\ UNCHANGED <<now, rows, holder, private, existed>>

(* The except branch: the token is marked as used, by its primary key. *)
DisableToken(t) ==
  /\ pc[t] = "disable" /\ holder[t] = Nobody
  /\ token' = [token EXCEPT ![t].status = IF @ = "live" THEN "used" ELSE @]
  /\ Goto(t, "done")
  /\ UNCHANGED <<now, quota, password, holder, links, private, existed>>

(* The rows the next statement of x waits for. *)
Wanted(x) ==
  CASE pc[x] = "lock"    -> {chosen[x].token}
    [] pc[x] = "write"   -> {Account(x)}
    [] pc[x] = "revoke"  -> toRevoke[x]
    [] pc[x] = "disable" -> {x}
    [] OTHER             -> {}

Blocked(x) == Wanted(x) # {} /\ \A r \in Wanted(x) : holder[r] \notin {Nobody, x}

Deadlocked(x) ==
  /\ Blocked(x)
  /\ \E S \in SUBSET Calls :
       x \in S /\ \A y \in S : Blocked(y) /\ \A r \in Wanted(y) : holder[r] \in S

(* Mutant: nothing breaks a cycle of waiting transactions. *)
NeverDetected(x) == FALSE

Detected(x) == Deadlocked(x)

(* PostgreSQL cancels one transaction of a cycle; nothing catches the error.   *)
DeadlockAbort(x) ==
  /\ Detected(x)
  /\ Goto(x, "error")
  /\ Release(x)
  /\ UNCHANGED <<now, rows, links, input, chosen, existed>>

(* The server dies between two steps. *)
Crash(x) ==
  /\ pc[x] \notin {"idle"} \cup Endings
  /\ Cardinality({y \in Calls : pc[y] = "lost"}) < MaxCrashes
  /\ Goto(x, "lost")
  /\ Release(x)
  /\ UNCHANGED <<now, rows, links, input, chosen, existed>>

Tick ==
  /\ now < MaxNow /\ now' = now + 1
  /\ UNCHANGED <<rows, holder, links, pc, private, existed>>

RequestStep(t) == ConsumeQuota(t) \/ RequestCommit(t) \/ SendMail(t) \/ DisableToken(t)
ConfirmStep(c) == ConfirmLock(c) \/ ConfirmCheck(c) \/ ConfirmWrite(c) \/ ConfirmCommit(c)

Step(x) ==
  \/ x \in Requests /\ RequestStep(x)
  \/ x \in Confirms /\ ConfirmStep(x)
  \/ RevokeBegin(x)
  \/ \E t \in Requests : RevokeRow(x, t)
  \/ DeadlockAbort(x)

Next ==
  \/ \E t \in Requests, i \in Inputs : RequestStart(t, i)
  \/ \E c \in Confirms, t \in Requests, p \in Passwords : ConfirmStart(c, t, p)
  \/ \E x \in Calls : Step(x) \/ Crash(x)
  \/ Tick

Spec == Init /\ [][Next]_vars

(* The server keeps executing the calls it accepted, in whatever order. *)
FairSpec == Spec /\ WF_vars(\E x \in Calls : Step(x))

-----------------------------------------------------------------------------
Succeeded(c) == c \in Confirms /\ pc[c] = "done"

(* A link resets a password once: of all the confirmations that present it,   *)
(* at the same time or again, at most one succeeds.                           *)
LinkResetsOnce ==
  \A c, d \in Confirms :
    Succeeded(c) /\ Succeeded(d) /\ chosen[c].token = chosen[d].token => c = d

(* Once a confirmation has succeeded, no link of that account which was        *)
(* issued before the confirmation began can be used, not even one that was     *)
(* issued at the same time as the link confirmed.  And a request that has      *)
(* answered and could not mail its link leaves no usable token behind,         *)
(* whatever the transport did before it raised.                                *)
OldLinksAreDead ==
  /\ \A c \in Confirms : Succeeded(c) =>
       \A t \in existed[c] : token[t].user = token[chosen[c].token].user => token[t].status # "live"
  /\ \A t \in Requests : pc[t] = "done" /\ token[t].status = "live" => t \in links

(* Every call that begins ends, although requests and confirmations lock the   *)
(* tokens of one account in different orders: in the end none is left waiting. *)
EveryCallEnds == <>[](\A x \in Calls : pc[x] \in {"idle"} \cup Endings)

(* What the specification of the product states: a request invalidates the     *)
(* pending tokens of the account, so an account has one usable token.          *)
OneLiveToken == \A u \in Users : Cardinality(LiveTokens(u)) <= 1
=============================================================================
