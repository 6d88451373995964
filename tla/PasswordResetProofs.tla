------------------------ MODULE PasswordResetProofs ------------------------
(***************************************************************************)
(* Proofs about PasswordReset: for any requests, confirmations, accounts,  *)
(* quotas, times and number of crashes.                                    *)
(***************************************************************************)
EXTENDS PasswordReset, TLAPS

(* What a call is doing fits what it is. *)
PhasesFit ==
  /\ \A t \in Requests : pc[t] \notin {"lock", "check", "write"}
  /\ \A c \in Confirms : pc[c] \notin {"quota", "mail", "disable"}

(* The token of a request is there when its mail is sent, and not before; its  *)
(* account exists.                                                             *)
TokensHaveHistory ==
  \A t \in Requests :
    /\ pc[t] \in {"idle", "quota", "read", "revoke"} => token[t].status = "absent"
    /\ pc[t] \in {"mail", "disable"} \/ t \in links => token[t].status # "absent"
    /\ token[t].status # "absent" => token[t].user \in Users
    /\ pc[t] \in {"read", "revoke"} => input[t].email \in Users

(* Locks are held by transactions that are open, and those of tokens on        *)
(* tokens that are live.  A confirmation has locked its own.                   *)
LocksFit ==
  /\ \A r \in Rows : holder[r] # Nobody => pc[holder[r]] \in {"check", "write", "read", "revoke"}
  /\ \A t \in Requests : holder[t] # Nobody => token[t].status = "live"
  /\ \A c \in Confirms : pc[c] \in {"check", "write", "read", "revoke"} => holder[chosen[c].token] = c

(* What an UPDATE has revoked it has locked. *)
RevokedIsHeld ==
  \A x \in Calls :
    /\ pc[x] # "revoke" => revoked[x] = {}
    /\ \A t \in revoked[x] : holder[t] = x

(* The confirmation knows its own token, and tokens that existed still do. *)
ExistedStillDoes ==
  \A c \in Confirms : pc[c] # "idle" =>
    /\ chosen[c].token \in existed[c]
    /\ \A t \in existed[c] : token[t].status # "absent"

(* The UPDATE of a confirmation gets at every live token of its account that   *)
(* was there when the confirmation began.                                      *)
OldLinksAreGathered ==
  \A c \in Confirms : pc[c] = "revoke" =>
    \A t \in existed[c] :
      token[t].status = "live" /\ token[t].user = Account(c) => t \in toRevoke[c] \cup revoked[c]

ResetInv ==
  /\ TypeOK /\ PhasesFit /\ TokensHaveHistory /\ LocksFit /\ RevokedIsHeld
  /\ ExistedStillDoes /\ OldLinksAreGathered /\ OldLinksAreDead

-----------------------------------------------------------------------------
(* Goto moves one call. *)
LEMMA Moves ==
  ASSUME TypeOK, NEW x \in Calls, NEW phase, Goto(x, phase)
  PROVE  pc'[x] = phase /\ \A y \in Calls \ {x} : pc'[y] = pc[y]
BY DEF TypeOK, Goto

(* Every action that moves a call, and the phases it goes between. *)
LEMMA PhasesMove ==
  ASSUME TypeOK, [Next]_vars, NEW x \in Calls, pc'[x] # pc[x]
  PROVE  \/ pc[x] = "idle" /\ pc'[x] = "quota" /\ x \in Requests /\ \E i \in Inputs : RequestStart(x, i)
         \/ /\ pc[x] = "idle" /\ pc'[x] = "lock" /\ x \in Confirms
            /\ \E t \in Requests, p \in Passwords : ConfirmStart(x, t, p)
         \/ pc[x] = "quota" /\ pc'[x] \in {"read", "done"} /\ x \in Requests /\ ConsumeQuota(x)
         \/ pc[x] = "lock" /\ pc'[x] \in {"check", "rejected"} /\ x \in Confirms /\ ConfirmLock(x)
         \/ pc[x] = "check" /\ pc'[x] \in {"write", "rejected"} /\ x \in Confirms /\ ConfirmCheck(x)
         \/ pc[x] = "write" /\ pc'[x] = "read" /\ x \in Confirms /\ ConfirmWrite(x)
         \/ pc[x] = "read" /\ pc'[x] = "revoke" /\ RevokeBegin(x)
         \/ pc[x] = "revoke" /\ pc'[x] = "mail" /\ x \in Requests /\ RequestCommit(x)
         \/ pc[x] = "revoke" /\ pc'[x] = "done" /\ x \in Confirms /\ ConfirmCommit(x)
         \/ pc[x] = "mail" /\ pc'[x] \in {"done", "disable"} /\ x \in Requests /\ SendMail(x)
         \/ pc[x] = "disable" /\ pc'[x] = "done" /\ x \in Requests /\ DisableToken(x)
         \/ pc[x] \in {"lock", "write", "revoke", "disable"} /\ pc'[x] = "error" /\ DeadlockAbort(x)
         \/ pc[x] \notin {"idle"} \cup Endings /\ pc'[x] = "lost" /\ Crash(x)
<1>1. ASSUME NEW t \in Requests, NEW i \in Inputs, RequestStart(t, i)
      PROVE  x = t /\ pc[x] = "idle" /\ pc'[x] = "quota"
  BY <1>1, Moves DEF RequestStart, Calls
<1>2. ASSUME NEW c \in Confirms, NEW t \in Requests, NEW p \in Passwords, ConfirmStart(c, t, p)
      PROVE  x = c /\ pc[x] = "idle" /\ pc'[x] = "lock"
  BY <1>2, Moves DEF ConfirmStart, Calls
<1>3. ASSUME NEW t \in Requests, RequestStep(t)
      PROVE  /\ x = t
             /\ \/ pc[x] = "quota" /\ pc'[x] \in {"read", "done"} /\ ConsumeQuota(x)
                \/ pc[x] = "revoke" /\ pc'[x] = "mail" /\ RequestCommit(x)
                \/ pc[x] = "mail" /\ pc'[x] \in {"done", "disable"} /\ SendMail(x)
                \/ pc[x] = "disable" /\ pc'[x] = "done" /\ DisableToken(x)
  BY <1>3 DEF RequestStep, ConsumeQuota, RequestCommit, SendMail, DisableToken, Calls, TypeOK, Goto, AfterFailedMail
<1>4. ASSUME NEW c \in Confirms, ConfirmStep(c)
      PROVE  /\ x = c
             /\ \/ pc[x] = "lock" /\ pc'[x] \in {"check", "rejected"} /\ ConfirmLock(x)
                \/ pc[x] = "check" /\ pc'[x] \in {"write", "rejected"} /\ ConfirmCheck(x)
                \/ pc[x] = "write" /\ pc'[x] = "read" /\ ConfirmWrite(x)
                \/ pc[x] = "revoke" /\ pc'[x] = "done" /\ ConfirmCommit(x)
  BY <1>4 DEF ConfirmStep, ConfirmLock, ConfirmCheck, ConfirmWrite, ConfirmCommit, Calls, TypeOK, Goto
<1>5. ASSUME NEW y \in Calls, RevokeBegin(y)
      PROVE  x = y /\ pc[x] = "read" /\ pc'[x] = "revoke"
  BY <1>5, Moves DEF RevokeBegin
<1>6. ASSUME NEW y \in Calls, DeadlockAbort(y)
      PROVE  x = y /\ pc[x] \in {"lock", "write", "revoke", "disable"} /\ pc'[x] = "error"
  <2>1. x = y /\ pc'[x] = "error"
    BY <1>6, Moves DEF DeadlockAbort
  <2>2. Wanted(y) # {}
    BY <1>6 DEF DeadlockAbort, Detected, Deadlocked, Blocked
  <2>3. QED
    BY <2>1, <2>2 DEF Wanted
<1>7. ASSUME NEW y \in Calls, Crash(y)
      PROVE  x = y /\ pc[x] \notin {"idle"} \cup Endings /\ pc'[x] = "lost"
  BY <1>7, Moves DEF Crash
<1>8. CASE Tick \/ UNCHANGED vars \/ \E y \in Calls, t \in Requests : RevokeRow(y, t)
  BY <1>8 DEF Tick, vars, RevokeRow
<1>9. QED
  BY <1>1, <1>2, <1>3, <1>4, <1>5, <1>6, <1>7, <1>8 DEF Next, Step

(* Which statement writes which row or variable. *)
LEMMA Writers ==
  ASSUME [Next]_vars
  PROVE  /\ \/ UNCHANGED token \/ \E t \in Requests : RequestCommit(t) \/ DisableToken(t)
            \/ \E t \in Requests, i \in Inputs : RequestStart(t, i)
            \/ \E c \in Confirms : ConfirmCommit(c)
         /\ UNCHANGED links \/ \E t \in Requests : SendMail(t)
         /\ UNCHANGED input \/ \E t \in Requests, i \in Inputs : RequestStart(t, i)
         /\ UNCHANGED <<chosen, existed>> \/ \E c \in Confirms, t \in Requests, p \in Passwords : ConfirmStart(c, t, p)
<1>1. \/ UNCHANGED token \/ \E t \in Requests : RequestCommit(t) \/ DisableToken(t)
      \/ \E t \in Requests, i \in Inputs : RequestStart(t, i)
      \/ \E c \in Confirms : ConfirmCommit(c)
  <2>1. ASSUME NEW t \in Requests, RequestStep(t)
        PROVE  UNCHANGED token \/ RequestCommit(t) \/ DisableToken(t)
    BY <2>1 DEF RequestStep, ConsumeQuota, SendMail, rows
  <2>2. ASSUME NEW c \in Confirms, ConfirmStep(c)
        PROVE  UNCHANGED token \/ ConfirmCommit(c)
    BY <2>2 DEF ConfirmStep, ConfirmLock, ConfirmCheck, ConfirmWrite, rows
  <2>3. ASSUME NEW x \in Calls, RevokeBegin(x) \/ DeadlockAbort(x) \/ Crash(x) \/ \E t \in Requests : RevokeRow(x, t)
        PROVE  UNCHANGED token
    BY <2>3 DEF RevokeBegin, DeadlockAbort, Crash, RevokeRow, rows
  <2>4. ASSUME NEW c \in Confirms, NEW t \in Requests, NEW p \in Passwords, ConfirmStart(c, t, p)
        PROVE  UNCHANGED token
    BY <2>4 DEF ConfirmStart, rows
  <2>5. CASE Tick \/ UNCHANGED vars
    BY <2>5 DEF Tick, rows, vars
  <2>6. QED
    BY <2>1, <2>2, <2>3, <2>4, <2>5 DEF Next, Step
<1>2. UNCHANGED links \/ \E t \in Requests : SendMail(t)
  BY DEF Next, Step, RequestStep, ConfirmStep, RequestStart, ConsumeQuota, ConfirmStart, ConfirmLock, ConfirmCheck,
     ConfirmWrite, RevokeBegin, RevokeRow, RequestCommit, ConfirmCommit, SendMail, DisableToken, DeadlockAbort, Crash,
     Tick, rows, private, vars
<1>3. UNCHANGED input \/ \E t \in Requests, i \in Inputs : RequestStart(t, i)
  BY DEF Next, Step, RequestStep, ConfirmStep, RequestStart, ConsumeQuota, ConfirmStart, ConfirmLock, ConfirmCheck,
     ConfirmWrite, RevokeBegin, RevokeRow, RequestCommit, ConfirmCommit, SendMail, DisableToken, DeadlockAbort, Crash,
     Tick, rows, private, vars
<1>4. UNCHANGED <<chosen, existed>> \/ \E c \in Confirms, t \in Requests, p \in Passwords : ConfirmStart(c, t, p)
  BY DEF Next, Step, RequestStep, ConfirmStep, RequestStart, ConsumeQuota, ConfirmStart, ConfirmLock, ConfirmCheck,
     ConfirmWrite, RevokeBegin, RevokeRow, RequestCommit, ConfirmCommit, SendMail, DisableToken, DeadlockAbort, Crash,
     Tick, rows, private, vars
<1>5. QED
  BY <1>1, <1>2, <1>3, <1>4

(* Locks are taken by four statements, and are given up when a call ends or    *)
(* commits.                                                                    *)
LEMMA Lockers ==
  ASSUME TypeOK, [Next]_vars
  PROVE  \/ UNCHANGED <<holder, revoked, toRevoke>>
         \/ \E x \in Calls : Release(x) /\ pc'[x] # pc[x] /\ pc'[x] \in Endings \cup {"mail"}
         \/ \E c \in Confirms : ConfirmLock(c) /\ pc'[c] = "check"
         \/ \E c \in Confirms : ConfirmWrite(c)
         \/ \E x \in Calls : RevokeBegin(x)
         \/ \E x \in Calls, t \in Requests : RevokeRow(x, t)
<1>1. ASSUME NEW t \in Requests, RequestStep(t)
      PROVE  \/ UNCHANGED <<holder, revoked, toRevoke>>
             \/ t \in Calls /\ Release(t) /\ pc'[t] # pc[t] /\ pc'[t] \in Endings \cup {"mail"}
  <2>1. CASE RequestCommit(t)
    BY <2>1 DEF RequestCommit, Calls, Goto, TypeOK
  <2>2. QED
    BY <1>1, <2>1 DEF RequestStep, ConsumeQuota, SendMail, DisableToken, private
<1>2. ASSUME NEW c \in Confirms, ConfirmStep(c)
      PROVE  \/ UNCHANGED <<holder, revoked, toRevoke>>
             \/ c \in Calls /\ Release(c) /\ pc'[c] # pc[c] /\ pc'[c] \in Endings \cup {"mail"}
             \/ ConfirmLock(c) /\ pc'[c] = "check"
             \/ ConfirmWrite(c)
  <2>1. CASE ConfirmLock(c)
    BY <2>1 DEF ConfirmLock, Calls, Goto, TypeOK, Endings
  <2>2. CASE ConfirmCheck(c)
    BY <2>2 DEF ConfirmCheck, Calls, Goto, TypeOK, Endings
  <2>3. CASE ConfirmCommit(c)
    BY <2>3 DEF ConfirmCommit, Calls, Goto, TypeOK, Endings
  <2>4. QED
    BY <1>2, <2>1, <2>2, <2>3 DEF ConfirmStep
<1>3. ASSUME NEW x \in Calls, DeadlockAbort(x) \/ Crash(x)
      PROVE  Release(x) /\ pc'[x] # pc[x] /\ pc'[x] \in Endings \cup {"mail"}
  <2>1. CASE DeadlockAbort(x)
    <3>1. Wanted(x) # {}
      BY <2>1 DEF DeadlockAbort, Detected, Deadlocked, Blocked
    <3>2. pc[x] # "error"
      BY <3>1 DEF Wanted
    <3>3. QED
      BY <2>1, <3>2 DEF DeadlockAbort, Goto, TypeOK, Endings
  <2>2. CASE Crash(x)
    BY <2>2 DEF Crash, Goto, TypeOK, Endings
  <2>3. QED
    BY <1>3, <2>1, <2>2
<1>4. CASE Tick \/ UNCHANGED vars
  BY <1>4 DEF Tick, vars, private
<1>5. ASSUME NEW t \in Requests, NEW i \in Inputs, RequestStart(t, i)
      PROVE  UNCHANGED <<holder, revoked, toRevoke>>
  BY <1>5 DEF RequestStart
<1>6. ASSUME NEW c \in Confirms, NEW t \in Requests, NEW p \in Passwords, ConfirmStart(c, t, p)
      PROVE  UNCHANGED <<holder, revoked, toRevoke>>
  BY <1>6 DEF ConfirmStart
<1>7. QED
  BY <1>1, <1>2, <1>3, <1>4, <1>5, <1>6 DEF Next, Step

(* The account of a confirmation that has locked its token is an account. *)
LEMMA OwnToken ==
  ASSUME ResetInv, NEW c \in Confirms, pc[c] # "idle"
  PROVE  /\ chosen[c].token \in Requests /\ token[chosen[c].token].status # "absent"
         /\ Account(c) = token[chosen[c].token].user /\ Account(c) \in Users /\ Account(c) \notin Requests
<1>1. chosen[c].token \in Requests
  BY DEF ResetInv, TypeOK, Choice
<1>2. Account(c) = token[chosen[c].token].user
  BY CallsAssumption DEF Account
<1>3. token[chosen[c].token].status # "absent"
  BY DEF ResetInv, ExistedStillDoes
<1>4. QED
  BY <1>1, <1>2, <1>3, InputsAssumption DEF ResetInv, TokensHaveHistory

(* What may become of the lock of a row. *)
LEMMA LocksMove ==
  ASSUME ResetInv, [Next]_vars, NEW r \in Rows, holder'[r] # holder[r]
  PROVE  \/ /\ holder[r] \in Calls /\ holder'[r] = Nobody
            /\ pc'[holder[r]] \in Endings \cup {"mail"}
         \/ /\ holder[r] = Nobody /\ holder'[r] \in Calls
            /\ pc'[holder'[r]] \in {"check", "read", "revoke"}
            /\ r \in Requests => token[r].status = "live" /\ UNCHANGED token
<1> USE DEF ResetInv
<1>1. ASSUME NEW x \in Calls, Release(x), pc'[x] \in Endings \cup {"mail"}
      PROVE  holder[r] = x /\ holder'[r] = Nobody
  BY <1>1 DEF Release
<1>2. ASSUME NEW c \in Confirms, ConfirmLock(c), pc'[c] = "check"
      PROVE  holder[r] = Nobody /\ holder'[r] = c /\ token[r].status = "live" /\ UNCHANGED token
  <2>1. ~Goto(c, "rejected")
    BY <1>2 DEF TypeOK, Goto, Calls
  <2>2. holder' = [holder EXCEPT ![chosen[c].token] = c]
    BY <1>2, <2>1 DEF ConfirmLock
  <2>3. r = chosen[c].token
    BY <2>2 DEF TypeOK
  <2>4. QED
    BY <1>2, <2>1, <2>2, <2>3 DEF ConfirmLock, TokenIsFree, TypeOK, rows
<1>3. ASSUME NEW c \in Confirms, ConfirmWrite(c)
      PROVE  holder[r] = Nobody /\ holder'[r] = c /\ pc'[c] = "read" /\ r \notin Requests
  <2>1. pc[c] # "idle" /\ holder' = [holder EXCEPT ![Account(c)] = c] /\ holder[Account(c)] = Nobody
    BY <1>3 DEF ConfirmWrite
  <2>2. r = Account(c)
    BY <2>1 DEF TypeOK
  <2>3. pc'[c] = "read"
    BY <1>3 DEF ConfirmWrite, Goto, TypeOK, Calls
  <2>4. QED
    BY <2>1, <2>2, <2>3, OwnToken DEF TypeOK
<1>4. ASSUME NEW x \in Calls, NEW t \in Requests, RevokeRow(x, t)
      PROVE  /\ holder[r] = Nobody /\ holder'[r] = x /\ pc'[x] = "revoke"
             /\ token[r].status = "live" /\ UNCHANGED token
  <2>1. token[t].status = "live" /\ holder' = [holder EXCEPT ![t] = x] /\ holder[t] \in {Nobody, x}
    BY <1>4 DEF RevokeRow
  <2>2. r = t
    BY <2>1 DEF TypeOK
  <2>3. pc'[x] = "revoke" /\ UNCHANGED token
    BY <1>4 DEF RevokeRow, rows
  <2>4. QED
    BY <2>1, <2>2, <2>3 DEF TypeOK, Rows
<1>5. ASSUME NEW x \in Calls, RevokeBegin(x)
      PROVE  UNCHANGED holder
  BY <1>5 DEF RevokeBegin
<1>6. QED
  BY <1>1, <1>2, <1>3, <1>4, <1>5, Lockers DEF Calls

(* What may become of a token: it is inserted once, keeps its account, and     *)
(* never becomes live again.  Whoever holds it is the one to use it up.        *)
LEMMA TokensMove ==
  ASSUME ResetInv, [Next]_vars, NEW t \in Requests, token'[t] # token[t]
  PROVE  \/ token[t].status = "absent" /\ pc[t] = "revoke" /\ RequestCommit(t)
         \/ /\ token[t].status # "absent" /\ token'[t].status \in {"used", "deleted"}
            /\ token'[t].user = token[t].user
            /\ \/ holder[t] = Nobody
               \/ /\ holder[t] \in Calls /\ t \in revoked[holder[t]]
                  /\ pc'[holder[t]] \in {"mail", "done"}
<1> USE DEF ResetInv
<1>0. token \in [Requests -> Token]
  BY DEF TypeOK
<1>1. ASSUME NEW x \in Calls, t \in revoked[x]
      PROVE  /\ holder[t] = x /\ token[t].status = "live"
             /\ [token[t] EXCEPT !.status = "used"].status = "used"
             /\ [token[t] EXCEPT !.status = "used"].user = token[t].user
  <2>1. holder[t] = x /\ token[t].status = "live"
    BY <1>1, CallsAssumption DEF RevokedIsHeld, LocksFit
  <2>2. QED
    BY <1>0, <2>1 DEF Token
<1>2. ASSUME NEW x \in Requests, RequestCommit(x)
      PROVE  \/ token[t].status = "absent" /\ pc[t] = "revoke" /\ RequestCommit(t)
             \/ /\ token[t].status # "absent" /\ token'[t].status \in {"used", "deleted"}
                /\ token'[t].user = token[t].user
                /\ holder[t] \in Calls /\ t \in revoked[holder[t]] /\ pc'[holder[t]] \in {"mail", "done"}
  <2>1. CASE t = x
    BY <1>2, <2>1 DEF RequestCommit, TokensHaveHistory
  <2>2. CASE t # x
    <3>1. token'[t] = IF t \in revoked[x] THEN [token[t] EXCEPT !.status = "used"] ELSE token[t]
      BY <1>2, <2>2 DEF RequestCommit, Used
    <3>2. t \in revoked[x]
      BY <3>1
    <3>3. x \in Calls /\ pc'[x] = "mail"
      BY <1>2 DEF RequestCommit, Goto, TypeOK, Calls
    <3>4. QED
      BY <1>1, <3>1, <3>2, <3>3
  <2>3. QED
    BY <2>1, <2>2
<1>3. ASSUME NEW c \in Confirms, ConfirmCommit(c)
      PROVE  /\ token[t].status # "absent" /\ token'[t].status \in {"used", "deleted"}
             /\ token'[t].user = token[t].user
             /\ holder[t] \in Calls /\ t \in revoked[holder[t]] /\ pc'[holder[t]] \in {"mail", "done"}
  <2>1. token'[t] = IF t \in revoked[c] THEN [token[t] EXCEPT !.status = "used"] ELSE token[t]
    BY <1>3 DEF ConfirmCommit, Used
  <2>2. t \in revoked[c]
    BY <2>1
  <2>3. c \in Calls /\ pc'[c] = "done"
    BY <1>3 DEF ConfirmCommit, Goto, TypeOK, Calls
  <2>4. QED
    BY <1>1, <2>1, <2>2, <2>3
<1>4. ASSUME NEW x \in Requests, DisableToken(x)
      PROVE  /\ token[t].status # "absent" /\ token'[t].status \in {"used", "deleted"}
             /\ token'[t].user = token[t].user /\ holder[t] = Nobody
  <2>1. token' = [token EXCEPT ![x].status = IF @ = "live" THEN "used" ELSE @] /\ holder[x] = Nobody
    BY <1>4 DEF DisableToken
  <2>2. t = x
    BY <1>0, <2>1
  <2>3. token[t].status = "live" /\ token'[t] = [token[t] EXCEPT !.status = "used"]
    BY <1>0, <2>1, <2>2 DEF Token
  <2>4. QED
    BY <1>0, <2>1, <2>2, <2>3 DEF Token
<1>5. ASSUME NEW x \in Requests, NEW i \in Inputs, RequestStart(x, i)
      PROVE  /\ token[t].status # "absent" /\ token'[t].status \in {"used", "deleted"}
             /\ token'[t].user = token[t].user /\ holder[t] = Nobody
  <2> DEFINE stale == {u \in Requests : token[u].status # "absent" /\ token[u].expires + Retention < now}
  <2>1. /\ \A u \in stale : holder[u] = Nobody
        /\ token' = [u \in Requests |-> IF u \in stale THEN [token[u] EXCEPT !.status = "deleted"] ELSE token[u]]
    BY <1>5 DEF RequestStart
  <2>2. t \in stale
    BY <1>0, <2>1
  <2>3. token[t].status # "absent" /\ token'[t] = [token[t] EXCEPT !.status = "deleted"] /\ holder[t] = Nobody
    BY <2>1, <2>2
  <2>4. QED
    BY <1>0, <2>3 DEF Token
<1>6. QED
  BY <1>2, <1>3, <1>4, <1>5, Writers

-----------------------------------------------------------------------------
(* The end of a transaction keeps the types. *)
LEMMA ReleaseKeepsTypes ==
  ASSUME TypeOK, NEW x \in Calls, Release(x)
  PROVE  /\ holder' \in [Rows -> Calls \cup {Nobody}] /\ clock' \in [Calls -> Nat]
         /\ toRevoke' \in [Calls -> SUBSET Requests] /\ revoked' \in [Calls -> SUBSET Requests]
BY DEF TypeOK, Release

(* The tokens a transaction leaves are tokens. *)
LEMMA UsedKeepsTypes ==
  ASSUME TypeOK, NEW x
  PROVE  Used(x) \in [Requests -> Token]
BY DEF TypeOK, Used, Token

(* A quota that is renewed and charged does not count beyond Limit. *)
LEMMA QuotasStayInLimit ==
  ASSUME TypeOK, NEW k \in Keys, NEW time \in Nat
  PROVE  Charged(Renewed(k, time)) \in Quota /\ Charged(Renewed(k, time)).count <= Limit
<1>1. quota[k] \in Quota /\ quota[k].count <= Limit
  BY DEF TypeOK
<1> DEFINE q == Renewed(k, time)
<1>2. q \in Quota /\ q.count <= Limit
  BY <1>1, TimesAssumption DEF Renewed, Quota
<1> HIDE DEF q
<1>3. CASE q.count < Limit
  <2>1. Charged(q) = [q EXCEPT !.count = @ + 1]
    BY <1>3 DEF Charged
  <2>2. q.count + 1 \in Nat /\ q.count + 1 <= Limit
    BY <1>2, <1>3, TimesAssumption DEF Quota
  <2> DEFINE n == q.count + 1
  <2>3. Charged(q) = [q EXCEPT !.count = n]
    BY <2>1
  <2> HIDE DEF n
  <2>4. [q EXCEPT !.count = n] \in Quota /\ [q EXCEPT !.count = n].count = n
    BY <1>2, <2>2 DEF n, Quota
  <2>5. QED
    BY <2>2, <2>3, <2>4 DEF n, q
<1>4. CASE ~(q.count < Limit)
  BY <1>2, <1>4 DEF Charged, q
<1>5. QED
  BY <1>3, <1>4

(* So does every step. *)
LEMMA StepsKeepTypes ==
  ASSUME TypeOK, [Next]_vars
  PROVE  TypeOK'
<1> USE DEF Calls
<1>1. ASSUME NEW t \in Requests, NEW i \in Inputs, RequestStart(t, i)
      PROVE  TypeOK'
  <2>1. quota' \in [Keys -> Quota] /\ \A k \in Keys : quota'[k].count <= Limit
    BY <1>1, TimesAssumption DEF RequestStart, TypeOK, NoQuota, Quota
  <2>2. token' \in [Requests -> Token]
    BY <1>1 DEF RequestStart, TypeOK, Token
  <2>3. input' \in [Requests -> Input]
    BY <1>1, InputsAssumption DEF RequestStart, TypeOK
  <2>4. QED
    BY <1>1, <2>1, <2>2, <2>3 DEF RequestStart, TypeOK, Goto
<1>2. ASSUME NEW c \in Confirms, NEW t \in Requests, NEW p \in Passwords, ConfirmStart(c, t, p)
      PROVE  TypeOK'
  BY <1>2 DEF ConfirmStart, TypeOK, Goto, Choice, rows
<1>3. ASSUME NEW t \in Requests, ConsumeQuota(t)
      PROVE  TypeOK'
  <2>1. clock[t] \in Nat
    BY DEF TypeOK
  <2>2. ASSUME NEW k \in Keys
        PROVE  Charged(Renewed(k, clock[t])) \in Quota /\ Charged(Renewed(k, clock[t])).count <= Limit
    BY <2>1, QuotasStayInLimit
  <2>3. quota' = [k \in Keys |-> IF k \in {input[t].email, input[t].origin}
                                 THEN Charged(Renewed(k, clock[t])) ELSE quota[k]]
    BY <1>3 DEF ConsumeQuota
  <2>4. quota' \in [Keys -> Quota] /\ \A k \in Keys : quota'[k].count <= Limit
    BY <2>2, <2>3 DEF TypeOK
  <2>5. pc'[t] \in {"read", "done"} /\ pc' = [pc EXCEPT ![t] = pc'[t]]
    BY <1>3 DEF ConsumeQuota, Goto, TypeOK
  <2>6. QED
    BY <1>3, <2>4, <2>5 DEF ConsumeQuota, TypeOK, Endings, private
<1>4. ASSUME NEW t \in Requests, RequestCommit(t)
      PROVE  TypeOK'
  <2>1. clock[t] + TTL \in Nat /\ input[t].email \in Keys
    BY TimesAssumption DEF TypeOK, Input
  <2>2. token' \in [Requests -> Token]
    BY <1>4, <2>1, UsedKeepsTypes DEF RequestCommit, Token
  <2>3. QED
    BY <1>4, <2>2, ReleaseKeepsTypes DEF RequestCommit, TypeOK, Goto
<1>5. ASSUME NEW t \in Requests, SendMail(t)
      PROVE  TypeOK'
  BY <1>5 DEF SendMail, TypeOK, Goto, Endings, rows, private, AfterFailedMail
<1>6. ASSUME NEW t \in Requests, DisableToken(t)
      PROVE  TypeOK'
  <2>1. token' \in [Requests -> Token]
    BY <1>6 DEF DisableToken, TypeOK, Token
  <2>2. QED
    BY <1>6, <2>1 DEF DisableToken, TypeOK, Goto, Endings, private
<1>7. ASSUME NEW c \in Confirms, ConfirmLock(c)
      PROVE  TypeOK'
  <2>1. \/ Goto(c, "rejected") /\ Release(c)
        \/ Goto(c, "check") /\ holder' = [holder EXCEPT ![chosen[c].token] = c] /\ UNCHANGED <<clock, toRevoke, revoked>>
    BY <1>7 DEF ConfirmLock
  <2>2. /\ holder' \in [Rows -> Calls \cup {Nobody}] /\ clock' \in [Calls -> Nat]
        /\ toRevoke' \in [Calls -> SUBSET Requests] /\ revoked' \in [Calls -> SUBSET Requests]
    BY <2>1, ReleaseKeepsTypes DEF TypeOK
  <2>3. QED
    BY <1>7, <2>1, <2>2 DEF ConfirmLock, TypeOK, Goto, Endings, rows
<1>8. ASSUME NEW c \in Confirms, ConfirmCheck(c)
      PROVE  TypeOK'
  <2>1. \/ Goto(c, "rejected") /\ Release(c)
        \/ Goto(c, "write") /\ UNCHANGED <<holder, clock, toRevoke, revoked>>
    BY <1>8 DEF ConfirmCheck
  <2>2. /\ holder' \in [Rows -> Calls \cup {Nobody}] /\ clock' \in [Calls -> Nat]
        /\ toRevoke' \in [Calls -> SUBSET Requests] /\ revoked' \in [Calls -> SUBSET Requests]
    BY <2>1, ReleaseKeepsTypes DEF TypeOK
  <2>3. QED
    BY <1>8, <2>1, <2>2 DEF ConfirmCheck, TypeOK, Goto, Endings, rows
<1>9. ASSUME NEW c \in Confirms, ConfirmWrite(c)
      PROVE  TypeOK'
  BY <1>9 DEF ConfirmWrite, TypeOK, Goto, rows, private
<1>10. ASSUME NEW c \in Confirms, ConfirmCommit(c)
       PROVE  TypeOK'
  <2>1. password' \in [Users -> Passwords]
    BY <1>10 DEF ConfirmCommit, TypeOK, Choice
  <2>2. QED
    BY <1>10, <2>1, ReleaseKeepsTypes, UsedKeepsTypes DEF ConfirmCommit, TypeOK, Goto, Endings
<1>11. ASSUME NEW x \in Calls, RevokeBegin(x)
       PROVE  TypeOK'
  BY <1>11 DEF RevokeBegin, TypeOK, Goto, Revocable, LiveTokens, rows
<1>12. ASSUME NEW x \in Calls, NEW t \in Requests, RevokeRow(x, t)
       PROVE  TypeOK'
  BY <1>12 DEF RevokeRow, TypeOK, rows
<1>13. ASSUME NEW x \in Calls, DeadlockAbort(x) \/ Crash(x)
       PROVE  TypeOK'
  BY <1>13, ReleaseKeepsTypes DEF DeadlockAbort, Crash, TypeOK, Goto, Endings, rows
<1>14. CASE Tick \/ UNCHANGED vars
  BY <1>14, TimesAssumption DEF Tick, TypeOK, rows, private, vars
<1>15. QED
  BY <1>1, <1>2, <1>3, <1>4, <1>5, <1>6, <1>7, <1>8, <1>9, <1>10, <1>11, <1>12, <1>13, <1>14
     DEF Next, Step, RequestStep, ConfirmStep

-----------------------------------------------------------------------------
(* A call goes through the phases of its own handler. *)
LEMMA StepsKeepPhasesFit ==
  ASSUME ResetInv, [Next]_vars
  PROVE  PhasesFit'
<1>1. ASSUME NEW t \in Requests
      PROVE  pc'[t] \notin {"lock", "check", "write"}
  <2>1. CASE pc'[t] = pc[t]
    BY <2>1 DEF ResetInv, PhasesFit
  <2>2. CASE pc'[t] # pc[t]
    BY <2>2, PhasesMove, CallsAssumption DEF ResetInv, Calls, Endings
  <2>3. QED
    BY <2>1, <2>2
<1>2. ASSUME NEW c \in Confirms
      PROVE  pc'[c] \notin {"quota", "mail", "disable"}
  <2>1. CASE pc'[c] = pc[c]
    BY <2>1 DEF ResetInv, PhasesFit
  <2>2. CASE pc'[c] # pc[c]
    BY <2>2, PhasesMove, CallsAssumption DEF ResetInv, Calls, Endings
  <2>3. QED
    BY <2>1, <2>2
<1>3. QED
  BY <1>1, <1>2 DEF PhasesFit

(* The token of a request that commits is the live one of its account. *)
LEMMA CommitsInsert ==
  ASSUME ResetInv, NEW t \in Requests, RequestCommit(t)
  PROVE  token'[t].status = "live" /\ token'[t].user = input[t].email /\ pc'[t] = "mail"
<1>1. token'[t] = [status |-> "live", user |-> input[t].email, expires |-> clock[t] + TTL]
  BY DEF RequestCommit, Used, ResetInv, TypeOK
<1>2. pc'[t] = "mail"
  BY DEF RequestCommit, Goto, ResetInv, TypeOK, Calls
<1>3. QED
  BY <1>1, <1>2

(* Tokens never disappear, and keep their accounts. *)
LEMMA TokensStay ==
  ASSUME ResetInv, [Next]_vars, NEW t \in Requests, token[t].status # "absent"
  PROVE  /\ token'[t].status # "absent" /\ token'[t].user = token[t].user
         /\ token'[t].status = "live" => token[t].status = "live"
<1>1. CASE token'[t] = token[t]
  BY <1>1
<1>2. CASE token'[t] # token[t]
  BY <1>2, TokensMove
<1>3. QED
  BY <1>1, <1>2

(* Before its mail a request has no token, and only a mail adds its link. *)
LEMMA LinksMove ==
  ASSUME ResetInv, [Next]_vars, NEW t \in Requests, t \in links', t \notin links
  PROVE  SendMail(t) /\ pc[t] = "mail" /\ token[t].status # "absent"
<1>1. PICK u \in Requests : SendMail(u)
  BY Writers
<1>2. u = t /\ pc[t] = "mail"
  BY <1>1 DEF SendMail
<1>3. QED
  BY <1>1, <1>2 DEF ResetInv, TokensHaveHistory

(* A token is there when its mail is sent, and not before. *)
LEMMA StepsKeepTokensHaveHistory ==
  ASSUME ResetInv, [Next]_vars
  PROVE  TokensHaveHistory'
<1> SUFFICES ASSUME NEW t \in Requests
             PROVE  /\ pc'[t] \in {"idle", "quota", "read", "revoke"} => token'[t].status = "absent"
                    /\ pc'[t] \in {"mail", "disable"} \/ t \in links' => token'[t].status # "absent"
                    /\ token'[t].status # "absent" => token'[t].user \in Users
                    /\ pc'[t] \in {"read", "revoke"} => input'[t].email \in Users
  BY DEF TokensHaveHistory
<1>0. /\ TypeOK /\ t \in Calls
      /\ pc[t] \in {"idle", "quota", "read", "revoke"} => token[t].status = "absent"
      /\ pc[t] \in {"mail", "disable"} \/ t \in links => token[t].status # "absent"
      /\ token[t].status # "absent" => token[t].user \in Users
      /\ pc[t] \in {"read", "revoke"} => input[t].email \in Users
      /\ pc[t] \notin {"lock", "check", "write"} /\ t \notin Confirms
  BY CallsAssumption DEF ResetInv, TokensHaveHistory, PhasesFit, Calls
<1>1. CASE RequestCommit(t)
  <2>1. pc[t] = "revoke" /\ links' = links
    BY <1>1 DEF RequestCommit
  <2>2. QED
    BY <1>0, <1>1, <2>1, CommitsInsert
<1>2. CASE ~RequestCommit(t)
  <2>1. token[t].status = "absent" => token'[t] = token[t]
    BY <1>2, TokensMove
  <2>2. pc'[t] \in {"idle", "quota", "read", "revoke"} => pc[t] \in {"idle", "quota", "read", "revoke"}
    BY <1>0, PhasesMove DEF Endings
  <2>3. pc'[t] \in {"mail", "disable"} => pc[t] \in {"mail", "disable"}
    BY <1>0, <1>2, PhasesMove DEF Endings
  <2>4. t \in links' => t \in links \/ token[t].status # "absent"
    BY LinksMove
  <2>5. pc'[t] \in {"read", "revoke"} => input'[t].email \in Users
    <3>1. CASE input' = input
      <4>1. CASE ConsumeQuota(t)
        BY <1>0, <3>1, <4>1 DEF ConsumeQuota, TypeOK, Goto
      <4>2. CASE ~ConsumeQuota(t)
        BY <1>0, <3>1, <4>2, PhasesMove DEF Endings
      <4>3. QED
        BY <4>1, <4>2
    <3>2. ASSUME NEW u \in Requests, NEW i \in Inputs, RequestStart(u, i)
          PROVE  pc'[t] \in {"read", "revoke"} => input'[t].email \in Users
      BY <1>0, <3>2 DEF RequestStart, TypeOK, Goto
    <3>3. QED
      BY <3>1, <3>2, Writers
  <2>6. QED
    BY <1>0, <2>1, <2>2, <2>3, <2>4, <2>5, TokensStay
<1>3. QED
  BY <1>1, <1>2

(* The token of a confirmation stays the one it chose, with its account. *)
LEMMA ChoicesStay ==
  ASSUME ResetInv, [Next]_vars, NEW c \in Confirms
  PROVE  \/ pc[c] # "idle" /\ chosen'[c] = chosen[c] /\ existed'[c] = existed[c] /\ Account(c)' = Account(c)
         \/ pc[c] = "idle" /\ pc'[c] = "idle"
         \/ /\ pc[c] = "idle" /\ pc'[c] = "lock" /\ chosen'[c].token \in links
            /\ existed'[c] = {u \in Requests : token[u].status # "absent"} /\ UNCHANGED token
<1>1. CASE pc[c] = "idle" /\ pc'[c] # "idle"
  <2>1. PICK t \in Requests, p \in Passwords : ConfirmStart(c, t, p)
    BY <1>1, PhasesMove, CallsAssumption DEF ResetInv, Calls, Endings
  <2>2. chosen'[c] = [token |-> t, password |-> p] /\ pc'[c] = "lock" /\ t \in links
    BY <2>1 DEF ConfirmStart, ResetInv, TypeOK, Goto, Calls
  <2>3. existed'[c] = {u \in Requests : token[u].status # "absent"} /\ UNCHANGED token
    BY <2>1 DEF ConfirmStart, ResetInv, TypeOK, rows
  <2>4. QED
    BY <1>1, <2>2, <2>3
<1>2. CASE pc[c] # "idle"
  <2>1. chosen'[c] = chosen[c] /\ existed'[c] = existed[c]
    <3>1. ASSUME NEW d \in Confirms, NEW t \in Requests, NEW p \in Passwords, ConfirmStart(d, t, p)
          PROVE  chosen'[c] = chosen[c] /\ existed'[c] = existed[c]
      BY <1>2, <3>1 DEF ConfirmStart, ResetInv, TypeOK
    <3>2. QED
      BY <3>1, Writers
  <2>2. /\ chosen[c].token \in Requests /\ token[chosen[c].token].status # "absent"
        /\ Account(c) = token[chosen[c].token].user
    BY <1>2, OwnToken
  <2>3. Account(c)' = token'[chosen'[c].token].user
    BY CallsAssumption DEF Account
  <2>4. QED
    BY <1>2, <2>1, <2>2, <2>3, TokensStay
<1>3. QED
  BY <1>1, <1>2

(* Tokens that existed when a confirmation began still do. *)
LEMMA StepsKeepExistedStillDoes ==
  ASSUME ResetInv, [Next]_vars
  PROVE  ExistedStillDoes'
<1> SUFFICES ASSUME NEW c \in Confirms, pc'[c] # "idle"
             PROVE  /\ chosen'[c].token \in existed'[c]
                    /\ \A t \in existed'[c] : token'[t].status # "absent"
  BY DEF ExistedStillDoes
<1>1. CASE pc[c] # "idle"
  <2>1. /\ chosen[c].token \in existed[c] /\ \A t \in existed[c] : t \in Requests /\ token[t].status # "absent"
    BY <1>1 DEF ResetInv, ExistedStillDoes, TypeOK
  <2>2. QED
    BY <1>1, <2>1, ChoicesStay, TokensStay
<1>2. CASE pc[c] = "idle"
  <2>1. /\ chosen'[c].token \in links /\ existed'[c] = {u \in Requests : token[u].status # "absent"}
        /\ UNCHANGED token
    BY <1>2, ChoicesStay
  <2>2. \A u \in links : u \in Requests /\ token[u].status # "absent"
    BY DEF ResetInv, TypeOK, TokensHaveHistory
  <2>3. QED
    BY <2>1, <2>2
<1>3. QED
  BY <1>1, <1>2

-----------------------------------------------------------------------------
(* A transaction that ends gives up its locks. *)
LEMMA EndingReleases ==
  ASSUME ResetInv, [Next]_vars, NEW x \in Calls,
         pc[x] \in {"check", "write", "read", "revoke"}, pc'[x] \notin {"check", "write", "read", "revoke"}
  PROVE  Release(x)
<1>1. TypeOK /\ pc'[x] # pc[x]
  BY DEF ResetInv
<1>2. CASE RequestCommit(x)
  BY <1>2 DEF RequestCommit
<1>3. CASE ConfirmCommit(x)
  BY <1>3 DEF ConfirmCommit
<1>4. CASE DeadlockAbort(x)
  BY <1>4 DEF DeadlockAbort
<1>5. CASE Crash(x)
  BY <1>5 DEF Crash
<1>6. CASE ConfirmCheck(x) /\ pc'[x] = "rejected"
  BY <1>1, <1>6 DEF ConfirmCheck, Goto, TypeOK
<1>7. QED
  BY <1>1, <1>2, <1>3, <1>4, <1>5, <1>6, PhasesMove DEF Endings

(* What is released has no holder. *)
LEMMA ReleasedIsFree ==
  ASSUME ResetInv, NEW x \in Calls, Release(x)
  PROVE  (\A r \in Rows : holder'[r] # x) /\ revoked'[x] = {} /\ toRevoke'[x] = {}
BY CallsAssumption DEF ResetInv, TypeOK, Release

(* Locks are held by calls in a transaction that has come to them. *)
LEMMA StepsKeepLocksFit ==
  ASSUME ResetInv, [Next]_vars
  PROVE  LocksFit'
<1>0. TypeOK /\ LocksFit
  BY DEF ResetInv
<1>1. ASSUME NEW r \in Rows, holder'[r] # Nobody
      PROVE  /\ pc'[holder'[r]] \in {"check", "write", "read", "revoke"}
             /\ r \in Requests => token'[r].status = "live"
  <2>1. CASE holder'[r] # holder[r]
    BY <1>1, <2>1, LocksMove
  <2>2. CASE holder'[r] = holder[r]
    <3>1. /\ holder[r] \in Calls /\ pc[holder[r]] \in {"check", "write", "read", "revoke"}
          /\ r \in Requests => token[r].status = "live"
      BY <1>0, <1>1, <2>2 DEF LocksFit, TypeOK
    <3> DEFINE h == holder[r]
    <3>2. pc'[h] \in {"check", "write", "read", "revoke"}
      <4> HIDE DEF h
      <4>1. h \in Calls /\ pc[h] \in {"check", "write", "read", "revoke"} /\ holder'[r] = h
        BY <2>2, <3>1 DEF h
      <4>2. QED
        BY <4>1, EndingReleases, ReleasedIsFree
    <3>3. ASSUME r \in Requests
          PROVE  token'[r].status = "live"
      <4>1. CASE token'[r] = token[r]
        BY <3>1, <3>3, <4>1
      <4>2. CASE token'[r] # token[r]
        BY <1>1, <2>2, <3>1, <3>2, <3>3, <4>2, TokensMove
      <4>3. QED
        BY <4>1, <4>2
    <3>4. QED
      BY <2>2, <3>2, <3>3
  <2>3. QED
    BY <2>1, <2>2
<1>2. ASSUME NEW c \in Confirms, pc'[c] \in {"check", "write", "read", "revoke"}
      PROVE  holder'[chosen'[c].token] = c
  <2>0. c \in Calls
    BY DEF Calls
  <2>1. CASE pc[c] \in {"check", "write", "read", "revoke"}
    <3>1. chosen'[c] = chosen[c] /\ holder[chosen[c].token] = c /\ chosen[c].token \in Rows
      BY <1>0, <2>1, ChoicesStay, OwnToken DEF LocksFit, Rows
    <3>2. holder'[chosen[c].token] = c
      BY <1>2, <2>0, <3>1, LocksMove, CallsAssumption DEF Endings
    <3>3. QED
      BY <3>1, <3>2
  <2>2. CASE pc[c] \notin {"check", "write", "read", "revoke"}
    <3>1. ConfirmLock(c) /\ pc'[c] = "check" /\ pc[c] # "idle"
      BY <1>0, <1>2, <2>0, <2>2, PhasesMove, CallsAssumption DEF Endings, ResetInv, PhasesFit
    <3>2. holder' = [holder EXCEPT ![chosen[c].token] = c] /\ chosen' = chosen
      <4>1. ~Goto(c, "rejected")
        BY <1>0, <2>0, <3>1 DEF Goto, TypeOK
      <4>2. QED
        BY <3>1, <4>1 DEF ConfirmLock
    <3>3. QED
      BY <1>0, <3>1, <3>2, OwnToken DEF TypeOK, Rows
  <2>3. QED
    BY <2>1, <2>2
<1>3. QED
  BY <1>1, <1>2 DEF LocksFit, Rows

(* What a transaction has yet to revoke and has revoked: the UPDATE gathers,   *)
(* then moves one row at a time, and the end of the transaction clears both.   *)
LEMMA RevokingMoves ==
  ASSUME ResetInv, [Next]_vars, NEW x \in Calls
  PROVE  \/ revoked'[x] = revoked[x] /\ toRevoke'[x] = toRevoke[x]
         \/ revoked'[x] = {} /\ toRevoke'[x] = {} /\ pc'[x] # "revoke"
         \/ RevokeBegin(x) /\ revoked'[x] = revoked[x]
         \/ /\ pc[x] = "revoke" /\ pc'[x] = "revoke"
            /\ \E t \in Requests : /\ RevokeRow(x, t) /\ toRevoke'[x] = toRevoke[x] \ {t}
                                   /\ revoked'[x] \in {revoked[x], revoked[x] \cup {t}} /\ (t \in revoked'[x] => t \in revoked[x] \/ holder'[t] = x)
                                   /\ token[t].status = "live" => t \in revoked'[x]
<1>0. TypeOK
  BY DEF ResetInv
<1>1. ASSUME NEW y \in Calls, Release(y), pc'[y] \in Endings \cup {"mail"}
      PROVE  \/ revoked'[x] = revoked[x] /\ toRevoke'[x] = toRevoke[x]
             \/ revoked'[x] = {} /\ toRevoke'[x] = {} /\ pc'[x] # "revoke"
  BY <1>0, <1>1 DEF Release, TypeOK, Endings
<1>2. ASSUME NEW c \in Confirms, ConfirmLock(c), pc'[c] = "check"
      PROVE  revoked'[x] = revoked[x] /\ toRevoke'[x] = toRevoke[x]
  <2>1. ~Goto(c, "rejected")
    BY <1>0, <1>2 DEF Goto, TypeOK, Calls
  <2>2. QED
    BY <1>2, <2>1 DEF ConfirmLock
<1>3. ASSUME NEW c \in Confirms, ConfirmWrite(c)
      PROVE  revoked'[x] = revoked[x] /\ toRevoke'[x] = toRevoke[x]
  BY <1>3 DEF ConfirmWrite, private
<1>4. ASSUME NEW y \in Calls, RevokeBegin(y)
      PROVE  \/ revoked'[x] = revoked[x] /\ toRevoke'[x] = toRevoke[x]
             \/ RevokeBegin(x) /\ revoked'[x] = revoked[x]
  BY <1>0, <1>4 DEF RevokeBegin, TypeOK
<1>5. ASSUME NEW y \in Calls, NEW t \in Requests, RevokeRow(y, t)
      PROVE  \/ revoked'[x] = revoked[x] /\ toRevoke'[x] = toRevoke[x]
             \/ /\ pc[x] = "revoke" /\ pc'[x] = "revoke" /\ RevokeRow(x, t) /\ toRevoke'[x] = toRevoke[x] \ {t}
                /\ revoked'[x] \in {revoked[x], revoked[x] \cup {t}} /\ (t \in revoked'[x] => t \in revoked[x] \/ holder'[t] = x)
                /\ token[t].status = "live" => t \in revoked'[x]
  <2>1. CASE x = y
    <3>1. pc[x] = "revoke" /\ pc'[x] = "revoke" /\ RevokeRow(x, t)
      BY <1>5, <2>1 DEF RevokeRow
    <3>2. toRevoke'[x] = toRevoke[x] \ {t}
      BY <1>0, <1>5, <2>1 DEF RevokeRow, TypeOK
    <3>3. CASE token[t].status = "live"
      BY <1>0, <1>5, <2>1, <3>1, <3>2, <3>3 DEF RevokeRow, TypeOK, Rows
    <3>4. CASE token[t].status # "live"
      BY <1>0, <1>5, <2>1, <3>1, <3>2, <3>4 DEF RevokeRow
    <3>5. QED
      BY <3>3, <3>4
  <2>2. CASE x # y
    BY <1>0, <1>5, <2>2 DEF RevokeRow, TypeOK
  <2>3. QED
    BY <2>1, <2>2
<1>6. CASE \E y \in Calls, t \in Requests : RevokeRow(y, t)
  BY <1>5, <1>6
<1>7. CASE UNCHANGED <<holder, revoked, toRevoke>>
  BY <1>7
<1>8. QED
  BY <1>0, <1>1, <1>2, <1>3, <1>4, <1>6, <1>7, Lockers

(* What a reset is about to revoke is locked by it. *)
LEMMA StepsKeepRevokedIsHeld ==
  ASSUME ResetInv, [Next]_vars
  PROVE  RevokedIsHeld'
<1>0. TypeOK /\ LocksFit /\ RevokedIsHeld
  BY DEF ResetInv
<1> SUFFICES ASSUME NEW x \in Calls
             PROVE  (pc'[x] # "revoke" => revoked'[x] = {}) /\ \A t \in revoked'[x] : holder'[t] = x
  BY DEF RevokedIsHeld
<1>1. ASSUME NEW t \in revoked[x], pc'[x] = "revoke"
      PROVE  holder'[t] = x
  <2>1. holder[t] = x /\ t \in Rows
    BY <1>0, <1>1 DEF RevokedIsHeld, TypeOK, Rows
  <2>2. QED
    BY <1>1, <2>1, LocksMove, CallsAssumption DEF Endings
<1>2. pc'[x] # "revoke" => revoked'[x] = {}
  <2>1. CASE pc[x] = "revoke" /\ pc'[x] # "revoke"
    <3>1. Release(x)
      <4>1. pc'[x] \notin {"check", "write", "read", "revoke"}
        BY <1>0, <2>1, PhasesMove DEF Endings
      <4>2. QED
        BY <2>1, <4>1, EndingReleases
    <3>2. QED
      BY <3>1, ReleasedIsFree
  <2>2. CASE pc[x] # "revoke"
    <3>1. revoked[x] = {}
      BY <1>0, <2>2 DEF RevokedIsHeld
    <3>2. QED
      BY <2>2, <3>1, RevokingMoves
  <2>3. QED
    BY <2>1, <2>2
<1>3. CASE pc'[x] = "revoke"
  BY <1>1, <1>3, RevokingMoves
<1>4. CASE pc'[x] # "revoke"
  BY <1>2, <1>4
<1>5. QED
  BY <1>2, <1>3, <1>4

-----------------------------------------------------------------------------
(* A reset that is to revoke a user's links has gathered all of them. *)
LEMMA StepsKeepOldLinksAreGathered ==
  ASSUME ResetInv, [Next]_vars
  PROVE  OldLinksAreGathered'
<1>0. TypeOK /\ ExistedStillDoes /\ OldLinksAreGathered
  BY DEF ResetInv
<1> SUFFICES ASSUME NEW c \in Confirms, pc'[c] = "revoke", NEW t \in existed'[c],
                    token'[t].status = "live", token'[t].user = Account(c)'
             PROVE  t \in toRevoke'[c] \cup revoked'[c]
  BY DEF OldLinksAreGathered
<1>1. c \in Calls /\ pc[c] # "idle"
  BY <1>0, PhasesMove DEF Calls, Endings
<1>2. existed'[c] = existed[c] /\ Account(c)' = Account(c)
  BY <1>1, ChoicesStay
<1>3. t \in Requests /\ t \in existed[c] /\ token[t].status = "live" /\ token[t].user = Account(c)
  <2>1. t \in Requests /\ t \in existed[c] /\ token[t].status # "absent"
    BY <1>0, <1>1, <1>2 DEF ExistedStillDoes, TypeOK
  <2>2. QED
    BY <1>2, <2>1, TokensStay
<1>4. CASE pc[c] = "revoke"
  <2>1. t \in toRevoke[c] \cup revoked[c]
    BY <1>0, <1>3, <1>4 DEF OldLinksAreGathered
  <2>2. ~RevokeBegin(c)
    BY <1>4 DEF RevokeBegin
  <2>3. QED
    BY <1>1, <1>3, <2>1, <2>2, RevokingMoves
<1>5. CASE pc[c] # "revoke"
  <2>1. RevokeBegin(c)
    BY <1>0, <1>1, <1>5, PhasesMove DEF Endings
  <2>2. toRevoke'[c] = LiveTokens(Account(c))
    BY <1>0, <1>1, <2>1 DEF RevokeBegin, Revocable, TypeOK
  <2>3. QED
    BY <1>3, <2>2 DEF LiveTokens
<1>6. QED
  BY <1>4, <1>5

(* A confirmation commits when it has got at every pending token of its        *)
(* account that it knew of.                                                    *)
LEMMA CommitsUseUp ==
  ASSUME ResetInv, [Next]_vars, NEW c \in Confirms, ConfirmCommit(c), NEW t \in existed[c],
         token[t].user = Account(c)
  PROVE  token'[t].status # "live"
<1>0. TypeOK /\ c \in Calls /\ t \in Requests
  BY DEF ResetInv, TypeOK, Calls
<1>1. pc[c] = "revoke" /\ toRevoke[c] = {} /\ token' = Used(c)
  BY DEF ConfirmCommit
<1>2. CASE token[t].status = "live"
  <2>1. t \in revoked[c]
    BY <1>1, <1>2 DEF ResetInv, OldLinksAreGathered
  <2>2. token'[t] = [token[t] EXCEPT !.status = "used"]
    BY <1>0, <1>1, <2>1 DEF Used
  <2>3. QED
    BY <1>0, <2>2 DEF TypeOK, Token
<1>3. CASE token[t].status # "live"
  <2>1. token[t].status # "absent"
    BY <1>1 DEF ResetInv, ExistedStillDoes
  <2>2. QED
    BY <1>0, <1>3, <2>1, TokensStay
<1>4. QED
  BY <1>2, <1>3

(* Once a password was reset, no older link is live. *)
LEMMA StepsKeepOldLinksAreDead ==
  ASSUME ResetInv, [Next]_vars
  PROVE  OldLinksAreDead'
<1>0. TypeOK /\ ExistedStillDoes /\ OldLinksAreDead /\ TokensHaveHistory
  BY DEF ResetInv
<1>1. ASSUME NEW c \in Confirms, pc'[c] = "done", NEW t \in existed'[c],
             token'[t].user = token'[chosen'[c].token].user
      PROVE  token'[t].status # "live"
  <2>1. c \in Calls /\ pc[c] # "idle"
    BY <1>0, <1>1, PhasesMove, CallsAssumption DEF Calls, Endings
  <2>2. /\ chosen'[c] = chosen[c] /\ existed'[c] = existed[c] /\ t \in existed[c]
        /\ t \in Requests /\ token[t].status # "absent"
        /\ chosen[c].token \in Requests /\ token[chosen[c].token].status # "absent"
        /\ Account(c) = token[chosen[c].token].user
    BY <1>0, <1>1, <2>1, ChoicesStay, OwnToken DEF ExistedStillDoes, TypeOK
  <2>3. token[t].user = token[chosen[c].token].user
    BY <1>1, <2>2, TokensStay
  <2>4. CASE pc[c] = "done"
    <3>1. token[t].status # "live"
      BY <1>0, <2>2, <2>3, <2>4 DEF OldLinksAreDead, Succeeded
    <3>2. QED
      BY <2>2, <3>1, TokensStay
  <2>5. CASE pc[c] # "done"
    <3>1. ConfirmCommit(c)
      BY <1>0, <1>1, <2>1, <2>5, PhasesMove, CallsAssumption DEF Endings
    <3>2. QED
      BY <2>2, <2>3, <3>1, CommitsUseUp
  <2>6. QED
    BY <2>4, <2>5
<1>2. ASSUME NEW t \in Requests, pc'[t] = "done", token'[t].status = "live"
      PROVE  t \in links'
  <2>0. t \in Calls
    BY DEF Calls
  <2>1. t \in links => t \in links'
    BY Writers DEF SendMail
  <2>2. CASE pc[t] = "done"
    <3>1. token[t].status # "absent"
      BY <1>2, <2>2, TokensMove DEF RequestCommit
    <3>2. QED
      BY <1>0, <1>2, <2>1, <2>2, <3>1, TokensStay DEF OldLinksAreDead
  <2>3. CASE pc[t] # "done"
    <3>1. ConsumeQuota(t) \/ SendMail(t) \/ DisableToken(t)
      BY <1>0, <1>2, <2>0, <2>3, PhasesMove, CallsAssumption DEF Endings
    <3>2. ~ConsumeQuota(t)
      <4>1. ConsumeQuota(t) => token[t].status = "absent" /\ token' = token
        BY <1>0 DEF ConsumeQuota, TokensHaveHistory
      <4>2. QED
        BY <1>2, <4>1
    <3>3. CASE SendMail(t)
      BY <1>0, <1>2, <2>0, <3>3 DEF SendMail, TypeOK, Goto, AfterFailedMail
    <3>4. ~DisableToken(t)
      <4>1. DisableToken(t) => token'[t].status # "live"
        BY <1>0 DEF DisableToken, TypeOK, Token
      <4>2. QED
        BY <1>2, <4>1
    <3>5. QED
      BY <3>1, <3>2, <3>3, <3>4
  <2>4. QED
    BY <2>2, <2>3
<1>3. QED
  BY <1>1, <1>2 DEF OldLinksAreDead, Succeeded

(* The token of a confirmation that commits is still pending, and that of one  *)
(* that has succeeded is not.                                                  *)
LEMMA StepsKeepLinkResetsOnce ==
  ASSUME ResetInv, LinkResetsOnce, [Next]_vars
  PROVE  LinkResetsOnce'
<1>0. TypeOK /\ LocksFit /\ ExistedStillDoes /\ OldLinksAreDead
  BY DEF ResetInv
<1>1. ASSUME NEW c \in Confirms, pc'[c] = "done"
      PROVE  /\ pc[c] # "idle" /\ chosen'[c] = chosen[c] /\ chosen[c].token \in Requests
             /\ pc[c] = "done" => token[chosen[c].token].status # "live"
             /\ pc[c] # "done" => ConfirmCommit(c) /\ token[chosen[c].token].status = "live"
  <2>1. c \in Calls /\ pc[c] # "idle"
    BY <1>0, <1>1, PhasesMove, CallsAssumption DEF Calls, Endings
  <2>2. chosen'[c] = chosen[c] /\ chosen[c].token \in Requests
    BY <2>1, ChoicesStay, OwnToken
  <2>3. pc[c] = "done" => token[chosen[c].token].status # "live"
    BY <1>0, <2>1 DEF OldLinksAreDead, Succeeded, ExistedStillDoes
  <2>4. ASSUME pc[c] # "done"
        PROVE  ConfirmCommit(c) /\ token[chosen[c].token].status = "live"
    <3>1. ConfirmCommit(c)
      BY <1>0, <1>1, <2>1, <2>4, PhasesMove, CallsAssumption DEF Endings
    <3>2. pc[c] = "revoke" /\ holder[chosen[c].token] = c /\ c # Nobody
      BY <1>0, <2>1, <3>1, CallsAssumption DEF ConfirmCommit, LocksFit
    <3>3. QED
      BY <1>0, <2>2, <3>1, <3>2 DEF LocksFit
  <2>5. QED
    BY <2>1, <2>2, <2>3, <2>4
<1>2. ASSUME NEW c \in Confirms, NEW d \in Confirms, pc'[c] = "done", pc'[d] = "done",
             pc[c] # "done", pc[d] # "done"
      PROVE  c = d
  <2>1. ConfirmCommit(c) /\ c \in Calls /\ d \in Calls
    BY <1>1, <1>2 DEF Calls
  <2>2. QED
    BY <1>0, <1>2, <2>1, Moves DEF ConfirmCommit
<1>3. ASSUME NEW c \in Confirms, NEW d \in Confirms, pc'[c] = "done", pc'[d] = "done",
             chosen'[c].token = chosen'[d].token
      PROVE  c = d
  <2>1. CASE pc[c] = "done" /\ pc[d] = "done"
    BY <1>1, <1>3, <2>1 DEF LinkResetsOnce, Succeeded
  <2>2. CASE pc[c] # "done" /\ pc[d] # "done"
    BY <1>2, <1>3, <2>2
  <2>3. QED
    BY <1>1, <1>3, <2>1, <2>2
<1>4. QED
  BY <1>3 DEF LinkResetsOnce, Succeeded

-----------------------------------------------------------------------------
(* The invariant holds at first ... *)
LEMMA InitResetInv ==
  ASSUME Init
  PROVE  ResetInv /\ LinkResetsOnce
<1>1. \A x \in Calls : pc[x] = "idle" /\ revoked[x] = {}
  BY DEF Init
<1>2. \A t \in Requests : token[t].status = "absent" /\ holder[t] = Nobody
  BY DEF Init, Rows
<1>3. TypeOK
  <2>1. (CHOOSE k \in Keys : TRUE) \in Keys
    BY InputsAssumption
  <2>2. (CHOOSE i \in Input : TRUE) \in Input
    <3>1. [email |-> CHOOSE k \in Keys : TRUE, origin |-> CHOOSE k \in Keys : TRUE] \in Input
      BY <2>1 DEF Input
    <3>2. QED
      BY <3>1
  <2>3. (CHOOSE ch \in Choice : TRUE) \in Choice
    <3>1. PICK t : t \in Requests
      BY CallsAssumption
    <3>2. [token |-> t, password |-> FirstPassword] \in Choice
      BY <3>1, PasswordsAssumption DEF Choice
    <3>3. QED
      BY <3>2
  <2> DEFINE someKey == CHOOSE k \in Keys : TRUE
  <2> DEFINE someInput == CHOOSE i \in Input : TRUE
  <2> DEFINE someChoice == CHOOSE ch \in Choice : TRUE
  <2>4. /\ token = [t \in Requests |-> [status |-> "absent", user |-> someKey, expires |-> 0]]
        /\ input = [t \in Requests |-> someInput] /\ chosen = [c \in Confirms |-> someChoice]
    BY DEF Init
  <2> HIDE DEF someKey, someInput, someChoice
  <2>5. token \in [Requests -> Token] /\ input \in [Requests -> Input] /\ chosen \in [Confirms -> Choice]
    BY <2>1, <2>2, <2>3, <2>4 DEF Token, someKey, someInput, someChoice
  <2>6. QED
    BY <2>5, PasswordsAssumption, TimesAssumption DEF Init, TypeOK, NoQuota, Quota
<1>4. \A t \in Requests : t \in Calls /\ t \in Rows
  BY DEF Calls, Rows
<1>5. \A c \in Confirms : c \in Calls
  BY DEF Calls
<1>6. \A r \in Rows : holder[r] = Nobody
  BY DEF Init
<1>7. links = {}
  BY DEF Init
<1>8. PhasesFit /\ TokensHaveHistory /\ LocksFit /\ RevokedIsHeld
  BY <1>1, <1>2, <1>4, <1>5, <1>6, <1>7 DEF PhasesFit, TokensHaveHistory, LocksFit, RevokedIsHeld
<1>9. ExistedStillDoes /\ OldLinksAreGathered /\ OldLinksAreDead /\ LinkResetsOnce
  BY <1>1, <1>4, <1>5 DEF ExistedStillDoes, OldLinksAreGathered, OldLinksAreDead, LinkResetsOnce, Succeeded
<1>10. QED
  BY <1>3, <1>8, <1>9 DEF ResetInv

(* ... and after every step. *)
LEMMA StepsKeepResetInv ==
  ASSUME ResetInv, LinkResetsOnce, [Next]_vars
  PROVE  (ResetInv /\ LinkResetsOnce)'
<1>1. TypeOK'
  BY StepsKeepTypes DEF ResetInv
<1>2. QED
  BY <1>1, StepsKeepPhasesFit, StepsKeepTokensHaveHistory, StepsKeepLocksFit, StepsKeepRevokedIsHeld,
     StepsKeepExistedStillDoes, StepsKeepOldLinksAreGathered, StepsKeepOldLinksAreDead,
     StepsKeepLinkResetsOnce DEF ResetInv

(* Every reachable state satisfies the inductive invariant: what the calls     *)
(* hold, know and have revoked fits where they are in their transactions.      *)
THEOREM ResetHolds == Spec => [](ResetInv /\ LinkResetsOnce)
<1>1. QED
  BY InitResetInv, StepsKeepResetInv, PTL DEF Spec

(* TypeOK of the Init and Next of PasswordReset, whatever the number of calls. *)
THEOREM ResetTypes == Spec => []TypeOK
<1>1. ResetInv => TypeOK
  BY DEF ResetInv
<1>2. QED
  BY <1>1, ResetHolds, PTL

(* Two confirmations never succeed with one link, however many present it and  *)
(* however confirm_password_reset interleaves with itself and with requests.   *)
THEOREM ALinkResetsOnce == Spec => []LinkResetsOnce
<1>1. QED
  BY ResetHolds, PTL

(* After a confirmation no link of its account that existed when it began can  *)
(* be used, and a request that could not mail its link leaves no usable token. *)
THEOREM OldLinksStayDead == Spec => []OldLinksAreDead
<1>1. ResetInv => OldLinksAreDead
  BY DEF ResetInv
<1>2. QED
  BY <1>1, ResetHolds, PTL

(* A token that has been inserted keeps its account, never disappears from the *)
(* records the model keeps of it, and is never pending again once it is not.   *)
TokensOnlyDie ==
  [][\A t \in Requests : token[t].status # "absent" =>
       /\ token'[t].status # "absent" /\ token'[t].user = token[t].user
       /\ token'[t].status = "live" => token[t].status = "live"]_vars

(* TokensOnlyDie, of every action that writes password_reset_tokens. *)
THEOREM TokensNeverComeBack == Spec => TokensOnlyDie
<1>1. ResetInv /\ [Next]_vars =>
      \A t \in Requests : token[t].status # "absent" =>
        /\ token'[t].status # "absent" /\ token'[t].user = token[t].user
        /\ token'[t].status = "live" => token[t].status = "live"
  BY TokensStay
<1>2. QED
  BY <1>1, ResetHolds, PTL DEF Spec, TokensOnlyDie

=============================================================================
