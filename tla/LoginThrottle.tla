--------------------------- MODULE LoginThrottle ---------------------------
(***************************************************************************)
(* auth.authenticate_with_throttle: logins with a password, counted per    *)
(* identity and per source in auth_login_throttles, as concurrent READ     *)
(* COMMITTED transactions that lock, create, count and delete those rows.  *)
(***************************************************************************)
EXTENDS Naturals, FiniteSets

CONSTANTS
  Attempts,    \* calls of authenticate_with_throttle, numbered as they begin
  Nobody,      \* the holder of a row nobody has locked
  Identities,  \* e-mails, registered or not
  Sources,     \* network addresses
  Inputs,      \* what an attempt may carry
  Window,      \* _LOGIN_WINDOW
  Block,       \* _LOGIN_BLOCK
  Limit,       \* _LOGIN_MAX_FAILURES
  Retention,   \* how long idle rows are kept
  MaxDuration, \* bound of the environment: how long an attempt may take
  MaxNow       \* bound of the clock

Keys  == Identities \cup Sources
Input == [identity : Identities, source : Sources, right : BOOLEAN]

ASSUME KeysAssumption   ==
  Identities # {} /\ Sources # {} /\ Identities \cap Sources = {} /\ Inputs \subseteq Input
ASSUME AttemptsAssumption ==
  Attempts \subseteq Nat /\ IsFiniteSet(Attempts) /\ Nobody \notin Attempts
(* An attempt ends long before a block or a window of 15 minutes does.        *)
ASSUME TimesAssumption  ==
  /\ Window \in Nat /\ Block \in Nat /\ Retention \in Nat /\ MaxDuration \in Nat /\ MaxNow \in Nat
  /\ Limit \in Nat \ {0} /\ MaxDuration < Block /\ MaxDuration < Window

VARIABLES
  now,
  bucket,    \* committed rows of auth_login_throttles
  holder,    \* who has locked or is inserting each of them
  pc, scope, input, clock,
  seen,      \* the rows an attempt has loaded, and changed, under its lock
  (* For the properties: the failures that were answered before a row was    *)
  (* last deleted, and whether an attempt found its identity blocked as it    *)
  (* began and that block has not ended.                                      *)
  erased, barred

vars == <<now, bucket, holder, pc, scope, input, clock, seen, erased, barred>>

Scopes  == {"identity", "source"}
Answers == {"accepted", "failed", "throttled", "refused", "error"}

(* A row; blocked is 0 while blocked_until is null.  A missing row is NoBucket. *)
Bucket   == [exists : BOOLEAN, count : Nat, since : Nat, blocked : Nat]
NoBucket == [exists |-> FALSE, count |-> 0, since |-> 0, blocked |-> 0]
Unread   == [s \in Scopes |-> NoBucket]

(* The type of every variable; a missing row has no content, and a row that   *)
(* carries a block has counted enough failures for it.                        *)
TypeOK ==
  /\ now \in Nat
  /\ bucket \in [Keys -> Bucket]
  /\ \A k \in Keys : /\ ~bucket[k].exists => bucket[k] = NoBucket
                     /\ bucket[k].blocked # 0 => bucket[k].count >= Limit
  /\ holder \in [Keys -> Attempts \cup {Nobody}]
  /\ pc \in [Attempts -> {"idle", "clean", "find", "decide", "count", "insert", "retry", "commit"}
                         \cup Answers]
  /\ scope \in [Attempts -> Scopes]
  /\ input \in [Attempts -> Input]
  /\ clock \in [Attempts -> Nat]
  /\ seen \in [Attempts -> [Scopes -> Bucket]]
  /\ erased \in [Keys -> SUBSET Attempts]
  /\ barred \in [Attempts -> BOOLEAN]

Init ==
  /\ now = 0
  /\ bucket = [k \in Keys |-> NoBucket]
  /\ holder = [k \in Keys |-> Nobody]
  /\ pc = [x \in Attempts |-> "idle"]
  /\ scope = [x \in Attempts |-> "identity"]
  /\ input = [x \in Attempts |-> CHOOSE i \in Input : TRUE]
  /\ clock = [x \in Attempts |-> 0]
  /\ seen = [x \in Attempts |-> Unread]
  /\ erased = [k \in Keys |-> {}]
  /\ barred = [x \in Attempts |-> FALSE]

-----------------------------------------------------------------------------
(* Operators whose comment begins with "Mutant" are wrong on purpose: putting *)
(* one in the place of the definition that follows it must break a property.  *)

Active(x)       == pc[x] \notin {"idle"} \cup Answers
Goto(x, phase)  == pc' = [pc EXCEPT ![x] = phase]
KeyOf(x)        == input[x][scope[x]]
KeysOf(x)       == {input[x].identity, input[x].source}

(* The attempts whose wrong password was counted against k. *)
Counted(k) == {x \in Attempts : pc[x] \in {"failed", "throttled"} /\ k \in KeysOf(x)}

(* Mutant: a block counts only while the window of the failures lasts. *)
RetryInWindow(b, time) == b.blocked > time /\ b.since + Window > time

(* _active_retry_after *)
RetryAfter(b, time) == b.blocked > time

(* Mutant: the select of _find_bucket lacks FOR UPDATE. *)
RowIsRead(x, k) == TRUE

RowIsFree(x, k) == holder[k] \in {Nobody, x}

(* Ends the transaction of x with an answer. *)
Answer(x, answer) ==
  /\ Goto(x, answer)
  /\ holder' = [k \in Keys |-> IF holder[k] = x THEN Nobody ELSE holder[k]]
  /\ seen' = [seen EXCEPT ![x] = Unread]
  /\ scope' = [scope EXCEPT ![x] = "identity"]

(* The rows in K are deleted: what was counted against them is forgotten. *)
Delete(K) ==
  /\ bucket' = [k \in Keys |-> IF k \in K THEN NoBucket ELSE bucket[k]]
  /\ erased' = [k \in Keys |-> IF k \in K THEN Counted(k) ELSE erased[k]]

-----------------------------------------------------------------------------
(* The clock is read before any row is. *)
Start(x, i) ==
  /\ pc[x] = "idle" /\ Goto(x, "clean")
  /\ \A y \in Attempts : y < x => pc[y] # "idle"
  /\ input' = [input EXCEPT ![x] = i]
  /\ clock' = [clock EXCEPT ![x] = now]
  /\ barred' = [barred EXCEPT ![x] = bucket[i.identity].blocked > now]
  /\ UNCHANGED <<now, bucket, holder, scope, seen, erased>>

Stale(x) == {k \in Keys : /\ bucket[k].exists
                          /\ bucket[k].since + Retention < clock[x]
                          /\ bucket[k].blocked < clock[x]}

(* The clean-up of every caller's old rows, with a commit of its own. *)
Clean(x) ==
  /\ pc[x] = "clean" /\ Goto(x, "find")
  /\ \A k \in Stale(x) : holder[k] = Nobody
  /\ Delete(Stale(x))
  /\ UNCHANGED <<now, holder, scope, input, clock, seen, barred>>

(* SELECT ... FOR UPDATE of the row k: a missing row is not locked, and one    *)
(* that another attempt is inserting is missing still.                         *)
Select(x, k) ==
  /\ bucket[k].exists => RowIsFree(x, k)
  /\ holder' = IF bucket[k].exists THEN [holder EXCEPT ![k] = x] ELSE holder
  /\ seen' = [seen EXCEPT ![x][scope[x]] = bucket[k]]

(* _find_bucket of the identity, then of the source. *)
Find(x) ==
  /\ pc[x] = "find" /\ Select(x, KeyOf(x))
  /\ \/ scope[x] = "identity" /\ scope' = [scope EXCEPT ![x] = "source"] /\ UNCHANGED pc
     \/ scope[x] = "source" /\ scope' = [scope EXCEPT ![x] = "identity"] /\ Goto(x, "decide")
  /\ UNCHANGED <<now, bucket, input, clock, erased, barred>>

IdentityBlocked(x) == RetryAfter(seen[x]["identity"], clock[x])
SourceBlocked(x)   == RetryAfter(seen[x]["source"], clock[x])

(* A blocked identity is refused whatever its password; a blocked source only  *)
(* when the password is wrong.                                                 *)
Refuse(x) ==
  /\ pc[x] = "decide"
  /\ IdentityBlocked(x) \/ (~input[x].right /\ SourceBlocked(x))
  /\ Answer(x, "refused")
  /\ UNCHANGED <<now, bucket, input, clock, erased, barred>>

(* The right password deletes the row of the identity, if there was one. *)
Accept(x) ==
  /\ pc[x] = "decide" /\ ~IdentityBlocked(x) /\ input[x].right
  /\ Delete(IF seen[x]["identity"].exists THEN {input[x].identity} ELSE {})
  /\ Answer(x, "accepted")
  /\ UNCHANGED <<now, input, clock, barred>>

Reject(x) ==
  /\ pc[x] = "decide" /\ ~IdentityBlocked(x) /\ ~input[x].right /\ ~SourceBlocked(x)
  /\ Goto(x, "count")
  /\ UNCHANGED <<now, bucket, holder, scope, input, clock, seen, erased, barred>>

-----------------------------------------------------------------------------
(* Counting the failure, for the identity and then for the source. *)

(* _get_or_create_bucket: a row that was missing is looked for again, *)
Lookup(x) ==
  /\ pc[x] = "count" /\ ~seen[x][scope[x]].exists
  /\ Select(x, KeyOf(x))
  /\ IF bucket[KeyOf(x)].exists THEN UNCHANGED pc ELSE Goto(x, "insert")
  /\ UNCHANGED <<now, bucket, scope, input, clock, erased, barred>>

(* inserted, after the wait for whoever is inserting the same key, *)
Insert(x) ==
  /\ pc[x] = "insert"
  /\ \/ /\ bucket[KeyOf(x)].exists
        /\ Goto(x, "retry")
        /\ UNCHANGED <<holder, seen>>
     \/ /\ ~bucket[KeyOf(x)].exists /\ holder[KeyOf(x)] = Nobody
        /\ holder' = [holder EXCEPT ![KeyOf(x)] = x]
        /\ seen' = [seen EXCEPT ![x][scope[x]] =
                      [exists |-> TRUE, count |-> 0, since |-> clock[x], blocked |-> 0]]
        /\ Goto(x, "count")
  /\ UNCHANGED <<now, bucket, scope, input, clock, erased, barred>>

(* and selected once more after an IntegrityError, which is raised again when  *)
(* the row is gone by then.                                                    *)
Retry(x) ==
  /\ pc[x] = "retry"
  /\ \/ /\ bucket[KeyOf(x)].exists
        /\ Select(x, KeyOf(x))
        /\ Goto(x, "count")
        /\ UNCHANGED scope
     \/ /\ ~bucket[KeyOf(x)].exists
        /\ Answer(x, "error")
  /\ UNCHANGED <<now, bucket, input, clock, erased, barred>>

Renewed(b, time) ==
  IF time >= b.since + Window THEN [b EXCEPT !.count = 0, !.since = time, !.blocked = 0] ELSE b

AtLimit(n) == n >= Limit

(* The row b after one more failure. *)
WithFailure(b, time) ==
  LET r == Renewed(b, time)
  IN  [r EXCEPT !.count = @ + 1, !.blocked = IF AtLimit(r.count + 1) THEN time + Block ELSE @]

Count(x) ==
  /\ pc[x] = "count" /\ seen[x][scope[x]].exists
  /\ seen' = [seen EXCEPT ![x][scope[x]] = WithFailure(@, clock[x])]
  /\ \/ scope[x] = "identity" /\ scope' = [scope EXCEPT ![x] = "source"] /\ UNCHANGED pc
     \/ scope[x] = "source" /\ Goto(x, "commit") /\ UNCHANGED scope
  /\ UNCHANGED <<now, bucket, holder, input, clock, erased, barred>>

(* Both rows are committed; 429 when either reached the limit, else 401. *)
Commit(x) ==
  /\ pc[x] = "commit"
  /\ bucket' = [k \in Keys |-> IF k = input[x].identity THEN seen[x]["identity"]
                               ELSE IF k = input[x].source THEN seen[x]["source"] ELSE bucket[k]]
  /\ Answer(x, IF \E s \in Scopes : AtLimit(seen[x][s].count) THEN "throttled" ELSE "failed")
  /\ UNCHANGED <<now, input, clock, erased, barred>>

-----------------------------------------------------------------------------
(* The row the next statement of x waits for. *)
Wanted(x) ==
  CASE pc[x] \in {"find", "retry"} -> {k \in {KeyOf(x)} : bucket[k].exists}
    [] pc[x] = "count"  -> {k \in {KeyOf(x)} : bucket[k].exists /\ ~seen[x][scope[x]].exists}
    [] pc[x] = "insert" -> {k \in {KeyOf(x)} : ~bucket[k].exists}
    [] OTHER            -> {}

Blocked(x) == \E k \in Wanted(x) : holder[k] \notin {Nobody, x}

Deadlocked(x) ==
  \E S \in SUBSET Attempts :
    x \in S /\ \A y \in S : Blocked(y) /\ \A k \in Wanted(y) : holder[k] \in S

(* Mutant: nothing breaks a cycle of waiting transactions. *)
NeverDetected(x) == FALSE

Detected(x) == Deadlocked(x)

(* PostgreSQL cancels one transaction of a cycle, and nothing catches the error. *)
DeadlockAbort(x) ==
  /\ Detected(x)
  /\ Answer(x, "error")
  /\ UNCHANGED <<now, bucket, input, clock, erased, barred>>

Tick ==
  /\ now < MaxNow /\ now' = now + 1
  /\ \A x \in Attempts : Active(x) => now' <= clock[x] + MaxDuration
  /\ barred' = [x \in Attempts |-> barred[x] /\ bucket[input[x].identity].blocked > now']
  /\ UNCHANGED <<bucket, holder, pc, scope, input, clock, seen, erased>>

Step(x) ==
  \/ Clean(x) \/ Find(x)
  \/ Refuse(x) \/ Accept(x) \/ Reject(x)
  \/ Lookup(x) \/ Insert(x) \/ Retry(x) \/ Count(x) \/ Commit(x)
  \/ DeadlockAbort(x)

Next ==
  \/ \E x \in Attempts, i \in Inputs : Start(x, i)
  \/ \E x \in Attempts : Step(x)
  \/ Tick

Spec == Init /\ [][Next]_vars

(* The server keeps executing the attempts it accepted, in whatever order. *)
FairSpec == Spec /\ WF_vars(\E x \in Attempts : Step(x))

-----------------------------------------------------------------------------
(* No failure is lost and none is invented: the count of a row covers every    *)
(* wrong password that was answered within its window since the row was last   *)
(* deleted, and nothing else, although the rows are created concurrently; and  *)
(* the failure that reaches the limit is answered 429: within one window fewer *)
(* than Limit wrong passwords of an identity, or of a source, are answered 401.*)
FailuresAreCounted ==
  \A k \in Keys :
    LET remembered == Counted(k) \ erased[k]
        recent     == {x \in remembered : clock[x] >= bucket[k].since}
    IN  /\ Cardinality(recent) <= bucket[k].count
        /\ bucket[k].count <= Cardinality(remembered)
        /\ Cardinality({x \in recent : pc[x] = "failed"}) < Limit

(* An attempt that begins while its identity is blocked is not accepted as     *)
(* long as that block lasts, whatever the attempts that run beside it, with     *)
(* clocks read before or after, commit, delete or clean up meanwhile.           *)
BlockedIsRefused == \A x \in Attempts : barred[x] => pc[x] # "accepted"

(* Every attempt that begins is answered, although the rows of one attempt are *)
(* locked in an order that depends on which of them exist.                     *)
EveryAttemptEnds == <>[](\A x \in Attempts : ~Active(x))
=============================================================================
