------------------------ MODULE LoginThrottleProofs ------------------------
(***************************************************************************)
(* Theorems about LoginThrottle, for any number of concurrent attempts of   *)
(* any identities from any sources, and any window, block and limit.        *)
(***************************************************************************)
EXTENDS LoginThrottle, FiniteSetTheorems, TLAPS

(* The row attempt x works on in a scope, and whether x has looked for it, and *)
(* has counted its failure on it.                                              *)
KeyIn(x, s) == input[x][s]

Counting == {"count", "insert", "retry"}

Looked(x, s) ==
  \/ pc[x] \in {"decide", "commit"} \cup Counting
  \/ pc[x] = "find" /\ scope[x] = "source" /\ s = "identity"

HasCounted(x, s) ==
  \/ pc[x] = "commit"
  \/ pc[x] \in Counting /\ scope[x] = "source" /\ s = "identity"

(* The row k as an attempt whose clock says time finds it, or creates it. *)
Fresh(time)  == [exists |-> TRUE, count |-> 0, since |-> time, blocked |-> 0]
Row(k, time) == IF bucket[k].exists THEN bucket[k] ELSE Fresh(time)

(* What an attempt has loaded, scope by scope, in every phase. *)
PhasesFit ==
  \A x \in Attempts :
    /\ pc[x] \in {"idle", "clean", "decide"} \cup Answers => scope[x] = "identity"
    /\ pc[x] = "commit" => scope[x] = "source"
    /\ \A s \in Scopes :
         /\ ~Looked(x, s) => ~seen[x][s].exists
         /\ HasCounted(x, s) => seen[x][s].exists
         /\ ~seen[x][s].exists => seen[x][s] = NoBucket
         /\ pc[x] \in {"insert", "retry"} /\ s = scope[x] => ~seen[x][s].exists

(* An attempt holds exactly the rows it has loaded, *)
HoldersFit ==
  /\ \A x \in Attempts, s \in Scopes : seen[x][s].exists => holder[KeyIn(x, s)] = x
  /\ \A k \in Keys : holder[k] # Nobody =>
       \E s \in Scopes : k = KeyIn(holder[k], s) /\ seen[holder[k]][s].exists

(* and what it has loaded is what is committed, with its failure added. *)
SeenFits ==
  \A x \in Attempts, s \in Scopes : seen[x][s].exists =>
    LET row == Row(KeyIn(x, s), clock[x])
    IN  seen[x][s] = IF HasCounted(x, s) THEN WithFailure(row, clock[x]) ELSE row

ClocksFit ==
  \A x \in Attempts : clock[x] <= now /\ (Active(x) => now <= clock[x] + MaxDuration)

(* A row that was missing when x looked for it began after that. *)
NewRowsAreYoung ==
  \A x \in Attempts, s \in Scopes :
    Looked(x, s) /\ ~seen[x][s].exists /\ bucket[KeyIn(x, s)].exists =>
      bucket[KeyIn(x, s)].since + MaxDuration >= clock[x]

(* An attempt counts its failure on a row that was not blocked as it began, or *)
(* that began hardly before it did.                                            *)
CountedAreFree ==
  \A x \in Attempts, s \in Scopes :
    /\ pc[x] \in Counting \cup {"commit"} /\ seen[x][s].exists
    => \/ bucket[KeyIn(x, s)].blocked <= clock[x]
       \/ bucket[KeyIn(x, s)].since + MaxDuration >= clock[x]

(* Only answered failures are forgotten; a missing row remembers none, and the *)
(* window of a row has not ended for any that it remembers.                    *)
MemoryFits ==
  \A k \in Keys :
    /\ \A x \in erased[k] : pc[x] \in {"failed", "throttled"}
    /\ ~bucket[k].exists => Counted(k) \subseteq erased[k]
    /\ \A x \in Counted(k) \ erased[k] : clock[x] < bucket[k].since + Window

(* A barred attempt finds the block, and is refused. *)
BarredFit ==
  \A x \in Attempts : barred[x] =>
    /\ bucket[input[x].identity].blocked > now
    /\ pc[x] \in {"clean", "find", "decide", "refused", "error"}
    /\ Looked(x, "identity") => seen[x]["identity"].blocked > now

ThrottleInv ==
  /\ TypeOK /\ PhasesFit /\ HoldersFit /\ SeenFits /\ ClocksFit /\ NewRowsAreYoung
  /\ CountedAreFree /\ MemoryFits /\ FailuresAreCounted /\ BarredFit

(* A block lasts: while it is in force no step ends it or deletes its row.     *)
BlockLasts == \A k \in Keys : bucket[k].blocked > now' => bucket'[k].blocked > now'
BlocksLast == [][BlockLasts]_vars

-----------------------------------------------------------------------------
(* The operators. *)

(* An attempt has two keys, one of its identity and one of its source. *)
LEMMA KeyFacts ==
  ASSUME TypeOK, NEW x \in Attempts
  PROVE  /\ KeyIn(x, "identity") = input[x].identity /\ KeyIn(x, "source") = input[x].source
         /\ input[x].identity \in Identities /\ input[x].source \in Sources
         /\ input[x].identity # input[x].source
         /\ KeyIn(x, "identity") # KeyIn(x, "source")
         /\ \A s \in Scopes : KeyIn(x, s) \in Keys /\ KeyIn(x, s) \in KeysOf(x)
         /\ KeysOf(x) = {KeyIn(x, "identity"), KeyIn(x, "source")}
         /\ KeyOf(x) = KeyIn(x, scope[x]) /\ scope[x] \in Scopes
         /\ input[x].right \in BOOLEAN
BY KeysAssumption DEF TypeOK, Input, KeyIn, KeyOf, Keys, KeysOf, Scopes

(* What one more failure makes of a row, in its window and after it. *)
LEMMA FailureFacts ==
  ASSUME NEW b \in Bucket, NEW time \in Nat
  PROVE  /\ WithFailure(b, time) \in Bucket
         /\ WithFailure(b, time).exists = b.exists
         /\ time < b.since + Window =>
              /\ WithFailure(b, time).since = b.since
              /\ WithFailure(b, time).count = b.count + 1
              /\ WithFailure(b, time).blocked =
                   IF b.count + 1 >= Limit THEN time + Block ELSE b.blocked
         /\ time >= b.since + Window =>
              /\ WithFailure(b, time).since = time
              /\ WithFailure(b, time).count = 1
              /\ WithFailure(b, time).blocked = IF 1 >= Limit THEN time + Block ELSE 0
<1>1. ASSUME NEW r \in Bucket, Renewed(b, time) = r
      PROVE  LET n == r.count + 1
                 m == IF n >= Limit THEN time + Block ELSE r.blocked
             IN  /\ WithFailure(b, time) \in Bucket
                 /\ WithFailure(b, time).exists = r.exists /\ WithFailure(b, time).since = r.since
                 /\ WithFailure(b, time).count = n /\ WithFailure(b, time).blocked = m
  <2> DEFINE n == r.count + 1
             m == IF n >= Limit THEN time + Block ELSE r.blocked
  <2>1. n \in Nat /\ m \in Nat
    BY TimesAssumption DEF Bucket
  <2>2. WithFailure(b, time) = [r EXCEPT !.count = n, !.blocked = m]
    BY <1>1 DEF WithFailure, AtLimit, Bucket
  <2> HIDE DEF n, m
  <2>3. /\ WithFailure(b, time) \in Bucket
        /\ WithFailure(b, time).exists = r.exists /\ WithFailure(b, time).since = r.since
        /\ WithFailure(b, time).count = n /\ WithFailure(b, time).blocked = m
    BY <2>1, <2>2 DEF Bucket
  <2> QED BY <2>3 DEF n, m
<1>2. CASE time < b.since + Window
  <2>1. Renewed(b, time) = b
    BY <1>2, TimesAssumption DEF Renewed, Bucket
  <2>2. ~(time >= b.since + Window)
    BY <1>2, TimesAssumption DEF Bucket
  <2> QED BY <1>1, <2>1, <2>2
<1>3. CASE ~(time < b.since + Window)
  <2> DEFINE r == [b EXCEPT !.count = 0, !.since = time, !.blocked = 0]
  <2>1. Renewed(b, time) = r
    BY <1>3, TimesAssumption DEF Renewed, Bucket
  <2>2. r \in Bucket /\ r.count = 0 /\ r.since = time /\ r.blocked = 0 /\ r.exists = b.exists
    BY DEF Bucket
  <2> HIDE DEF r
  <2>3. /\ WithFailure(b, time) \in Bucket
        /\ WithFailure(b, time).exists = b.exists /\ WithFailure(b, time).since = time
        /\ WithFailure(b, time).count = 0 + 1
        /\ WithFailure(b, time).blocked = IF 0 + 1 >= Limit THEN time + Block ELSE 0
    BY <1>1, <2>1, <2>2
  <2> QED BY <1>3, <2>3
<1> QED BY <1>2, <1>3

(* A row as an attempt finds it, or creates it. *)
LEMMA RowFacts ==
  ASSUME TypeOK, NEW k \in Keys, NEW time \in Nat
  PROVE  /\ bucket[k] \in Bucket /\ Row(k, time) \in Bucket /\ Row(k, time).exists
         /\ bucket[k].exists => Row(k, time) = bucket[k]
         /\ ~bucket[k].exists => Row(k, time) = Fresh(time)
         /\ Row(k, time).blocked = bucket[k].blocked
         /\ Row(k, time).blocked # 0 => Row(k, time).count >= Limit
BY DEF TypeOK, Row, Fresh, Bucket, NoBucket

-----------------------------------------------------------------------------
(* What a step does. *)

(* A step of x leaves the other attempts as they are, *)
OthersStay(x) ==
  \A y \in Attempts \ {x} :
    /\ pc'[y] = pc[y] /\ scope'[y] = scope[y] /\ input'[y] = input[y]
    /\ clock'[y] = clock[y] /\ seen'[y] = seen[y] /\ barred'[y] = barred[y]

(* locks and releases rows only for itself, *)
LocksStay(x) ==
  \A k \in Keys : holder'[k] = holder[k] \/ {holder[k], holder'[k]} \subseteq {Nobody, x}

(* and leaves each committed row alone, clears it, or counts its failure on it.*)
RowKept(k) == bucket'[k] = bucket[k] /\ erased'[k] = erased[k]
RowCleared(x, k) ==
  /\ bucket'[k] = NoBucket /\ erased'[k] = Counted(k)
  /\ bucket[k].blocked <= now
  /\ holder[k] = Nobody \/ (holder[k] = x /\ pc'[x] \in Answers)
RowCounted(x, k) ==
  /\ pc[x] = "commit" /\ pc'[x] \in {"failed", "throttled"} /\ k \in KeysOf(x) /\ holder[k] = x
  /\ bucket'[k] = WithFailure(Row(k, clock[x]), clock[x]) /\ erased'[k] = erased[k]
  /\ bucket'[k].count >= Limit => pc'[x] = "throttled"

(* An answer ends the transaction: every lock of the attempt is released. *)
LEMMA AnswerFacts ==
  ASSUME TypeOK, NEW x \in Attempts, NEW answer \in Answers, Answer(x, answer)
  PROVE  /\ pc'[x] = answer /\ scope'[x] = "identity" /\ seen'[x] = Unread
         /\ \A y \in Attempts \ {x} : pc'[y] = pc[y] /\ scope'[y] = scope[y] /\ seen'[y] = seen[y]
         /\ \A k \in Keys : holder'[k] = IF holder[k] = x THEN Nobody ELSE holder[k]
         /\ pc' \in [Attempts -> {"idle", "clean", "find", "decide", "count", "insert", "retry", "commit"}
                         \cup Answers]
         /\ scope' \in [Attempts -> Scopes]
         /\ seen' \in [Attempts -> [Scopes -> Bucket]]
         /\ holder' \in [Keys -> Attempts \cup {Nobody}]
BY DEF TypeOK, Answer, Goto, Scopes, Unread, NoBucket, Bucket

(* SELECT ... FOR UPDATE reads a row and locks it, if there is one. *)
LEMMA SelectFacts ==
  ASSUME TypeOK, NEW x \in Attempts, Select(x, KeyOf(x))
  PROVE  /\ holder' \in [Keys -> Attempts \cup {Nobody}]
         /\ seen' \in [Attempts -> [Scopes -> Bucket]]
         /\ \A y \in Attempts \ {x} : seen'[y] = seen[y]
         /\ seen'[x][scope[x]] = bucket[KeyOf(x)]
         /\ \A s \in Scopes \ {scope[x]} : seen'[x][s] = seen[x][s]
         /\ bucket[KeyOf(x)].exists => holder[KeyOf(x)] \in {Nobody, x} /\ holder'[KeyOf(x)] = x
         /\ ~bucket[KeyOf(x)].exists => holder' = holder
         /\ \A k \in Keys \ {KeyOf(x)} : holder'[k] = holder[k]
         /\ LocksStay(x)
<1>1. KeyOf(x) \in Keys /\ scope[x] \in Scopes
  BY KeyFacts
<1> HIDE DEF KeyOf
<1> DEFINE k == KeyOf(x)
           s == scope[x]
<1>2. k \in Keys /\ s \in Scopes /\ bucket[k] \in Bucket
  BY <1>1 DEF TypeOK
<1>3. seen' = [seen EXCEPT ![x][s] = bucket[k]]
  BY DEF Select
<1>4. holder' = IF bucket[k].exists THEN [holder EXCEPT ![k] = x] ELSE holder
  BY DEF Select
<1>5. bucket[k].exists => holder[k] \in {Nobody, x}
  BY DEF Select, RowIsFree
<1> HIDE DEF k, s
<1>6. /\ seen' \in [Attempts -> [Scopes -> Bucket]]
      /\ \A y \in Attempts \ {x} : seen'[y] = seen[y]
      /\ seen'[x][s] = bucket[k]
      /\ \A t \in Scopes \ {s} : seen'[x][t] = seen[x][t]
  BY <1>2, <1>3 DEF TypeOK
<1>7. /\ holder' \in [Keys -> Attempts \cup {Nobody}]
      /\ bucket[k].exists => holder[k] \in {Nobody, x} /\ holder'[k] = x
      /\ ~bucket[k].exists => holder' = holder
      /\ \A j \in Keys \ {k} : holder'[j] = holder[j]
  BY <1>2, <1>4, <1>5 DEF TypeOK
<1>8. LocksStay(x)
  BY <1>2, <1>5, <1>7 DEF LocksStay
<1> QED BY <1>6, <1>7, <1>8 DEF k, s

(* So the other attempts stay where they are. *)
LEMMA OthersStayPut ==
  ASSUME TypeOK, NEW x \in Attempts, Step(x)
  PROVE  OthersStay(x) /\ LocksStay(x) /\ now' = now
<1> USE DEF OthersStay
<1>2. ASSUME NEW answer \in Answers, Answer(x, answer), UNCHANGED <<now, input, clock, barred>>
      PROVE  OthersStay(x) /\ LocksStay(x) /\ now' = now
  BY <1>2, AnswerFacts DEF LocksStay
<1>3. ASSUME Select(x, KeyOf(x)), UNCHANGED <<now, input, clock, barred>>,
             scope' = scope \/ \E t : scope' = [scope EXCEPT ![x] = t],
             pc' = pc \/ \E t : pc' = [pc EXCEPT ![x] = t]
      PROVE  OthersStay(x) /\ LocksStay(x) /\ now' = now
  BY <1>3, SelectFacts DEF TypeOK
<1>4. CASE Clean(x)
  BY <1>4 DEF Clean, Goto, TypeOK, LocksStay
<1>5. CASE Find(x)
  BY <1>5, <1>3 DEF Find, Goto
<1>6. CASE Refuse(x)
  BY <1>6, <1>2 DEF Refuse, Answers
<1>7. CASE Accept(x)
  BY <1>7, <1>2 DEF Accept, Answers
<1>8. CASE Reject(x)
  BY <1>8 DEF Reject, Goto, TypeOK, LocksStay
<1>9. CASE Lookup(x)
  BY <1>9, <1>3 DEF Lookup, Goto
<1>10. CASE Insert(x)
  <2>1. KeyOf(x) \in Keys /\ scope[x] \in Scopes
    BY KeyFacts
  <2>2. ~bucket[KeyOf(x)].exists /\ holder[KeyOf(x)] = Nobody /\ holder' = [holder EXCEPT ![KeyOf(x)] = x]
          => LocksStay(x)
    BY <2>1 DEF LocksStay, TypeOK
  <2>3. holder' = holder => LocksStay(x)
    BY DEF LocksStay
  <2>4. LocksStay(x)
    BY <1>10, <2>2, <2>3 DEF Insert
  <2>5. \A y \in Attempts \ {x} : seen'[y] = seen[y] /\ pc'[y] = pc[y]
    BY <1>10 DEF Insert, Goto, TypeOK
  <2> QED BY <1>10, <2>4, <2>5 DEF Insert
<1>11. CASE Retry(x)
  <2>1. CASE bucket[KeyOf(x)].exists
    BY <2>1, <1>11, <1>3 DEF Retry, Goto
  <2>2. CASE ~bucket[KeyOf(x)].exists
    BY <2>2, <1>11, <1>2 DEF Retry, Answers
  <2> QED BY <2>1, <2>2
<1>12. CASE Count(x)
  BY <1>12 DEF Count, Goto, TypeOK, LocksStay
<1>13. CASE Commit(x)
  BY <1>13, <1>2 DEF Commit, Answers
<1>14. CASE DeadlockAbort(x)
  BY <1>14, <1>2 DEF DeadlockAbort, Answers
<1> QED BY <1>4, <1>5, <1>6, <1>7, <1>8, <1>9, <1>10, <1>11, <1>12, <1>13, <1>14 DEF Step


(* What a step of x does with its own row in a scope: nothing; *)
OwnKept(x, s) ==
  /\ seen'[x][s] = seen[x][s] /\ holder'[KeyIn(x, s)] = holder[KeyIn(x, s)]
  /\ Looked(x, s)' <=> Looked(x, s)
  /\ HasCounted(x, s)' <=> HasCounted(x, s)
(* it loads and locks it; does not find it; creates it; *)
OwnLoaded(x, s) ==
  LET k == KeyIn(x, s)
  IN  /\ ~seen[x][s].exists /\ bucket[k].exists /\ bucket' = bucket /\ erased' = erased
      /\ seen'[x][s] = bucket[k] /\ holder[k] \in {Nobody, x} /\ holder'[k] = x
      /\ Looked(x, s)' /\ ~HasCounted(x, s)'
      /\ Looked(x, s) \/ pc'[x] \notin Counting \cup {"commit"}
OwnMissing(x, s) ==
  LET k == KeyIn(x, s)
  IN  /\ ~seen[x][s].exists /\ ~bucket[k].exists /\ bucket' = bucket /\ erased' = erased
      /\ seen'[x][s] = bucket[k] /\ holder'[k] = holder[k]
      /\ Looked(x, s)' /\ ~HasCounted(x, s)'
OwnCreated(x, s) ==
  LET k == KeyIn(x, s)
  IN  /\ ~seen[x][s].exists /\ ~bucket[k].exists /\ bucket' = bucket /\ erased' = erased
      /\ seen'[x][s] = Fresh(clock[x]) /\ holder[k] = Nobody /\ holder'[k] = x
      /\ Looked(x, s)' /\ ~HasCounted(x, s)'
(* it counts its failure on it; and it lets go of it, with the answer. *)
OwnCounted(x, s) ==
  /\ seen[x][s].exists /\ ~HasCounted(x, s) /\ bucket' = bucket /\ erased' = erased
  /\ seen'[x][s] = WithFailure(seen[x][s], clock[x]) /\ holder'[KeyIn(x, s)] = holder[KeyIn(x, s)]
  /\ Looked(x, s)' /\ HasCounted(x, s)'
OwnEnded(x, s) ==
  LET k == KeyIn(x, s)
  IN  /\ seen'[x][s] = NoBucket /\ holder'[k] = (IF holder[k] = x THEN Nobody ELSE holder[k])
      /\ ~Looked(x, s)' /\ ~HasCounted(x, s)' /\ pc'[x] \in Answers

OwnMoves(x, s) ==
  \/ OwnKept(x, s) \/ OwnLoaded(x, s) \/ OwnMissing(x, s) \/ OwnCreated(x, s)
  \/ OwnCounted(x, s) \/ OwnEnded(x, s)

(* An attempt that is answered is past both of its keys. *)
LEMMA AnswerEnds ==
  ASSUME TypeOK, NEW x \in Attempts, NEW answer \in Answers, Answer(x, answer), NEW s \in Scopes
  PROVE  OwnEnded(x, s)
BY AnswerFacts, KeyFacts DEF OwnEnded, Looked, HasCounted, Counting, Answers, Unread

(* An attempt goes from phase to phase and from key to key in its order. *)
LEMMA StepOwn ==
  ASSUME TypeOK, PhasesFit, NEW x \in Attempts, Step(x), NEW s \in Scopes
  PROVE  OwnMoves(x, s)
<1> USE DEF OwnMoves
<1>0. /\ \A t \in Scopes : KeyIn(x, t) \in Keys
      /\ KeyOf(x) = KeyIn(x, scope[x]) /\ scope[x] \in Scopes
      /\ KeyIn(x, "identity") # KeyIn(x, "source")
  BY KeyFacts
<1> HIDE DEF KeyOf, KeyIn
<1>1. /\ pc[x] \in {"idle", "clean", "decide"} \cup Answers => scope[x] = "identity"
      /\ pc[x] = "commit" => scope[x] = "source"
      /\ ~Looked(x, s) => ~seen[x][s].exists
      /\ HasCounted(x, s) => seen[x][s].exists
      /\ ~seen[x][s].exists => seen[x][s] = NoBucket
      /\ pc[x] \in {"insert", "retry"} /\ s = scope[x] => ~seen[x][s].exists
      /\ pc[x] = "commit" => HasCounted(x, s)
  BY DEF PhasesFit, HasCounted
<1>2. CASE Clean(x)
  <2>1. /\ seen' = seen /\ holder' = holder /\ scope' = scope
        /\ pc[x] = "clean" /\ pc'[x] = "find" /\ scope[x] = "identity"
    BY <1>2, <1>1 DEF Clean, Goto, TypeOK
  <2> QED BY <2>1 DEF OwnKept, Looked, HasCounted, Counting
<1>3. CASE Find(x)
  <2>1. /\ bucket' = bucket /\ erased' = erased /\ pc[x] = "find" /\ Select(x, KeyOf(x))
    BY <1>3 DEF Find
  <2>2. \/ scope[x] = "identity" /\ scope'[x] = "source" /\ pc'[x] = "find"
        \/ scope[x] = "source" /\ scope'[x] = "identity" /\ pc'[x] = "decide"
    BY <1>3 DEF Find, Goto, TypeOK
  <2>3. s = scope[x] => ~Looked(x, s)
    BY <2>1 DEF Looked, Counting
  <2>4. (s = scope[x] => Looked(x, s)') /\ ~HasCounted(x, s)' /\ ~HasCounted(x, s)
    BY <2>1, <2>2 DEF Looked, HasCounted, Counting
  <2>5. CASE s = scope[x]
    <3>1. pc'[x] \notin Counting \cup {"commit"}
      BY <2>2 DEF Counting
    <3>2. Looked(x, s)' /\ ~HasCounted(x, s)' /\ ~seen[x][s].exists /\ KeyIn(x, s) = KeyOf(x)
      BY <2>3, <2>4, <2>5, <1>0, <1>1
    <3>3. /\ seen'[x][s] = bucket[KeyOf(x)]
          /\ bucket[KeyOf(x)].exists => holder[KeyOf(x)] \in {Nobody, x} /\ holder'[KeyOf(x)] = x
          /\ ~bucket[KeyOf(x)].exists => holder' = holder
      BY <2>1, <2>5, SelectFacts
    <3> QED BY <3>1, <3>2, <3>3, <2>1 DEF OwnLoaded, OwnMissing
  <2>6. CASE s # scope[x]
    <3>1. KeyIn(x, s) # KeyOf(x)
      BY <2>6, <1>0 DEF Scopes
    <3>2. Looked(x, s)' <=> Looked(x, s)
      BY <2>1, <2>2, <2>6 DEF Looked, Scopes, Counting
    <3> QED BY <3>1, <3>2, <2>1, <2>4, <2>6, <1>0, SelectFacts DEF OwnKept
  <2> QED BY <2>5, <2>6
<1>4. CASE Refuse(x)
  BY <1>4, AnswerEnds DEF Refuse, Answers
<1>5. CASE Accept(x)
  BY <1>5, AnswerEnds DEF Accept, Answers
<1>6. CASE Reject(x)
  <2>1. /\ seen' = seen /\ holder' = holder /\ scope' = scope
        /\ pc[x] = "decide" /\ pc'[x] = "count" /\ scope[x] = "identity"
    BY <1>6, <1>1 DEF Reject, Goto, TypeOK
  <2> QED BY <2>1 DEF OwnKept, Looked, HasCounted, Counting
<1>7. CASE Lookup(x)
  <2>1. /\ bucket' = bucket /\ erased' = erased /\ pc[x] = "count" /\ Select(x, KeyOf(x))
        /\ scope' = scope /\ pc'[x] \in {"count", "insert"} /\ ~seen[x][scope[x]].exists
    BY <1>7 DEF Lookup, Goto, TypeOK
  <2>2. Looked(x, s)' /\ Looked(x, s) /\ (HasCounted(x, s)' <=> HasCounted(x, s))
    BY <2>1 DEF Looked, HasCounted, Counting
  <2>3. CASE s = scope[x]
    BY <2>1, <2>2, <2>3, <1>0, <1>1, SelectFacts DEF OwnLoaded, OwnMissing
  <2>4. CASE s # scope[x]
    <3>1. KeyIn(x, s) # KeyOf(x)
      BY <2>4, <1>0 DEF Scopes
    <3> QED BY <3>1, <2>1, <2>2, <2>4, <1>0, SelectFacts DEF OwnKept
  <2> QED BY <2>3, <2>4
<1>8. CASE Insert(x)
  <2>1. /\ bucket' = bucket /\ erased' = erased /\ pc[x] = "insert"
        /\ scope' = scope /\ pc'[x] \in {"count", "retry"}
    BY <1>8 DEF Insert, Goto, TypeOK
  <2>2. Looked(x, s)' /\ Looked(x, s) /\ (HasCounted(x, s)' <=> HasCounted(x, s))
    BY <2>1 DEF Looked, HasCounted, Counting
  <2>3. CASE holder' = holder /\ seen' = seen
    BY <2>1, <2>2, <2>3 DEF OwnKept
  <2>4. CASE ~(holder' = holder /\ seen' = seen)
    <3>1. /\ ~bucket[KeyOf(x)].exists /\ holder[KeyOf(x)] = Nobody
          /\ holder' = [holder EXCEPT ![KeyOf(x)] = x]
          /\ seen' = [seen EXCEPT ![x][scope[x]] = Fresh(clock[x])]
      BY <1>8, <2>4 DEF Insert, Fresh
    <3> HIDE DEF Fresh
    <3>2. CASE s = scope[x]
      BY <3>1, <3>2, <2>1, <2>2, <1>0, <1>1 DEF OwnCreated, TypeOK
    <3>3. CASE s # scope[x]
      <4>1. KeyIn(x, s) # KeyOf(x)
        BY <3>3, <1>0 DEF Scopes
      <4> QED BY <4>1, <3>1, <3>3, <2>1, <2>2, <1>0 DEF OwnKept, TypeOK
    <3> QED BY <3>2, <3>3
  <2> QED BY <2>3, <2>4
<1>9. CASE Retry(x)
  <2>1. CASE ~bucket[KeyOf(x)].exists
    BY <1>9, <2>1, AnswerEnds DEF Retry, Answers
  <2>2. CASE bucket[KeyOf(x)].exists
    <3>1. /\ bucket' = bucket /\ erased' = erased /\ pc[x] = "retry" /\ Select(x, KeyOf(x))
          /\ scope' = scope /\ pc'[x] = "count"
      BY <1>9, <2>2 DEF Retry, Goto, TypeOK
    <3>2. Looked(x, s)' /\ Looked(x, s) /\ (HasCounted(x, s)' <=> HasCounted(x, s))
      BY <3>1 DEF Looked, HasCounted, Counting
    <3>3. CASE s = scope[x]
      BY <2>2, <3>1, <3>2, <3>3, <1>0, <1>1, SelectFacts DEF OwnLoaded
    <3>4. CASE s # scope[x]
      <4>1. KeyIn(x, s) # KeyOf(x)
        BY <3>4, <1>0 DEF Scopes
      <4> QED BY <4>1, <3>1, <3>2, <3>4, <1>0, SelectFacts DEF OwnKept
    <3> QED BY <3>3, <3>4
  <2> QED BY <2>1, <2>2
<1>10. CASE Count(x)
  <2>1. /\ bucket' = bucket /\ erased' = erased /\ holder' = holder /\ pc[x] = "count"
        /\ input' = input /\ seen[x][scope[x]].exists
        /\ \/ scope[x] = "identity" /\ scope'[x] = "source" /\ pc'[x] = "count"
           \/ scope[x] = "source" /\ scope'[x] = "source" /\ pc'[x] = "commit"
    BY <1>10 DEF Count, Goto, TypeOK
  <2>2. seen' = [seen EXCEPT ![x][scope[x]] = WithFailure(seen[x][scope[x]], clock[x])]
    BY <1>10 DEF Count, TypeOK
  <2>3. Looked(x, s)' /\ Looked(x, s)
    BY <2>1 DEF Looked, Counting
  <2>4. CASE s = scope[x]
    <3>1. ~HasCounted(x, s) /\ HasCounted(x, s)'
      BY <2>1, <2>4 DEF HasCounted, Counting, Scopes
    <3>2. seen'[x][s] = WithFailure(seen[x][s], clock[x])
      BY <2>2, <2>4, <1>0 DEF TypeOK
    <3> QED BY <3>1, <3>2, <2>1, <2>3, <2>4 DEF OwnCounted
  <2>5. CASE s # scope[x]
    <3>1. HasCounted(x, s)' <=> HasCounted(x, s)
      BY <2>1, <2>5 DEF HasCounted, Counting, Scopes
    <3>2. seen'[x][s] = seen[x][s]
      BY <2>2, <2>5, <1>0 DEF TypeOK
    <3> QED BY <3>1, <3>2, <2>1, <2>3 DEF OwnKept
  <2> QED BY <2>4, <2>5
<1>11. CASE Commit(x)
  BY <1>11, AnswerEnds DEF Commit, Answers
<1>12. CASE DeadlockAbort(x)
  BY <1>12, AnswerEnds DEF DeadlockAbort, Answers
<1> QED BY <1>2, <1>3, <1>4, <1>5, <1>6, <1>7, <1>8, <1>9, <1>10, <1>11, <1>12 DEF Step


(* A step keeps, clears or counts on each row, and a commit counts on both *)
(* rows of its attempt.                                                    *)
LEMMA StepRows ==
  ASSUME TypeOK, PhasesFit, HoldersFit, SeenFits, ClocksFit, NEW x \in Attempts, Step(x),
         NEW k \in Keys
  PROVE  /\ RowKept(k) \/ RowCleared(x, k) \/ RowCounted(x, k)
         /\ Commit(x) /\ k \in KeysOf(x) => RowCounted(x, k)
<1>0. clock[x] \in Nat /\ clock[x] <= now /\ now \in Nat
  BY DEF TypeOK, ClocksFit
<1>1. bucket[k] \in Bucket /\ erased[k] \subseteq Attempts
  BY DEF TypeOK
<1>2. ASSUME Clean(x)  PROVE RowKept(k) \/ RowCleared(x, k)
  <2>1. CASE k \in Stale(x)
    <3>1. holder[k] = Nobody /\ bucket'[k] = NoBucket /\ erased'[k] = Counted(k)
      BY <1>2, <2>1 DEF Clean, Delete
    <3>2. bucket[k].blocked <= now
      BY <2>1, <1>0, <1>1 DEF Stale, Bucket
    <3> QED BY <3>1, <3>2 DEF RowCleared
  <2>2. CASE k \notin Stale(x)
    BY <1>2, <2>2 DEF Clean, Delete, RowKept
  <2> QED BY <2>1, <2>2
<1>3. ASSUME Accept(x)  PROVE RowKept(k) \/ RowCleared(x, k)
  <2>1. CASE seen[x]["identity"].exists /\ k = input[x].identity
    <3>1. "identity" \in Scopes /\ k = KeyIn(x, "identity")
      BY <2>1, KeyFacts DEF Scopes
    <3>2. holder[k] = x
      BY <2>1, <3>1 DEF HoldersFit
    <3>3. ~HasCounted(x, "identity")
      BY <1>3 DEF Accept, HasCounted, Counting
    <3>4. seen[x]["identity"] = Row(k, clock[x])
      BY <2>1, <3>1, <3>3 DEF SeenFits
    <3>5. bucket[k].blocked <= clock[x]
      <4>1. seen[x]["identity"].blocked = bucket[k].blocked
        BY <3>4, <1>0, RowFacts
      <4>2. ~(seen[x]["identity"].blocked > clock[x])
        BY <1>3 DEF Accept, IdentityBlocked, RetryAfter
      <4>3. bucket[k].blocked \in Nat
        BY <1>1 DEF Bucket
      <4> QED BY <4>1, <4>2, <4>3, <1>0
    <3>6. bucket[k].blocked <= now
      BY <3>5, <1>0, <1>1 DEF Bucket
    <3>7. bucket'[k] = NoBucket /\ erased'[k] = Counted(k)
      BY <1>3, <2>1 DEF Accept, Delete
    <3>8. pc'[x] \in Answers
      BY <1>3, AnswerFacts DEF Accept, Answers
    <3> QED BY <3>2, <3>6, <3>7, <3>8 DEF RowCleared
  <2>2. CASE ~(seen[x]["identity"].exists /\ k = input[x].identity)
    BY <1>3, <2>2 DEF Accept, Delete, RowKept
  <2> QED BY <2>1, <2>2
<1>4. ASSUME Commit(x)
      PROVE  (k \in KeysOf(x) => RowCounted(x, k)) /\ (k \notin KeysOf(x) => RowKept(k))
  <2>1. \A s \in Scopes : seen[x][s].exists /\ HasCounted(x, s)
    BY <1>4 DEF Commit, HasCounted, PhasesFit
  <2>2. \A s \in Scopes : holder[KeyIn(x, s)] = x
    BY <2>1 DEF HoldersFit
  <2>3. \A s \in Scopes : seen[x][s] = WithFailure(Row(KeyIn(x, s), clock[x]), clock[x])
    BY <2>1 DEF SeenFits
  <2>4. pc[x] = "commit" /\ erased' = erased
    BY <1>4 DEF Commit
  <2>5. /\ pc'[x] \in {"failed", "throttled"}
        /\ (\E s \in Scopes : AtLimit(seen[x][s].count)) => pc'[x] = "throttled"
    BY <1>4, AnswerFacts DEF Commit, Answers
  <2>6. ASSUME NEW s \in Scopes, k = KeyIn(x, s)  PROVE RowCounted(x, k)
    <3>1. bucket'[k] = seen[x][s]
      BY <1>4, <2>6, KeyFacts DEF Commit, Scopes
    <3>2. k \in KeysOf(x)
      BY <2>6, KeyFacts
    <3> QED BY <3>1, <3>2, <2>2, <2>3, <2>4, <2>5, <2>6 DEF RowCounted, AtLimit
  <2>7. CASE k \notin KeysOf(x)
    BY <1>4, <2>4, <2>7 DEF Commit, KeysOf, RowKept
  <2> QED BY <2>6, <2>7, KeyFacts DEF Scopes
<1>5. bucket' = bucket /\ erased' = erased => RowKept(k)
  BY DEF RowKept
<1>6. Clean(x) \/ Accept(x) \/ Commit(x) \/ (bucket' = bucket /\ erased' = erased)
  BY DEF Step, Find, Refuse, Reject, Lookup, Insert, Retry, Count, DeadlockAbort
<1> QED BY <1>2, <1>3, <1>4, <1>5, <1>6

(* A step of x and the failures of k: one may be added by the commit of x.     *)
LEMMA StepCounts ==
  ASSUME TypeOK, NEW x \in Attempts, Step(x), NEW k \in Keys
  PROVE  /\ x \notin Counted(k)
         /\ Counted(k)' \subseteq Counted(k) \cup {x}
         /\ Counted(k) \subseteq Counted(k)'
         /\ x \in Counted(k)' => Commit(x) /\ k \in KeysOf(x)
         /\ pc[x] \notin {"failed", "throttled"}
<1>1. OthersStay(x)
  BY OthersStayPut
<1>2. \A y \in Attempts \ {x} : y \in Counted(k)' <=> y \in Counted(k)
  BY <1>1 DEF OthersStay, Counted, KeysOf
<1>3. Counted(k) \subseteq Attempts /\ Counted(k)' \subseteq Attempts
  BY DEF Counted
<1>4. pc[x] \notin {"failed", "throttled"} /\ (pc'[x] \in {"failed", "throttled"} => Commit(x))
  <2>2. CASE Clean(x) \/ Find(x) \/ Reject(x) \/ Lookup(x) \/ Insert(x) \/ Count(x)
    BY <2>2 DEF Clean, Find, Reject, Lookup, Insert, Count, Goto, TypeOK
  <2>3. CASE Refuse(x) \/ Accept(x) \/ Retry(x)
    BY <2>3, AnswerFacts DEF Refuse, Accept, Retry, Answers, Goto, TypeOK
  <2>4. CASE Commit(x)
    BY <2>4 DEF Commit
  <2>5. CASE DeadlockAbort(x)
    <3>1. pc'[x] = "error"
      BY <2>5, AnswerFacts DEF DeadlockAbort, Answers
    <3>2. Blocked(x)
      BY <2>5 DEF DeadlockAbort, Detected, Deadlocked
    <3>3. pc[x] \in {"find", "retry", "count", "insert"}
      BY <3>2 DEF Blocked, Wanted
    <3> QED BY <3>1, <3>3
  <2> QED BY <2>2, <2>3, <2>4, <2>5 DEF Step
<1>5. input' = input
  BY DEF Step, Clean, Find, Refuse, Accept, Reject, Lookup, Insert, Retry, Count, Commit, DeadlockAbort
<1>6. x \in Counted(k)' => Commit(x) /\ k \in KeysOf(x)
  BY <1>4, <1>5 DEF Counted, KeysOf
<1> QED BY <1>2, <1>3, <1>4, <1>6 DEF Counted


-----------------------------------------------------------------------------
(* Every conjunct of the invariant is preserved. *)

(* A step of an attempt keeps the types ... *)
LEMMA StepTypes ==
  ASSUME TypeOK, PhasesFit, HoldersFit, SeenFits, ClocksFit, NEW x \in Attempts, Step(x)
  PROVE  TypeOK'
<1>1. now' = now /\ input' = input /\ clock' = clock /\ barred' = barred
  BY DEF Step, Clean, Find, Refuse, Accept, Reject, Lookup, Insert, Retry, Count, Commit, DeadlockAbort
<1>2. scope[x] \in Scopes /\ clock[x] \in Nat /\ KeyOf(x) \in Keys
  BY KeyFacts DEF TypeOK
<1>3. ASSUME NEW k \in Keys
      PROVE  /\ bucket'[k] \in Bucket /\ erased'[k] \in SUBSET Attempts
             /\ ~bucket'[k].exists => bucket'[k] = NoBucket
             /\ bucket'[k].blocked # 0 => bucket'[k].count >= Limit
  <2>1. CASE RowKept(k)
    BY <2>1 DEF RowKept, TypeOK
  <2>2. CASE RowCleared(x, k)
    BY <2>2 DEF RowCleared, NoBucket, Bucket, Counted
  <2>3. CASE RowCounted(x, k)
    <3> DEFINE b == Row(k, clock[x])
    <3>1. b \in Bucket /\ b.exists /\ (b.blocked # 0 => b.count >= Limit)
      BY <1>2, RowFacts
    <3>2. bucket'[k] = WithFailure(b, clock[x]) /\ erased'[k] = erased[k]
      BY <2>3 DEF RowCounted
    <3> HIDE DEF b
    <3>3. bucket'[k] \in Bucket /\ bucket'[k].exists
      BY <3>1, <3>2, <1>2, FailureFacts
    <3>4. bucket'[k].blocked # 0 => bucket'[k].count >= Limit
      <4>1. b.since \in Nat /\ b.count \in Nat /\ b.blocked \in Nat
        BY <3>1 DEF Bucket
      <4> DEFINE w == WithFailure(b, clock[x])
      <4>2. \/ w.count = b.count + 1
               /\ w.blocked = IF b.count + 1 >= Limit THEN clock[x] + Block ELSE b.blocked
            \/ w.count = 1 /\ w.blocked = IF 1 >= Limit THEN clock[x] + Block ELSE 0
        <5>1. CASE clock[x] < b.since + Window
          BY <5>1, <3>1, <1>2, FailureFacts
        <5>2. CASE clock[x] >= b.since + Window
          BY <5>2, <3>1, <1>2, FailureFacts
        <5> QED BY <5>1, <5>2, <4>1, <1>2, TimesAssumption
      <4> HIDE DEF w
      <4>3. w.blocked # 0 => w.count >= Limit
        BY <4>1, <4>2, <3>1, TimesAssumption
      <4> QED BY <4>3, <3>2 DEF w
    <3>5. erased'[k] \in SUBSET Attempts
      BY <3>2 DEF TypeOK
    <3> QED BY <3>3, <3>4, <3>5
  <2> QED BY <2>1, <2>2, <2>3, StepRows
<1>4. /\ bucket' \in [Keys -> Bucket]
      /\ erased' \in [Keys -> SUBSET Attempts]
  <2>1. bucket' = [k \in Keys |-> bucket'[k]] /\ erased' = [k \in Keys |-> erased'[k]]
    BY DEF Step, Clean, Find, Refuse, Accept, Reject, Lookup, Insert, Retry, Count, Commit, DeadlockAbort,
           Delete, TypeOK
  <2> QED BY <2>1, <1>3
<1>5. /\ holder' \in [Keys -> Attempts \cup {Nobody}]
      /\ pc' \in [Attempts -> {"idle", "clean", "find", "decide", "count", "insert", "retry", "commit"}
                              \cup Answers]
      /\ scope' \in [Attempts -> Scopes]
      /\ seen' \in [Attempts -> [Scopes -> Bucket]]
  <2>1. CASE Clean(x)
    BY <2>1 DEF Clean, Goto, TypeOK
  <2>2. CASE Find(x)
    <3>1. Select(x, KeyOf(x))
      BY <2>2 DEF Find
    <3>2. pc' \in [Attempts -> {"idle", "clean", "find", "decide", "count", "insert", "retry", "commit"}
                              \cup Answers] /\ scope' \in [Attempts -> Scopes]
      BY <2>2 DEF Find, Goto, TypeOK, Scopes
    <3> QED BY <3>1, <3>2, SelectFacts
  <2>3. CASE Refuse(x)
    BY <2>3, AnswerFacts DEF Refuse, Answers
  <2>4. CASE Accept(x)
    BY <2>4, AnswerFacts DEF Accept, Answers
  <2>5. CASE Reject(x)
    BY <2>5 DEF Reject, Goto, TypeOK
  <2>6. CASE Lookup(x)
    <3>1. Select(x, KeyOf(x))
      BY <2>6 DEF Lookup
    <3> QED BY <2>6, <3>1, SelectFacts DEF Lookup, Goto, TypeOK
  <2>7. CASE Insert(x)
    <3>1. Fresh(clock[x]) \in Bucket
      BY <1>2 DEF Fresh, Bucket
    <3>2. \/ holder' = holder /\ seen' = seen
          \/ /\ holder' = [holder EXCEPT ![KeyOf(x)] = x]
             /\ seen' = [seen EXCEPT ![x][scope[x]] = Fresh(clock[x])]
      BY <2>7 DEF Insert, Fresh
    <3> HIDE DEF Fresh, KeyOf
    <3>3. holder' \in [Keys -> Attempts \cup {Nobody}]
      BY <3>2, <1>2 DEF TypeOK
    <3>4. seen' \in [Attempts -> [Scopes -> Bucket]]
      <4>1. CASE seen' = seen
        BY <4>1 DEF TypeOK
      <4>2. CASE seen' = [seen EXCEPT ![x][scope[x]] = Fresh(clock[x])]
        BY <4>2, <3>1, <1>2 DEF TypeOK
      <4> QED BY <4>1, <4>2, <3>2
    <3>5. /\ scope' = scope
          /\ pc' = [pc EXCEPT ![x] = "retry"] \/ pc' = [pc EXCEPT ![x] = "count"]
      BY <2>7 DEF Insert, Goto
    <3> QED BY <3>3, <3>4, <3>5 DEF TypeOK
  <2>8. CASE Retry(x)
    <3>1. CASE bucket[KeyOf(x)].exists
      <4>1. Select(x, KeyOf(x)) /\ scope' = scope /\ pc' = [pc EXCEPT ![x] = "count"]
        BY <2>8, <3>1 DEF Retry, Goto
      <4> QED BY <4>1, SelectFacts DEF TypeOK
    <3>2. CASE ~bucket[KeyOf(x)].exists
      BY <2>8, <3>2, AnswerFacts DEF Retry, Answers
    <3> QED BY <3>1, <3>2
  <2>9. CASE Count(x)
    <3> DEFINE w == WithFailure(seen[x][scope[x]], clock[x])
    <3>1. seen[x][scope[x]] \in Bucket
      BY <1>2 DEF TypeOK
    <3>2. w \in Bucket
      BY <3>1, <1>2, FailureFacts
    <3>3. seen' = [seen EXCEPT ![x][scope[x]] = w]
      BY <2>9 DEF Count, TypeOK
    <3> HIDE DEF w
    <3>4. seen' \in [Attempts -> [Scopes -> Bucket]]
      BY <3>2, <3>3, <1>2 DEF TypeOK
    <3> QED BY <2>9, <3>4 DEF Count, Goto, TypeOK, Scopes
  <2>10. CASE Commit(x)
    BY <2>10, AnswerFacts DEF Commit, Answers
  <2>11. CASE DeadlockAbort(x)
    BY <2>11, AnswerFacts DEF DeadlockAbort, Answers
  <2> QED BY <2>1, <2>2, <2>3, <2>4, <2>5, <2>6, <2>7, <2>8, <2>9, <2>10, <2>11 DEF Step
<1> QED BY <1>1, <1>3, <1>4, <1>5 DEF TypeOK

(* ... as its beginning does ... *)
LEMMA StartTypes ==
  ASSUME TypeOK, NEW x \in Attempts, NEW i \in Inputs, Start(x, i)
  PROVE  TypeOK'
BY KeysAssumption DEF Start, Goto, TypeOK

(* ... and the clock. *)
LEMMA TickTypes ==
  ASSUME TypeOK, Tick
  PROVE  TypeOK'
<1>1. now' \in Nat
  BY DEF Tick, TypeOK
<1>2. \A k \in Keys : bucket[k].blocked \in Nat
  BY DEF TypeOK, Bucket
<1>3. barred' \in [Attempts -> BOOLEAN]
  BY DEF Tick, TypeOK
<1> QED BY <1>1, <1>3 DEF Tick, TypeOK


(* A step changes neither the time nor what an attempt was given. *)
LEMMA StepKeeps ==
  ASSUME NEW x \in Attempts, Step(x)
  PROVE  now' = now /\ input' = input /\ clock' = clock /\ barred' = barred
BY DEF Step, Clean, Find, Refuse, Accept, Reject, Lookup, Insert, Retry, Count, Commit, DeadlockAbort

(* An attempt that does not move stands where it stood. *)
LEMMA OthersStand ==
  ASSUME NEW x \in Attempts, OthersStay(x), NEW y \in Attempts, y # x, NEW s \in Scopes
  PROVE  /\ Looked(y, s)' <=> Looked(y, s)
         /\ HasCounted(y, s)' <=> HasCounted(y, s)
         /\ KeyIn(y, s)' = KeyIn(y, s)
         /\ seen'[y][s] = seen[y][s] /\ clock'[y] = clock[y]
BY DEF OthersStay, Looked, HasCounted, KeyIn

(* No step changes a row that an attempt goes on holding. *)
LEMMA HeldRows ==
  ASSUME TypeOK, PhasesFit, HoldersFit, SeenFits, ClocksFit, NEW x \in Attempts, Step(x),
         NEW y \in Attempts, NEW s \in Scopes, seen[y][s].exists, y = x => pc'[x] \notin Answers
  PROVE  bucket'[KeyIn(y, s)] = bucket[KeyIn(y, s)] /\ (y # x => holder'[KeyIn(y, s)] = y)
<1> DEFINE k == KeyIn(y, s)
<1>1. k \in Keys
  BY KeyFacts
<1>2. holder[k] = y /\ y # Nobody
  BY AttemptsAssumption DEF HoldersFit
<1>3. LocksStay(x)
  BY OthersStayPut
<1> HIDE DEF k
<1>4. RowKept(k)
  BY <1>1, <1>2, StepRows DEF RowCleared, RowCounted, Answers
<1> QED BY <1>1, <1>2, <1>3, <1>4 DEF RowKept, LocksStay, k

(* Phases and keys go on to fit each other. *)
LEMMA StepPhasesFit ==
  ASSUME TypeOK, PhasesFit, HoldersFit, SeenFits, ClocksFit, NEW x \in Attempts, Step(x)
  PROVE  PhasesFit'
<1>1. OthersStay(x)
  BY OthersStayPut
<1>2. ASSUME NEW y \in Attempts, y # x
      PROVE  /\ pc'[y] \in {"idle", "clean", "decide"} \cup Answers => scope'[y] = "identity"
             /\ pc'[y] = "commit" => scope'[y] = "source"
             /\ \A s \in Scopes :
                  /\ ~Looked(y, s)' => ~seen'[y][s].exists
                  /\ HasCounted(y, s)' => seen'[y][s].exists
                  /\ ~seen'[y][s].exists => seen'[y][s] = NoBucket
                  /\ pc'[y] \in {"insert", "retry"} /\ s = scope'[y] => ~seen'[y][s].exists
  <2>1. pc'[y] = pc[y] /\ scope'[y] = scope[y]
    BY <1>1, <1>2 DEF OthersStay
  <2>2. \A s \in Scopes : /\ Looked(y, s)' <=> Looked(y, s)
                          /\ HasCounted(y, s)' <=> HasCounted(y, s)
                          /\ seen'[y][s] = seen[y][s]
    BY <1>1, <1>2, OthersStand
  <2> QED BY <2>1, <2>2 DEF PhasesFit
<1>3. ASSUME NEW s \in Scopes
      PROVE  /\ ~Looked(x, s)' => ~seen'[x][s].exists
             /\ HasCounted(x, s)' => seen'[x][s].exists
             /\ ~seen'[x][s].exists => seen'[x][s] = NoBucket
  <2>0. /\ ~Looked(x, s) => ~seen[x][s].exists
        /\ HasCounted(x, s) => seen[x][s].exists
        /\ ~seen[x][s].exists => seen[x][s] = NoBucket
    BY DEF PhasesFit
  <2>1. KeyIn(x, s) \in Keys /\ seen[x][s] \in Bucket /\ clock[x] \in Nat /\ ~NoBucket.exists
    BY KeyFacts DEF TypeOK, NoBucket
  <2>2. CASE OwnKept(x, s)
    BY <2>0, <2>2 DEF OwnKept
  <2>3. CASE OwnLoaded(x, s)
    BY <2>3 DEF OwnLoaded
  <2>4. CASE OwnMissing(x, s)
    BY <2>1, <2>4 DEF OwnMissing, TypeOK
  <2>5. CASE OwnCreated(x, s)
    BY <2>5 DEF OwnCreated, Fresh
  <2>6. CASE OwnCounted(x, s)
    BY <2>1, <2>6, FailureFacts DEF OwnCounted
  <2>7. CASE OwnEnded(x, s)
    BY <2>1, <2>7 DEF OwnEnded
  <2> QED BY <2>2, <2>3, <2>4, <2>5, <2>6, <2>7, StepOwn DEF OwnMoves
<1>4. /\ pc[x] \in {"idle", "clean", "decide"} \cup Answers => scope[x] = "identity"
      /\ pc[x] \in {"insert", "retry"} => ~seen[x][scope[x]].exists
  BY DEF PhasesFit, TypeOK
<1>5. ASSUME NEW answer \in Answers, Answer(x, answer)
      PROVE  pc'[x] \in Answers /\ scope'[x] = "identity"
  BY <1>5, AnswerFacts
<1>6. /\ pc'[x] \in {"idle", "clean", "decide"} \cup Answers => scope'[x] = "identity"
      /\ pc'[x] = "commit" => scope'[x] = "source"
      /\ pc'[x] \in {"insert", "retry"} => ~seen'[x][scope'[x]].exists
  <2>1. CASE Clean(x) \/ Reject(x)
    BY <2>1, <1>4 DEF Clean, Reject, Goto, TypeOK, Answers
  <2>2. CASE Find(x)
    BY <2>2, <1>4 DEF Find, Goto, TypeOK, Answers
  <2>3. CASE Refuse(x) \/ Accept(x) \/ Commit(x) \/ DeadlockAbort(x)
    BY <2>3, <1>5 DEF Refuse, Accept, Commit, DeadlockAbort, Answers
  <2>4. CASE Lookup(x)
    <3>1. scope' = scope /\ (pc'[x] = "count" \/ (pc'[x] = "insert" /\ ~bucket[KeyOf(x)].exists))
      BY <2>4 DEF Lookup, Goto, TypeOK
    <3>2. seen'[x][scope[x]] = bucket[KeyOf(x)]
      BY <2>4, SelectFacts DEF Lookup
    <3> QED BY <3>1, <3>2 DEF Answers
  <2>5. CASE Insert(x)
    <3>1. scope' = scope /\ (pc'[x] = "count" \/ (pc'[x] = "retry" /\ seen' = seen /\ pc[x] = "insert"))
      BY <2>5 DEF Insert, Goto, TypeOK
    <3> QED BY <3>1, <1>4 DEF Answers
  <2>6. CASE Retry(x)
    <3>1. (scope' = scope /\ pc'[x] = "count") \/ Answer(x, "error")
      BY <2>6 DEF Retry, Goto, TypeOK
    <3> QED BY <3>1, <1>5 DEF Answers
  <2>7. CASE Count(x)
    BY <2>7, <1>4 DEF Count, Goto, TypeOK, Answers
  <2> QED BY <2>1, <2>2, <2>3, <2>4, <2>5, <2>6, <2>7 DEF Step
<1> QED
  <2> SUFFICES ASSUME NEW y \in Attempts
               PROVE  /\ pc'[y] \in {"idle", "clean", "decide"} \cup Answers => scope'[y] = "identity"
                      /\ pc'[y] = "commit" => scope'[y] = "source"
                      /\ \A s \in Scopes :
                           /\ ~Looked(y, s)' => ~seen'[y][s].exists
                           /\ HasCounted(y, s)' => seen'[y][s].exists
                           /\ ~seen'[y][s].exists => seen'[y][s] = NoBucket
                           /\ pc'[y] \in {"insert", "retry"} /\ s = scope'[y] => ~seen'[y][s].exists
    BY DEF PhasesFit
  <2> QED BY <1>2, <1>3, <1>6

(* An attempt holds the rows it has read or inserted, and no others. *)
LEMMA StepHoldersFit ==
  ASSUME TypeOK, PhasesFit, HoldersFit, SeenFits, ClocksFit, NEW x \in Attempts, Step(x)
  PROVE  HoldersFit'
<1>1. OthersStay(x) /\ LocksStay(x) /\ input' = input
  BY OthersStayPut, StepKeeps
<1>2. ASSUME NEW y \in Attempts, NEW s \in Scopes, seen'[y][s].exists
      PROVE  holder'[KeyIn(y, s)] = y
  <2>1. CASE y # x
    BY <2>1, <1>1, <1>2, OthersStand, HeldRows
  <2>2. CASE y = x
    <3>1. seen[x][s].exists => holder[KeyIn(x, s)] = x
      BY DEF HoldersFit
    <3>2. ~NoBucket.exists
      BY DEF NoBucket
    <3> QED BY <2>2, <1>2, <3>1, <3>2, StepOwn
            DEF OwnMoves, OwnKept, OwnLoaded, OwnMissing, OwnCreated, OwnCounted, OwnEnded
  <2> QED BY <2>1, <2>2
<1>3. ASSUME NEW k \in Keys, holder'[k] # Nobody
      PROVE  \E s \in Scopes : k = KeyIn(holder'[k], s) /\ seen'[holder'[k]][s].exists
  <2>1. holder'[k] \in Attempts
    BY <1>3, StepTypes DEF TypeOK
  <2>2. CASE holder'[k] # x
    <3>1. holder'[k] = holder[k] /\ holder[k] \in Attempts
      BY <1>1, <1>3, <2>1, <2>2 DEF LocksStay
    <3>2. PICK s \in Scopes : k = KeyIn(holder[k], s) /\ seen[holder[k]][s].exists
      BY <3>1, <1>3 DEF HoldersFit
    <3> QED BY <3>1, <3>2, <2>2, <1>1 DEF OthersStay
  <2>3. CASE holder'[k] = x /\ holder[k] = x
    <3>1. PICK s \in Scopes : k = KeyIn(x, s) /\ seen[x][s].exists
      BY <2>1, <2>3, AttemptsAssumption DEF HoldersFit
    <3>2. clock[x] \in Nat /\ seen[x][s] \in Bucket
      BY DEF TypeOK
    <3>3. seen'[x][s].exists
      <4>1. OwnMoves(x, s)
        BY StepOwn
      <4>2. ~OwnLoaded(x, s) /\ ~OwnMissing(x, s) /\ ~OwnCreated(x, s)
        BY <3>1 DEF OwnLoaded, OwnMissing, OwnCreated
      <4>3. ~OwnEnded(x, s)
        BY <2>3, <3>1, AttemptsAssumption DEF OwnEnded
      <4>4. OwnKept(x, s) => seen'[x][s].exists
        BY <3>1 DEF OwnKept
      <4>5. OwnCounted(x, s) => seen'[x][s].exists
        BY <3>1, <3>2, FailureFacts DEF OwnCounted
      <4> QED BY <4>1, <4>2, <4>3, <4>4, <4>5 DEF OwnMoves
    <3> QED BY <2>3, <3>1, <3>3
  <2>4. CASE holder'[k] = x /\ holder[k] # x
    <3>1. \E s \in Scopes : k = KeyIn(x, s)
      <4>1. k = KeyOf(x)
        <5>1. KeyOf(x) \in Keys
          BY KeyFacts
        <5>2. \/ holder' = holder \/ Select(x, KeyOf(x)) \/ holder' = [holder EXCEPT ![KeyOf(x)] = x]
              \/ \A j \in Keys : holder'[j] = IF holder[j] = x THEN Nobody ELSE holder[j]
          BY AnswerFacts DEF Step, Clean, Find, Refuse, Accept, Reject, Lookup, Insert, Retry, Count,
                             Commit, DeadlockAbort, Answers
        <5> HIDE DEF KeyOf
        <5> QED BY <2>1, <2>4, <5>1, <5>2, SelectFacts, AttemptsAssumption DEF TypeOK
      <4> QED BY <4>1, KeyFacts
    <3>2. PICK s \in Scopes : k = KeyIn(x, s)
      BY <3>1
    <3>3. seen'[x][s].exists
      <4>1. ~(seen[x][s].exists)
        BY <2>4, <3>2 DEF HoldersFit
      <4>2. OwnMoves(x, s)
        BY StepOwn
      <4>3. ~OwnKept(x, s) /\ ~OwnMissing(x, s) /\ ~OwnCounted(x, s)
        BY <2>4, <3>2, <4>1 DEF OwnKept, OwnMissing, OwnCounted
      <4>4. ~OwnEnded(x, s)
        BY <2>4, <3>2, AttemptsAssumption DEF OwnEnded
      <4>5. OwnLoaded(x, s) \/ OwnCreated(x, s) => seen'[x][s].exists
        BY <3>2 DEF OwnLoaded, OwnCreated, Fresh
      <4> QED BY <4>2, <4>3, <4>4, <4>5 DEF OwnMoves
    <3> QED BY <2>4, <3>2, <3>3
  <2> QED BY <2>2, <2>3, <2>4
<1>4. \A y \in Attempts, s \in Scopes : KeyIn(y, s)' = KeyIn(y, s)
  BY <1>1 DEF KeyIn
<1> QED
  <2>1. \A k \in Keys : holder'[k] # Nobody =>
          \E s \in Scopes : k = input'[holder'[k]][s] /\ seen'[holder'[k]][s].exists
    BY <1>1, <1>3 DEF KeyIn
  <2> QED BY <1>2, <1>4, <2>1 DEF HoldersFit, KeyIn


(* A failure enters the memory of a key once, when it is counted. *)
LEMMA StepMemory ==
  ASSUME TypeOK, PhasesFit, HoldersFit, SeenFits, ClocksFit, NEW x \in Attempts, Step(x),
         NEW k \in Keys
  PROVE  \/ RowKept(k) /\ Counted(k)' = Counted(k)
         \/ RowCleared(x, k) /\ Counted(k)' = Counted(k)
         \/ RowCounted(x, k) /\ Counted(k)' = Counted(k) \cup {x} /\ x \notin Counted(k)
<1>1. CASE x \in Counted(k)'
  BY <1>1, StepCounts, StepRows
<1>2. CASE x \notin Counted(k)'
  <2>1. Counted(k)' = Counted(k)
    BY <1>2, StepCounts
  <2>2. ~RowCounted(x, k)
    BY <1>2, StepKeeps DEF RowCounted, Counted, KeysOf
  <2> QED BY <2>1, <2>2, StepRows
<1> QED BY <1>1, <1>2

(* What an attempt has loaded is what is committed, with its failure       *)
(* added.                                                                  *)
LEMMA StepSeenFits ==
  ASSUME TypeOK, PhasesFit, HoldersFit, SeenFits, ClocksFit, NEW x \in Attempts, Step(x)
  PROVE  SeenFits'
<1>1. OthersStay(x) /\ input' = input /\ clock' = clock
  BY OthersStayPut, StepKeeps
<1>2. SUFFICES ASSUME NEW y \in Attempts, NEW s \in Scopes, seen'[y][s].exists
               PROVE  seen'[y][s] = IF HasCounted(y, s)'
                                      THEN WithFailure(Row(KeyIn(y, s), clock[y])', clock[y])
                                      ELSE Row(KeyIn(y, s), clock[y])'
  BY <1>1 DEF SeenFits
<1> DEFINE k == KeyIn(y, s)
           row == Row(KeyIn(y, s), clock[y])
<1>3. k \in Keys /\ k' = k
  BY <1>1, KeyFacts DEF KeyIn
<1>4. bucket'[k] = bucket[k] => row' = row
  BY <1>1, <1>3 DEF Row, Fresh
<1>5. seen[y][s].exists => seen[y][s] = IF HasCounted(y, s) THEN WithFailure(row, clock[y]) ELSE row
  BY DEF SeenFits
<1>6. CASE y # x
  BY <1>1, <1>2, <1>4, <1>5, <1>6, OthersStand, HeldRows
<1>7. CASE y = x
  <2>1. seen[x][s].exists /\ Looked(x, s)' => bucket'[k] = bucket[k]
    <3>1. Looked(x, s)' => pc'[x] \notin Answers
      BY DEF Looked, Counting, Answers
    <3> QED BY <1>7, <3>1, HeldRows
  <2>2. seen[x][s].exists => Looked(x, s)
    BY DEF PhasesFit
  <2>3. CASE OwnKept(x, s)
    BY <1>2, <1>4, <1>5, <1>7, <2>1, <2>2, <2>3 DEF OwnKept
  <2>4. CASE OwnLoaded(x, s)
    BY <1>1, <1>3, <1>7, <2>4 DEF OwnLoaded, Row
  <2>5. CASE OwnMissing(x, s)
    BY <1>2, <1>7, <2>5 DEF OwnMissing
  <2>6. CASE OwnCreated(x, s)
    BY <1>1, <1>3, <1>7, <2>6 DEF OwnCreated, Row, Fresh
  <2>7. CASE OwnCounted(x, s)
    BY <1>4, <1>5, <1>7, <2>1, <2>7 DEF OwnCounted
  <2>8. CASE OwnEnded(x, s)
    BY <1>2, <1>7, <2>8 DEF OwnEnded, NoBucket
  <2> QED BY <2>3, <2>4, <2>5, <2>6, <2>7, <2>8, StepOwn DEF OwnMoves
<1> QED BY <1>6, <1>7

(* No clock is ahead of the time, nor further behind than an attempt may   *)
(* take.                                                                   *)
LEMMA StepClocksFit ==
  ASSUME TypeOK, ClocksFit, NEW x \in Attempts, Step(x)
  PROVE  ClocksFit'
<1>1. OthersStay(x) /\ clock' = clock /\ now' = now
  BY OthersStayPut, StepKeeps
<1>2. Active(x)
  <2>1. DeadlockAbort(x) => pc[x] \in {"find", "retry", "count", "insert"}
    BY DEF DeadlockAbort, Detected, Deadlocked, Blocked, Wanted
  <2> QED BY <2>1 DEF Step, Clean, Find, Refuse, Accept, Reject, Lookup, Insert, Retry, Count, Commit,
                      Active, Answers
<1>3. \A y \in Attempts : Active(y)' => Active(y)
  BY <1>1, <1>2 DEF OthersStay, Active
<1> QED BY <1>1, <1>3 DEF ClocksFit

(* A row that was missing when an attempt looked for it began after that. *)
LEMMA StepRowsAreYoung ==
  ASSUME TypeOK, PhasesFit, HoldersFit, SeenFits, ClocksFit, NewRowsAreYoung,
         NEW x \in Attempts, Step(x)
  PROVE  NewRowsAreYoung'
<1>1. OthersStay(x) /\ input' = input /\ clock' = clock
  BY OthersStayPut, StepKeeps
<1>2. SUFFICES ASSUME NEW y \in Attempts, NEW s \in Scopes, Looked(y, s)', ~seen'[y][s].exists,
                      bucket'[KeyIn(y, s)].exists
               PROVE  bucket'[KeyIn(y, s)].since + MaxDuration >= clock[y]
  BY <1>1 DEF NewRowsAreYoung, KeyIn
<1> DEFINE k == KeyIn(y, s)
<1>3. k \in Keys /\ clock[x] \in Nat /\ clock[y] \in Nat /\ now \in Nat
  BY KeyFacts DEF TypeOK
<1>4. Looked(y, s) /\ ~seen[y][s].exists /\ bucket[k].exists => bucket[k].since + MaxDuration >= clock[y]
  BY DEF NewRowsAreYoung
<1>5. ~RowCleared(x, k)
  BY <1>2 DEF RowCleared, NoBucket
<1>6. RowKept(k) => bucket'[k] = bucket[k]
  BY DEF RowKept
<1>7. CASE y # x
  <2>1. Looked(y, s) /\ ~seen[y][s].exists
    BY <1>1, <1>2, <1>7, OthersStand
  <2>2. CASE RowKept(k)
    BY <1>2, <1>4, <1>6, <2>1, <2>2
  <2>3. CASE RowCounted(x, k)
    <3> DEFINE b == Row(k, clock[x])
    <3>1. b \in Bucket /\ bucket'[k] = WithFailure(b, clock[x])
      BY <1>3, <2>3, RowFacts DEF RowCounted
    <3>2. b.since + MaxDuration >= clock[y] /\ clock[x] + MaxDuration >= clock[y]
      <4>1. Active(x) /\ clock[y] <= now
        BY <2>3 DEF RowCounted, Active, Answers, ClocksFit
      <4>2. now <= clock[x] + MaxDuration
        BY <4>1 DEF ClocksFit
      <4>3. clock[x] + MaxDuration >= clock[y]
        BY <4>1, <4>2, <1>3, TimesAssumption
      <4>4. ~bucket[k].exists => b.since = clock[x]
        BY <1>3, RowFacts DEF Fresh
      <4>5. bucket[k].exists => b = bucket[k]
        BY <1>3, RowFacts
      <4> QED BY <4>3, <4>4, <4>5, <1>4, <2>1
    <3> HIDE DEF b
    <3>3. bucket'[k].since \in {b.since, clock[x]}
      <4>1. b.since \in Nat
        BY <3>1 DEF Bucket
      <4>2. clock[x] < b.since + Window \/ clock[x] >= b.since + Window
        BY <4>1, <1>3, TimesAssumption
      <4> QED BY <3>1, <4>2, <1>3, FailureFacts
    <3> QED BY <3>2, <3>3
  <2> QED BY <1>3, <1>5, <2>2, <2>3, StepRows
<1>8. CASE y = x
  <2>1. Looked(x, s)' => pc'[x] \notin Answers
    BY DEF Looked, Counting, Answers
  <2>2. RowKept(k)
    BY <1>2, <1>3, <1>5, <1>8, <2>1, StepRows DEF RowCounted, Answers
  <2>3. OwnKept(x, s) \/ OwnLoaded(x, s) \/ OwnMissing(x, s)
    <3>1. ~OwnCreated(x, s)
      BY <1>2, <1>8 DEF OwnCreated, Fresh
    <3>2. seen[x][s] \in Bucket /\ clock[x] \in Nat
      BY DEF TypeOK
    <3>3. ~OwnCounted(x, s)
      BY <1>2, <1>8, <3>2, FailureFacts DEF OwnCounted
    <3>4. ~OwnEnded(x, s)
      BY <1>2, <1>8 DEF OwnEnded
    <3> QED BY <3>1, <3>3, <3>4, StepOwn DEF OwnMoves
  <2>4. ~OwnLoaded(x, s)
    BY <1>2, <1>8 DEF OwnLoaded
  <2>5. ~OwnMissing(x, s)
    BY <1>2, <1>8 DEF OwnMissing
  <2>6. Looked(x, s) /\ ~seen[x][s].exists
    BY <1>2, <1>8, <2>3, <2>4, <2>5 DEF OwnKept
  <2> QED BY <1>2, <1>4, <1>6, <1>8, <2>2, <2>6
<1> QED BY <1>7, <1>8


(* An attempt counts only on rows that were not blocked as it began, or    *)
(* that began hardly before it did.                                        *)
LEMMA StepCountedAreFree ==
  ASSUME TypeOK, PhasesFit, HoldersFit, SeenFits, ClocksFit, NewRowsAreYoung, CountedAreFree,
         NEW x \in Attempts, Step(x)
  PROVE  CountedAreFree'
<1>1. OthersStay(x) /\ input' = input /\ clock' = clock
  BY OthersStayPut, StepKeeps
<1>2. SUFFICES ASSUME NEW y \in Attempts, NEW s \in Scopes,
                      pc'[y] \in Counting \cup {"commit"}, seen'[y][s].exists
               PROVE  \/ bucket'[KeyIn(y, s)].blocked <= clock[y]
                      \/ bucket'[KeyIn(y, s)].since + MaxDuration >= clock[y]
  BY <1>1 DEF CountedAreFree, KeyIn, Counting
<1> DEFINE k == KeyIn(y, s)
<1>3. k \in Keys /\ clock[y] \in Nat /\ bucket[k] \in Bucket
  BY KeyFacts DEF TypeOK
<1>4. pc[y] \in Counting \cup {"commit"} /\ seen[y][s].exists =>
        \/ bucket[k].blocked <= clock[y]
        \/ bucket[k].since + MaxDuration >= clock[y]
  BY DEF CountedAreFree
<1>5. CASE y # x
  BY <1>1, <1>2, <1>4, <1>5, HeldRows, OthersStand DEF OthersStay
<1>6. CASE y = x /\ Reject(x)
  <2>1. bucket' = bucket /\ seen' = seen /\ pc[x] = "decide" /\ ~HasCounted(x, s)
    BY <1>6 DEF Reject, HasCounted, Counting
  <2>2. seen[x][s] = Row(k, clock[x])
    BY <1>2, <1>6, <2>1 DEF SeenFits
  <2>3. ~(seen[x][s].blocked > clock[x])
    BY <1>6 DEF Reject, IdentityBlocked, SourceBlocked, RetryAfter, Scopes
  <2>4. seen[x][s].blocked = bucket[k].blocked
    BY <2>2, <1>3, <1>6, RowFacts
  <2> QED BY <2>1, <2>3, <2>4, <1>3, <1>6 DEF Bucket
<1>7. CASE y = x /\ ~Reject(x)
  <2>1. pc[x] \in Counting \cup {"commit"}
    <3>1. pc'[x] \notin {"idle", "clean", "find", "decide"} \cup Answers
      BY <1>2, <1>7 DEF Counting, Answers
    <3>2. CASE Clean(x) \/ Find(x)
      BY <3>1, <3>2 DEF Clean, Find, Goto, TypeOK
    <3>3. CASE Refuse(x) \/ Accept(x) \/ Commit(x) \/ DeadlockAbort(x)
      BY <3>1, <3>3, AnswerFacts DEF Refuse, Accept, Commit, DeadlockAbort, Answers
    <3>4. CASE Lookup(x) \/ Insert(x) \/ Retry(x) \/ Count(x)
      BY <3>4 DEF Lookup, Insert, Retry, Count, Counting
    <3> QED BY <1>7, <3>2, <3>3, <3>4 DEF Step
  <2>2. CASE OwnKept(x, s) \/ OwnCounted(x, s)
    <3>1. seen[x][s].exists
      BY <1>2, <1>7, <2>2 DEF OwnKept, OwnCounted
    <3>2. bucket'[k] = bucket[k]
      BY <1>2, <1>7, <3>1, HeldRows DEF Counting, Answers
    <3> QED BY <1>4, <1>7, <2>1, <3>1, <3>2
  <2>3. CASE OwnLoaded(x, s)
    <3>1. Looked(x, s) /\ ~seen[x][s].exists /\ bucket[k].exists /\ bucket' = bucket
      BY <1>2, <1>7, <2>3 DEF OwnLoaded
    <3> QED BY <1>7, <3>1 DEF NewRowsAreYoung
  <2>4. CASE OwnMissing(x, s)
    BY <1>2, <1>7, <2>4 DEF OwnMissing
  <2>5. CASE OwnCreated(x, s)
    <3>1. bucket'[k] = NoBucket
      BY <1>3, <1>7, <2>5 DEF OwnCreated, TypeOK
    <3> QED BY <1>3, <3>1 DEF NoBucket
  <2>6. CASE OwnEnded(x, s)
    BY <1>2, <1>7, <2>6 DEF OwnEnded, NoBucket
  <2> QED BY <2>2, <2>3, <2>4, <2>5, <2>6, StepOwn DEF OwnMoves
<1> QED BY <1>5, <1>6, <1>7

(* A block that has not ended stands every step: whoever holds the row either  *)
(* found it free, and then it has ended by now, or adds to it within its window.*)
LEMMA StepBlocksLast ==
  ASSUME TypeOK, PhasesFit, HoldersFit, SeenFits, ClocksFit, CountedAreFree,
         NEW x \in Attempts, Step(x), NEW k \in Keys, bucket[k].blocked > now
  PROVE  bucket'[k].blocked > now
<1>1. /\ bucket[k] \in Bucket /\ clock[x] \in Nat /\ now \in Nat
      /\ bucket[k].blocked \in Nat /\ bucket[k].since \in Nat /\ bucket[k].count \in Nat
  BY DEF TypeOK, Bucket
<1>2. bucket[k].exists /\ bucket[k].count >= Limit
  BY <1>1 DEF TypeOK, NoBucket
<1>3. ~RowCleared(x, k)
  BY <1>1 DEF RowCleared
<1>4. CASE RowCounted(x, k)
  <2>1. PICK s \in Scopes : k = KeyIn(x, s)
    BY <1>4, KeyFacts DEF RowCounted, Scopes
  <2>2. seen[x][s].exists /\ pc[x] = "commit"
    BY <1>4 DEF RowCounted, PhasesFit, HasCounted
  <2>3. clock[x] <= now /\ now <= clock[x] + MaxDuration
    BY <2>2 DEF ClocksFit, Active, Answers
  <2>4. \/ bucket[k].blocked <= clock[x]
        \/ bucket[k].since + MaxDuration >= clock[x]
    BY <2>1, <2>2 DEF CountedAreFree
  <2>5. bucket[k].since + MaxDuration >= clock[x]
    BY <2>3, <2>4, <1>1
  <2>6. clock[x] < bucket[k].since + Window
    BY <2>5, <1>1, TimesAssumption
  <2>7. bucket'[k] = WithFailure(bucket[k], clock[x])
    BY <1>1, <1>2, <1>4, RowFacts DEF RowCounted
  <2>8. bucket[k].count + 1 >= Limit
    BY <1>1, <1>2, TimesAssumption
  <2>9. bucket'[k].blocked = clock[x] + Block
    <3>1. WithFailure(bucket[k], clock[x]).blocked =
            IF bucket[k].count + 1 >= Limit THEN clock[x] + Block ELSE bucket[k].blocked
      BY <2>6, <1>1, FailureFacts
    <3> QED BY <2>7, <2>8, <3>1
  <2> QED BY <2>3, <2>9, <1>1, TimesAssumption
<1> QED BY <1>3, <1>4, StepRows DEF RowKept

(* Only answered failures are forgotten; the window of a row has not ended *)
(* for any that it remembers.                                              *)
LEMMA StepMemoryFits ==
  ASSUME TypeOK, PhasesFit, HoldersFit, SeenFits, ClocksFit, MemoryFits,
         NEW x \in Attempts, Step(x)
  PROVE  MemoryFits'
<1>1. OthersStay(x) /\ clock' = clock /\ Attempts \subseteq Nat
  BY OthersStayPut, StepKeeps, AttemptsAssumption
<1>2. SUFFICES ASSUME NEW k \in Keys
               PROVE  /\ \A y \in erased'[k] : pc'[y] \in {"failed", "throttled"}
                      /\ ~bucket'[k].exists => Counted(k)' \subseteq erased'[k]
                      /\ \A y \in Counted(k)' \ erased'[k] : clock[y] < bucket'[k].since + Window
  BY <1>1 DEF MemoryFits
<1>3. /\ \A y \in erased[k] : y # x /\ y \in Attempts /\ pc[y] \in {"failed", "throttled"}
      /\ \A y \in Counted(k) : y # x /\ y \in Attempts /\ pc[y] \in {"failed", "throttled"}
      /\ ~bucket[k].exists => Counted(k) \subseteq erased[k]
      /\ \A y \in Counted(k) \ erased[k] : clock[y] < bucket[k].since + Window
  BY StepCounts DEF MemoryFits, Counted, TypeOK
<1>4. \A y \in erased[k] \cup Counted(k) : pc'[y] \in {"failed", "throttled"}
  BY <1>1, <1>3 DEF OthersStay
<1>5. CASE RowKept(k) /\ Counted(k)' = Counted(k)
  BY <1>3, <1>4, <1>5 DEF RowKept
<1>6. CASE RowCleared(x, k) /\ Counted(k)' = Counted(k)
  BY <1>4, <1>6 DEF RowCleared
<1>7. CASE RowCounted(x, k) /\ Counted(k)' = Counted(k) \cup {x} /\ x \notin Counted(k)
  <2> DEFINE b == Row(k, clock[x])
  <2>1. /\ b \in Bucket /\ b.exists /\ bucket'[k] = WithFailure(b, clock[x])
        /\ erased'[k] = erased[k] /\ clock[x] \in Nat
        /\ bucket[k].exists => b = bucket[k]
    BY <1>7, RowFacts DEF RowCounted, TypeOK
  <2> HIDE DEF b
  <2>2. bucket'[k].exists
    BY <2>1, FailureFacts
  <2>3. ASSUME NEW y \in Counted(k)' \ erased'[k]
        PROVE  clock[y] < bucket'[k].since + Window
    <3>1. b.since \in Nat /\ bucket'[k].since \in Nat /\ clock[y] \in Nat
      <4>1. bucket'[k] \in Bucket
        BY <2>1, FailureFacts
      <4>2. y \in Attempts
        BY DEF Counted
      <4> QED BY <2>1, <4>1, <4>2 DEF Bucket, TypeOK
    <3>2. clock[x] < b.since + Window => bucket'[k].since = b.since
      BY <2>1, FailureFacts
    <3>3. clock[x] >= b.since + Window => bucket'[k].since = clock[x]
      BY <2>1, FailureFacts
    <3>4. y = x \/ clock[y] < b.since + Window
      BY <1>3, <1>7, <2>1, <2>3
    <3> QED BY <2>1, <3>1, <3>2, <3>3, <3>4, TimesAssumption
  <2> QED BY <1>4, <2>1, <2>2, <2>3
<1> QED BY <1>5, <1>6, <1>7, StepMemory

(* A barred attempt goes on to find the block. *)
LEMMA StepBarredFit ==
  ASSUME TypeOK, PhasesFit, HoldersFit, SeenFits, ClocksFit, CountedAreFree, BarredFit,
         NEW x \in Attempts, Step(x)
  PROVE  BarredFit'
<1>1. OthersStay(x) /\ now' = now /\ input' = input /\ barred' = barred
  BY OthersStayPut, StepKeeps
<1>2. SUFFICES ASSUME NEW y \in Attempts, barred[y]
               PROVE  /\ bucket'[input[y].identity].blocked > now
                      /\ pc'[y] \in {"clean", "find", "decide", "refused", "error"}
                      /\ Looked(y, "identity")' => seen'[y]["identity"].blocked > now
  BY <1>1 DEF BarredFit
<1> DEFINE k == input[y].identity
<1>3. /\ k \in Keys /\ k = KeyIn(y, "identity") /\ "identity" \in Scopes
      /\ clock[y] \in Nat /\ now \in Nat /\ clock[y] <= now /\ seen[y]["identity"] \in Bucket
  BY KeyFacts DEF Keys, Scopes, TypeOK, ClocksFit
<1>4. /\ bucket[k].blocked > now
      /\ pc[y] \in {"clean", "find", "decide", "refused", "error"}
      /\ Looked(y, "identity") => seen[y]["identity"].blocked > now
  BY <1>2 DEF BarredFit
<1>5. bucket'[k].blocked > now
  BY <1>3, <1>4, StepBlocksLast
<1>6. CASE y # x
  BY <1>1, <1>3, <1>4, <1>5, <1>6, OthersStand DEF OthersStay
<1>7. CASE y = x
  <2>1. pc[x] = "decide" => IdentityBlocked(x)
    <3>1. pc[x] = "decide" => seen[x]["identity"].blocked > now
      BY <1>4, <1>7 DEF Looked
    <3> QED BY <3>1, <1>3, <1>7 DEF IdentityBlocked, RetryAfter, Bucket
  <2>2. pc'[x] \in {"clean", "find", "decide", "refused", "error"}
    <3>1. CASE Clean(x) \/ Find(x)
      BY <3>1 DEF Clean, Find, Goto, TypeOK
    <3>2. CASE Refuse(x) \/ DeadlockAbort(x)
      BY <3>2, AnswerFacts DEF Refuse, DeadlockAbort, Answers
    <3>3. ~Accept(x) /\ ~Reject(x)
      BY <2>1 DEF Accept, Reject
    <3>4. ~Lookup(x) /\ ~Insert(x) /\ ~Retry(x) /\ ~Count(x) /\ ~Commit(x)
      BY <1>4, <1>7 DEF Lookup, Insert, Retry, Count, Commit
    <3> QED BY <3>1, <3>2, <3>3, <3>4 DEF Step
  <2>3. ASSUME Looked(x, "identity")'
        PROVE  seen'[x]["identity"].blocked > now
    <3>1. ~OwnCounted(x, "identity") /\ ~OwnEnded(x, "identity")
      BY <2>2, <2>3 DEF OwnCounted, OwnEnded, HasCounted, Counting
    <3>2. ~OwnMissing(x, "identity") /\ ~OwnCreated(x, "identity")
      BY <1>3, <1>4, <1>7 DEF OwnMissing, OwnCreated, TypeOK, NoBucket
    <3>3. OwnKept(x, "identity") \/ OwnLoaded(x, "identity")
      BY <1>3, <3>1, <3>2, StepOwn DEF OwnMoves
    <3> QED BY <1>3, <1>4, <1>7, <2>3, <3>3 DEF OwnKept, OwnLoaded
  <2> QED BY <1>5, <1>7, <2>2, <2>3
<1> QED BY <1>6, <1>7


-----------------------------------------------------------------------------
(* Counting. *)

Remembered(k) == Counted(k) \ erased[k]
Recent(k)     == {x \in Remembered(k) : clock[x] >= bucket[k].since}
FailedOf(k)   == {x \in Recent(k) : pc[x] = "failed"}
CountsFit(k) ==
  /\ Cardinality(Recent(k)) <= bucket[k].count
  /\ bucket[k].count <= Cardinality(Remembered(k))
  /\ Cardinality(FailedOf(k)) < Limit

(* FailuresAreCounted, key by key. *)
LEMMA CountsAreTheProperty == FailuresAreCounted <=> \A k \in Keys : CountsFit(k)
BY DEF FailuresAreCounted, CountsFit, Remembered, Recent, FailedOf

(* There are finitely many failures to count. *)
LEMMA FiniteFailures ==
  ASSUME NEW k \in Keys
  PROVE  /\ IsFiniteSet(Remembered(k)) /\ IsFiniteSet(Recent(k)) /\ IsFiniteSet(FailedOf(k))
         /\ Cardinality(Remembered(k)) \in Nat /\ Cardinality(Recent(k)) \in Nat
         /\ Cardinality(FailedOf(k)) \in Nat
         /\ Cardinality(FailedOf(k)) <= Cardinality(Recent(k))
<1>1. Remembered(k) \subseteq Attempts
  BY DEF Remembered, Counted
<1>2. Recent(k) \subseteq Remembered(k) /\ FailedOf(k) \subseteq Recent(k)
  BY DEF Recent, FailedOf
<1>3. IsFiniteSet(Remembered(k))
  BY <1>1, AttemptsAssumption, FS_Subset
<1>4. IsFiniteSet(Recent(k))
  BY <1>2, <1>3, FS_Subset
<1>5. IsFiniteSet(FailedOf(k)) /\ Cardinality(FailedOf(k)) <= Cardinality(Recent(k))
  BY <1>2, <1>4, FS_Subset
<1> QED BY <1>3, <1>4, <1>5, FS_CardinalityType

(* A part of a finite set is no larger than the set ... *)
LEMMA Fewer ==
  ASSUME NEW S, NEW T, IsFiniteSet(S), T \subseteq S
  PROVE  IsFiniteSet(T) /\ Cardinality(T) \in Nat /\ Cardinality(T) <= Cardinality(S)
BY FS_Subset, FS_CardinalityType

(* ... one more element makes it larger by one at most ... *)
LEMMA OneMore ==
  ASSUME NEW S, NEW T, NEW e, IsFiniteSet(S), T \subseteq S \cup {e}
  PROVE  IsFiniteSet(T) /\ Cardinality(T) \in Nat /\ Cardinality(T) <= Cardinality(S) + 1
<1>1. IsFiniteSet(S \cup {e}) /\ Cardinality(S) \in Nat
  BY FS_AddElement, FS_CardinalityType
<1>2. Cardinality(S \cup {e}) \in Nat /\ Cardinality(S \cup {e}) <= Cardinality(S) + 1
  BY <1>1, FS_AddElement, FS_CardinalityType
<1>3. IsFiniteSet(T) /\ Cardinality(T) \in Nat /\ Cardinality(T) <= Cardinality(S \cup {e})
  BY <1>1, Fewer
<1> QED BY <1>1, <1>2, <1>3

(* ... and a set of one element at most has no more than one. *)
LEMMA AtMostOne ==
  ASSUME NEW T, NEW e, T \subseteq {e}
  PROVE  Cardinality(T) <= 1
<1>1. CASE T = {}
  BY <1>1, FS_EmptySet
<1>2. CASE T = {e}
  <2>1. Cardinality({e}) = 1
    BY FS_Singleton
  <2> QED BY <1>2, <2>1
<1> QED BY <1>1, <1>2

(* A row goes on to count as many failures as there were in its window,    *)
(* whoever clears it.                                                      *)
LEMMA StepFailuresAreCounted ==
  ASSUME TypeOK, PhasesFit, HoldersFit, SeenFits, ClocksFit, MemoryFits, FailuresAreCounted,
         TypeOK', NEW x \in Attempts, Step(x)
  PROVE  FailuresAreCounted'
<1>1. OthersStay(x) /\ clock' = clock
  BY OthersStayPut, StepKeeps
<1>2. SUFFICES ASSUME NEW k \in Keys
               PROVE  /\ Cardinality(Recent(k)') <= bucket'[k].count
                      /\ bucket'[k].count <= Cardinality(Remembered(k)')
                      /\ Cardinality(FailedOf(k)') < Limit
  BY DEF FailuresAreCounted, Remembered, Recent, FailedOf
<1>3. CountsFit(k)
  BY CountsAreTheProperty
<1>4. x \notin Counted(k) /\ x \notin erased[k]
  BY StepCounts DEF MemoryFits
<1>5. CASE RowKept(k) /\ Counted(k)' = Counted(k)
  <2>1. Remembered(k)' = Remembered(k)
    BY <1>5 DEF RowKept, Remembered
  <2>2. Recent(k)' = Recent(k)
    BY <1>1, <1>5, <2>1 DEF RowKept, Recent
  <2>3. FailedOf(k)' = FailedOf(k)
    <3>1. \A y \in Recent(k) : y \in Attempts /\ y # x
      BY <1>4 DEF Recent, Remembered, Counted
    <3> QED BY <1>1, <2>2, <3>1 DEF FailedOf, OthersStay
  <2> QED BY <1>3, <1>5, <2>1, <2>2, <2>3 DEF CountsFit, RowKept
<1>6. CASE RowCleared(x, k) /\ Counted(k)' = Counted(k)
  <2>1. Remembered(k)' = {}
    BY <1>6 DEF RowCleared, Remembered
  <2>2. Recent(k)' = {} /\ FailedOf(k)' = {}
    BY <2>1 DEF Recent, FailedOf
  <2>3. Cardinality({}) = 0
    BY FS_EmptySet
  <2> QED BY <1>6, <2>1, <2>2, <2>3, TimesAssumption DEF RowCleared, NoBucket
<1>7. CASE RowCounted(x, k) /\ Counted(k)' = Counted(k) \cup {x} /\ x \notin Counted(k)
  <2> DEFINE b == Row(k, clock[x])
             n == bucket'[k].count
             card == Cardinality(Remembered(k))
  <2>1. /\ b \in Bucket /\ b.exists /\ bucket'[k] = WithFailure(b, clock[x])
        /\ erased'[k] = erased[k] /\ clock[x] \in Nat
    BY <1>7, RowFacts DEF RowCounted, TypeOK
  <2>2. Remembered(k)' = Remembered(k) \cup {x} /\ x \notin Remembered(k)
    BY <1>4, <1>7, <2>1 DEF Remembered
  <2>3. card \in Nat /\ Cardinality(Remembered(k)') = card + 1
    BY <2>2, FiniteFailures, FS_AddElement
  <2>4. b.count \in Nat /\ b.since \in Nat /\ bucket[k].count \in Nat /\ bucket[k].since \in Nat
    BY <2>1 DEF Bucket, TypeOK
  <2>5. Recent(k)' = {y \in Remembered(k) \cup {x} : clock[y] >= bucket'[k].since}
    BY <1>1, <2>2 DEF Recent
  <2>6. /\ Recent(k)' \subseteq Recent(k) \cup {x}
        /\ Cardinality(Recent(k)') <= n /\ n <= card + 1 /\ n \in Nat
    <3>1. CASE ~bucket[k].exists
      <4>1. Remembered(k) = {}
        BY <3>1 DEF MemoryFits, Remembered
      <4>2. b = Fresh(clock[x])
        BY <3>1, <2>1, RowFacts
      <4>3. clock[x] < b.since + Window /\ b.count = 0
        BY <4>2, <2>1, TimesAssumption DEF Fresh
      <4>4. n = 1
        BY <4>3, <2>1, FailureFacts
      <4>5. Recent(k)' \subseteq {x}
        BY <4>1, <2>5
      <4>6. Cardinality(Recent(k)') <= 1
        BY <4>5, AtMostOne
      <4> QED BY <4>4, <4>5, <4>6, <2>3
    <3>2. CASE bucket[k].exists /\ clock[x] < bucket[k].since + Window
      <4>1. b = bucket[k]
        BY <3>2, <2>1, RowFacts
      <4>2. n = bucket[k].count + 1 /\ bucket'[k].since = bucket[k].since
        BY <3>2, <4>1, <2>1, FailureFacts
      <4>3. Recent(k)' \subseteq Recent(k) \cup {x}
        BY <2>5, <4>2 DEF Recent
      <4>4. Cardinality(Recent(k)') <= Cardinality(Recent(k)) + 1 /\ Cardinality(Recent(k)') \in Nat
        BY <4>3, FiniteFailures, OneMore
      <4>5. Cardinality(Recent(k)) <= bucket[k].count /\ bucket[k].count <= card
        BY <1>3 DEF CountsFit
      <4> QED BY <4>2, <4>3, <4>4, <4>5, <2>3, <2>4, FiniteFailures
    <3>3. CASE bucket[k].exists /\ ~(clock[x] < bucket[k].since + Window)
      <4>1. b = bucket[k]
        BY <3>3, <2>1, RowFacts
      <4>2. clock[x] >= b.since + Window
        BY <3>3, <4>1, <2>1, <2>4, TimesAssumption
      <4>3. n = 1 /\ bucket'[k].since = clock[x]
        BY <4>2, <2>1, FailureFacts
      <4>4. \A y \in Remembered(k) : clock[y] < bucket[k].since + Window /\ clock[y] \in Nat
        BY DEF MemoryFits, Remembered, Counted, TypeOK
      <4>5. Recent(k)' \subseteq {x}
        BY <4>1, <4>2, <4>3, <4>4, <2>1, <2>4, <2>5, TimesAssumption
      <4>6. Cardinality(Recent(k)') <= 1
        BY <4>5, AtMostOne
      <4> QED BY <4>3, <4>5, <4>6, <2>3
    <3> QED BY <3>1, <3>2, <3>3
  <2>7. Cardinality(FailedOf(k)') < Limit
    <3>1. IsFiniteSet(Recent(k)') /\ Cardinality(Recent(k)') \in Nat
      BY <2>6, FiniteFailures, OneMore
    <3>2. FailedOf(k)' \subseteq Recent(k)'
      BY DEF FailedOf
    <3>3. CASE pc'[x] = "failed"
      <4>1. n < Limit
        BY <1>7, <3>3, <2>6, TimesAssumption DEF RowCounted
      <4>2. Cardinality(FailedOf(k)') <= Cardinality(Recent(k)') /\ Cardinality(FailedOf(k)') \in Nat
        BY <3>1, <3>2, Fewer
      <4> QED BY <4>1, <4>2, <3>1, <2>6, TimesAssumption
    <3>4. CASE pc'[x] = "throttled"
      <4>1. \A y \in FailedOf(k)' : y \in Recent(k) /\ y # x /\ pc'[y] = "failed"
        BY <3>4, <2>6 DEF FailedOf
      <4>2. FailedOf(k)' \subseteq FailedOf(k)
        BY <4>1, <1>1 DEF FailedOf, OthersStay, Recent, Remembered, Counted
      <4>3. Cardinality(FailedOf(k)') <= Cardinality(FailedOf(k)) /\ Cardinality(FailedOf(k)') \in Nat
        BY <4>2, FiniteFailures, Fewer
      <4> QED BY <4>3, <1>3, FiniteFailures, TimesAssumption DEF CountsFit
    <3> QED BY <1>7, <3>3, <3>4 DEF RowCounted
  <2> QED BY <2>3, <2>6, <2>7
<1> QED BY <1>5, <1>6, <1>7, StepMemory


-----------------------------------------------------------------------------
(* An attempt that begins, and the clock. *)

(* The invariant survives the beginning of an attempt ... *)
LEMMA StartKeepsTheInvariant ==
  ASSUME ThrottleInv, NEW x \in Attempts, NEW i \in Inputs, Start(x, i)
  PROVE  ThrottleInv'
<1> USE DEF ThrottleInv
<1>1. TypeOK'
  BY StartTypes
<1>2. /\ pc[x] = "idle" /\ pc'[x] = "clean" /\ now' = now /\ bucket' = bucket /\ holder' = holder
      /\ scope' = scope /\ seen' = seen /\ erased' = erased
      /\ clock'[x] = now /\ input'[x] = i /\ barred'[x] = (bucket[i.identity].blocked > now)
      /\ \A y \in Attempts : y # x =>
           /\ pc'[y] = pc[y] /\ input'[y] = input[y] /\ clock'[y] = clock[y] /\ barred'[y] = barred[y]
  BY DEF Start, Goto, TypeOK
<1>3. \A y \in Attempts, s \in Scopes :
        /\ Looked(y, s)' <=> Looked(y, s)
        /\ HasCounted(y, s)' <=> HasCounted(y, s)
        /\ y # x => KeyIn(y, s)' = KeyIn(y, s)
        /\ seen[y][s].exists \/ Looked(y, s) => y # x
  <2>1. \A s \in Scopes : ~Looked(x, s) /\ ~Looked(x, s)' /\ ~HasCounted(x, s) /\ ~HasCounted(x, s)'
    BY <1>2 DEF Looked, HasCounted, Counting
  <2>2. \A s \in Scopes : ~seen[x][s].exists
    BY <2>1 DEF PhasesFit
  <2> QED BY <1>2, <2>1, <2>2 DEF Looked, HasCounted, KeyIn
<1>4. PhasesFit'
  BY <1>2, <1>3 DEF PhasesFit, Answers
<1>5. HoldersFit'
  <2>1. \A y \in Attempts, s \in Scopes : seen'[y][s].exists => holder'[KeyIn(y, s)'] = y
    BY <1>2, <1>3 DEF HoldersFit
  <2>2. ASSUME NEW k \in Keys, holder'[k] # Nobody
        PROVE  \E s \in Scopes : k = input'[holder'[k]][s] /\ seen'[holder'[k]][s].exists
    <3>1. holder[k] \in Attempts /\ holder[k] # Nobody
      BY <1>2, <2>2 DEF TypeOK
    <3>2. PICK s \in Scopes : k = input[holder[k]][s] /\ seen[holder[k]][s].exists
      BY <3>1 DEF HoldersFit, KeyIn
    <3> QED BY <1>2, <1>3, <3>1, <3>2
  <2> QED BY <2>1, <2>2 DEF HoldersFit, KeyIn
<1>6. SeenFits'
  <2> SUFFICES ASSUME NEW y \in Attempts, NEW s \in Scopes, seen'[y][s].exists
               PROVE  seen'[y][s] = IF HasCounted(y, s)'
                                      THEN WithFailure(Row(KeyIn(y, s), clock[y])', clock'[y])
                                      ELSE Row(KeyIn(y, s), clock[y])'
    BY DEF SeenFits
  <2>1. y # x /\ Row(KeyIn(y, s), clock[y])' = Row(KeyIn(y, s), clock[y])
    BY <1>2, <1>3 DEF Row, Fresh
  <2> QED BY <1>2, <1>3, <2>1 DEF SeenFits
<1>7. ClocksFit'
  <2>1. now <= now + MaxDuration /\ now <= now
    BY TimesAssumption DEF TypeOK
  <2> QED BY <1>2, <2>1 DEF ClocksFit, Active, Answers
<1>8. NewRowsAreYoung'
  BY <1>2, <1>3 DEF NewRowsAreYoung
<1>9. CountedAreFree'
  <2>1. \A y \in Attempts : pc'[y] \in Counting \cup {"commit"} => y # x /\ pc[y] \in Counting \cup {"commit"}
    BY <1>2 DEF Counting
  <2> QED BY <1>2, <1>3, <2>1 DEF CountedAreFree, Counting
<1>10. \A k \in Keys : Counted(k)' = Counted(k) /\ x \notin Counted(k)
  BY <1>2 DEF Counted, KeysOf
<1>11. MemoryFits'
  <2> SUFFICES ASSUME NEW k \in Keys
               PROVE  /\ \A y \in erased'[k] : pc'[y] \in {"failed", "throttled"}
                      /\ ~bucket'[k].exists => Counted(k)' \subseteq erased'[k]
                      /\ \A y \in Counted(k)' \ erased'[k] : clock'[y] < bucket'[k].since + Window
    BY DEF MemoryFits
  <2>1. \A y \in erased[k] \cup Counted(k) : y \in Attempts
    BY DEF Counted, TypeOK
  <2>2. \A y \in erased[k] : pc[y] \in {"failed", "throttled"} /\ y # x
    BY <1>2 DEF MemoryFits
  <2> QED BY <1>2, <1>10, <2>1, <2>2 DEF MemoryFits
<1>12. FailuresAreCounted'
  <2> SUFFICES ASSUME NEW k \in Keys
               PROVE  /\ Cardinality(Recent(k)') <= bucket'[k].count
                      /\ bucket'[k].count <= Cardinality(Remembered(k)')
                      /\ Cardinality(FailedOf(k)') < Limit
    BY DEF FailuresAreCounted, Remembered, Recent, FailedOf
  <2>1. CountsFit(k)
    BY CountsAreTheProperty
  <2>2. \A y \in Remembered(k) : y \in Attempts /\ y # x
    BY <1>10 DEF Remembered, Counted
  <2>3. Remembered(k)' = Remembered(k)
    BY <1>2, <1>10 DEF Remembered
  <2>4. Recent(k)' = Recent(k)
    BY <1>2, <2>2, <2>3 DEF Recent
  <2>5. FailedOf(k)' = FailedOf(k)
    BY <1>2, <2>2, <2>4 DEF FailedOf, Recent
  <2> QED BY <1>2, <2>1, <2>3, <2>4, <2>5 DEF CountsFit
<1>13. BarredFit'
  <2> SUFFICES ASSUME NEW y \in Attempts, barred'[y]
               PROVE  /\ bucket'[input'[y].identity].blocked > now'
                      /\ pc'[y] \in {"clean", "find", "decide", "refused", "error"}
                      /\ Looked(y, "identity")' => seen'[y]["identity"].blocked > now'
    BY DEF BarredFit
  <2>1. "identity" \in Scopes
    BY DEF Scopes
  <2> QED BY <1>2, <1>3, <2>1 DEF BarredFit
<1> QED BY <1>1, <1>4, <1>5, <1>6, <1>7, <1>8, <1>9, <1>11, <1>12, <1>13

(* ... the clock ... *)
LEMMA TickKeepsTheInvariant ==
  ASSUME ThrottleInv, Tick
  PROVE  ThrottleInv'
<1> USE DEF ThrottleInv
<1>1. TypeOK' /\ UNCHANGED <<bucket, holder, pc, scope, input, clock, seen, erased>>
  BY TickTypes DEF Tick
<1>2. PhasesFit'
  BY <1>1 DEF PhasesFit, Looked, HasCounted
<1>3. HoldersFit'
  BY <1>1 DEF HoldersFit, KeyIn
<1>4. SeenFits'
  BY <1>1 DEF SeenFits, KeyIn, Row, HasCounted
<1>5. ClocksFit'
  <2>1. now' = now + 1 /\ now \in Nat /\ \A y \in Attempts : clock[y] \in Nat
    BY DEF Tick, TypeOK
  <2>2. \A y \in Attempts : Active(y) => now' <= clock[y] + MaxDuration
    BY DEF Tick
  <2>3. \A y \in Attempts : clock[y] <= now'
    BY <2>1 DEF ClocksFit
  <2> QED BY <1>1, <2>2, <2>3 DEF ClocksFit, Active
<1>6. NewRowsAreYoung'
  BY <1>1 DEF NewRowsAreYoung, KeyIn, Looked
<1>7. CountedAreFree'
  BY <1>1 DEF CountedAreFree, KeyIn
<1>8. MemoryFits'
  BY <1>1 DEF MemoryFits, Counted, KeysOf
<1>9. FailuresAreCounted'
  BY <1>1 DEF FailuresAreCounted, Counted, KeysOf
<1>10. BarredFit'
  <2> SUFFICES ASSUME NEW y \in Attempts, barred'[y]
               PROVE  /\ bucket[input[y].identity].blocked > now'
                      /\ pc[y] \in {"clean", "find", "decide", "refused", "error"}
                      /\ Looked(y, "identity") => seen[y]["identity"].blocked > now'
    BY <1>1 DEF BarredFit, Looked
  <2> DEFINE k == KeyIn(y, "identity")
  <2>1. barred[y] /\ bucket[input[y].identity].blocked > now'
    BY DEF Tick
  <2>2. "identity" \in Scopes /\ k = input[y].identity /\ k \in Keys
    BY KeyFacts DEF Scopes
  <2>3. pc[y] \in {"clean", "find", "decide", "refused", "error"}
    BY <2>1 DEF BarredFit
  <2>4. ASSUME Looked(y, "identity")
        PROVE  seen[y]["identity"].blocked > now'
    <3>1. seen[y]["identity"].blocked > now
      BY <2>1, <2>4 DEF BarredFit
    <3>2. seen[y]["identity"].exists
      <4>1. seen[y]["identity"] = NoBucket => ~(seen[y]["identity"].blocked > now)
        BY DEF NoBucket, TypeOK
      <4> QED BY <2>2, <3>1, <4>1 DEF PhasesFit
    <3>3. ~HasCounted(y, "identity")
      BY <2>3 DEF HasCounted, Counting
    <3>4. seen[y]["identity"] = Row(k, clock[y])
      BY <2>2, <3>2, <3>3 DEF SeenFits
    <3>5. clock[y] \in Nat
      BY DEF TypeOK
    <3> QED BY <2>1, <2>2, <3>4, <3>5, RowFacts
  <2> QED BY <2>1, <2>3, <2>4
<1> QED BY <1>1, <1>2, <1>3, <1>4, <1>5, <1>6, <1>7, <1>8, <1>9, <1>10

(* ... and every step of an attempt ... *)
LEMMA StepKeepsTheInvariant ==
  ASSUME ThrottleInv, NEW x \in Attempts, Step(x)
  PROVE  ThrottleInv'
<1> USE DEF ThrottleInv
<1>1. TypeOK'
  BY StepTypes
<1> QED BY <1>1, StepPhasesFit, StepHoldersFit, StepSeenFits, StepClocksFit, StepRowsAreYoung,
           StepCountedAreFree, StepMemoryFits, StepFailuresAreCounted, StepBarredFit

-----------------------------------------------------------------------------
(* The theorems. *)

(* ... and holds at first. *)
LEMMA InitHolds ==
  ASSUME Init
  PROVE  ThrottleInv
<1>1. TypeOK
  <2>1. PICK a \in Identities, b \in Sources : TRUE
    BY KeysAssumption
  <2>2. [identity |-> a, source |-> b, right |-> TRUE] \in Input
    BY DEF Input
  <2>3. (CHOOSE j \in Input : TRUE) \in Input
    BY <2>2
  <2>4. NoBucket \in Bucket /\ Unread \in [Scopes -> Bucket]
    BY DEF NoBucket, Bucket, Unread
  <2> QED BY <2>3, <2>4, AttemptsAssumption DEF Init, TypeOK, Scopes, NoBucket
<1>2. \A y \in Attempts : /\ pc[y] = "idle" /\ scope[y] = "identity" /\ ~barred[y]
                          /\ clock[y] = 0 /\ \A s \in Scopes : seen[y][s] = NoBucket
  BY DEF Init, Unread
<1>3. \A k \in Keys : holder[k] = Nobody /\ bucket[k] = NoBucket /\ erased[k] = {} /\ Counted(k) = {}
  BY <1>2 DEF Init, Counted
<1>4. PhasesFit /\ HoldersFit /\ SeenFits /\ NewRowsAreYoung /\ CountedAreFree /\ BarredFit
  BY <1>2, <1>3 DEF PhasesFit, HoldersFit, SeenFits, NewRowsAreYoung, CountedAreFree, BarredFit,
                    Looked, HasCounted, Counting, NoBucket
<1>5. ClocksFit
  BY <1>2 DEF ClocksFit, Active, Init
<1>6. MemoryFits
  BY <1>3 DEF MemoryFits
<1>7. FailuresAreCounted
  <2>1. \A k \in Keys : Remembered(k) = {} /\ Recent(k) = {} /\ FailedOf(k) = {}
    BY <1>3 DEF Remembered, Recent, FailedOf
  <2>2. Cardinality({}) = 0
    BY FS_EmptySet
  <2>3. \A k \in Keys : CountsFit(k)
    BY <1>3, <2>1, <2>2, TimesAssumption DEF CountsFit, NoBucket
  <2> QED BY <2>3, CountsAreTheProperty
<1> QED BY <1>1, <1>4, <1>5, <1>6, <1>7 DEF ThrottleInv

(* Together: every step keeps it. *)
LEMMA NextKeepsTheInvariant ==
  ASSUME ThrottleInv, [Next]_vars
  PROVE  ThrottleInv'
<1>1. CASE UNCHANGED vars
  <2>1. TypeOK' /\ PhasesFit' /\ ClocksFit'
    BY <1>1 DEF ThrottleInv, vars, TypeOK, PhasesFit, ClocksFit, Looked, HasCounted, Active
  <2>2. HoldersFit' /\ NewRowsAreYoung' /\ CountedAreFree' /\ BarredFit'
    BY <1>1 DEF ThrottleInv, vars, HoldersFit, NewRowsAreYoung, CountedAreFree, BarredFit, Looked, KeyIn
  <2>3. SeenFits'
    BY <1>1 DEF ThrottleInv, vars, SeenFits, HasCounted, KeyIn, Row
  <2>4. MemoryFits' /\ FailuresAreCounted'
    BY <1>1 DEF ThrottleInv, vars, MemoryFits, FailuresAreCounted, Counted, KeysOf
  <2> QED BY <2>1, <2>2, <2>3, <2>4 DEF ThrottleInv
<1> QED BY <1>1, StartKeepsTheInvariant, TickKeepsTheInvariant, StepKeepsTheInvariant DEF Next

(* The invariant of the throttle holds in every reachable state.               *)
THEOREM ThrottleHolds == Spec => []ThrottleInv
BY InitHolds, NextKeepsTheInvariant, PTL DEF Spec

(* The count of every row covers each wrong password that was answered within  *)
(* its window and nothing else, and fewer than the limit are answered 401.     *)
THEOREM NoFailureIsLost == Spec => []FailuresAreCounted
<1>1. ThrottleInv => FailuresAreCounted
  BY DEF ThrottleInv
<1> QED BY <1>1, ThrottleHolds, PTL

(* An attempt that begins while its identity is blocked is not accepted while  *)
(* that block lasts.                                                           *)
THEOREM BlockedAreRefused == Spec => []BlockedIsRefused
<1>1. ThrottleInv => BlockedIsRefused
  BY DEF ThrottleInv, BarredFit, BlockedIsRefused
<1> QED BY <1>1, ThrottleHolds, PTL

(* No step ends a block before its time: neither a late success, nor a failure *)
(* counted with an older clock, nor the clean-up.                              *)
THEOREM BlocksStand == Spec => BlocksLast
<1>1. ThrottleInv /\ [Next]_vars => BlockLasts
  <2> SUFFICES ASSUME ThrottleInv, [Next]_vars, NEW k \in Keys, bucket[k].blocked > now'
               PROVE  bucket'[k].blocked > now'
    BY DEF BlockLasts
  <2>1. CASE bucket' = bucket
    BY <2>1
  <2>2. CASE \E x \in Attempts : Step(x)
    <3>1. PICK x \in Attempts : Step(x)
      BY <2>2
    <3> QED BY <3>1, StepBlocksLast, StepKeeps DEF ThrottleInv
  <2> QED BY <2>1, <2>2 DEF Next, Start, Tick, vars
<1> QED BY <1>1, ThrottleHolds, PTL DEF Spec, BlocksLast

=============================================================================
