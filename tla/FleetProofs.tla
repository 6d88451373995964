---------------------------- MODULE FleetProofs ----------------------------
(***************************************************************************)
(* Proofs about Fleet, for any finite set of requests and any vehicles,    *)
(* rules, keys and inputs.                                                 *)
(***************************************************************************)
EXTENDS Fleet, FiniteSetTheorems, TLAPS

(* Closing a session leaves every private copy and every lock well typed. *)
LEMMA CloseSessionType ==
  ASSUME TypeOK, NEW t \in Requests, CloseSession(t)
  PROVE  /\ seen' \in [Requests -> [Vehicles -> Nat]]
         /\ evalDay' \in [Requests -> Nat]
         /\ fleet' \in [Requests -> SUBSET Vehicles]
         /\ todo' \in [Requests -> SUBSET Rules]
         /\ cycle' \in [Requests -> [Rules -> Severities \cup {"unread"}]]
         /\ plan' \in [Requests -> [Rules -> Event]]
         /\ locked' \in [Vehicles -> Requests \cup {NoRequest}]
         /\ sharing' \in [Vehicles -> SUBSET Requests]
<1>1. NoEvent \in Event
  BY DEF NoEvent, Event, Severities
<1>2. QED
  BY <1>1, StartAssumption DEF TypeOK, CloseSession, ReleaseLocks

Phases == {"idle", "lock", "insert", "evaluate", "done"}
Codes  == {"none", "ok", "rejected", "error", "lost"}

(* Answering a request keeps its phase and its reply well typed. *)
LEMMA FinishType ==
  ASSUME TypeOK, NEW t \in Requests, NEW code \in Codes,
         NEW record \in Requests \cup {NoRequest}, Finish(t, code, record)
  PROVE  pc' \in [Requests -> Phases] /\ reply' \in [Requests -> Reply]
BY DEF TypeOK, Finish, Reply, Phases, Codes

(* Whatever the rule, the base and the reading, the evaluation yields a     *)
(* severity.                                                                *)
LEMMA SeverityType ==
  ASSUME NEW spec, NEW base, NEW km, NEW day
  PROVE  Severity(spec, base, km, day) \in Severities
BY DEF Severity, KmSeverity, DaySeverity, Severities

(* One turn of the loop of evaluate_maintenance yields a well formed event,  *)
(* which names an alert unless nothing changes.                              *)
LEMMA DecisionType ==
  ASSUME TypeOK, NEW t \in Requests, NEW r \in Rules, NEW u \in Requests \cup {NoRequest},
         NEW s \in Severities
  PROVE  Decision(t, r, u, s) \in Event
<1>1. u # NoRequest => alerts[r][u].severity \in Severities
  BY DEF TypeOK, Alert
<1>2. QED
  BY <1>1 DEF Decision, Event, NoEvent, Severities

(* The UPDATE or INSERT of an alert yields a well formed row. *)
LEMMA AlertAfterType ==
  ASSUME NEW w \in Event, NEW u, NEW a \in Alert
  PROVE  AlertAfter(w, u, a) \in Alert
<1>1. CASE w = NoEvent
  BY <1>1 DEF AlertAfter, NoEvent
<1>2. CASE w \in [type : {"created", "updated", "resolved"}, alert : Requests, severity : Severities]
  BY <1>2 DEF AlertAfter, Alert
<1>3. QED
  BY <1>1, <1>2 DEF Event

(* Every reachable state is well typed, whatever the requests and the rules. *)
THEOREM TypeCorrect == Spec => []TypeOK
<1>1. Init => TypeOK
  <2> SUFFICES ASSUME Init PROVE TypeOK
    OBVIOUS
  <2>1. /\ NoAlert \in Alert /\ NoEvent \in Event /\ NoReply \in Reply /\ NoRule \in Rule
    BY DEF NoAlert, Alert, NoEvent, Event, NoReply, Reply, NoRule, Rule, Severities
  <2>2. (CHOOSE o \in Inputs : TRUE) \in Inputs
    BY InputsAssumption
  <2>3. rules \in [Rules -> Rule]
    BY <2>1, RulesAssumption, StartAssumption DEF Init, Rule, RuleSpecs
  <2>4. QED
    BY <2>1, <2>2, <2>3, StartAssumption DEF Init, TypeOK
<1>2. TypeOK /\ [Next]_vars => TypeOK'
  <2> SUFFICES ASSUME TypeOK, [Next]_vars PROVE TypeOK'
    OBVIOUS
  <2> USE DEF TypeOK, Phases
  <2>1. ASSUME NEW t \in Requests, NEW o \in Inputs, Start(t, o)
        PROVE  op' \in [Requests -> Inputs] /\ began' \in [Requests -> Nat]
    <3>1. Cardinality({u \in Requests : pc[u] # "idle"}) \in Nat
      BY RequestsAssumption, FS_CardinalityType, FS_Subset
    <3>2. QED
      BY <2>1, <3>1 DEF Start
  <2>2. ASSUME NEW t \in Requests, NEW o \in Inputs, ClosingCheckKey(t, o)
        PROVE  TypeOK'
    <3>1. op' \in [Requests -> Inputs] /\ began' \in [Requests -> Nat]
      BY <2>1, <2>2 DEF ClosingCheckKey
    <3>2. pc' \in [Requests -> Phases] /\ reply' \in [Requests -> Reply]
      <4>1. CASE \E rec \in records : SameClosing(rec, o) /\ Finish(t, "ok", rec.id)
        <5>1. PICK rec \in records : Finish(t, "ok", rec.id)
          BY <4>1
        <5>2. rec.id \in Requests
          BY DEF Record
        <5>3. QED
          BY <5>1, <5>2, FinishType DEF Codes
      <4>2. CASE pc' = [pc EXCEPT ![t] = "lock"] /\ UNCHANGED reply
        BY <4>2
      <4>3. QED
        BY <2>2, <4>1, <4>2 DEF ClosingCheckKey
    <3>3. QED
      BY <2>2, <3>1, <3>2 DEF ClosingCheckKey, tables, locks
  <2>3. ASSUME NEW t \in Requests, ClosingLock(t)
        PROVE  TypeOK'
    <3>1. op[t].vehicle \in Vehicles
      BY InputsAssumption DEF Input
    <3>2. pc' \in [Requests -> Phases] /\ reply' \in [Requests -> Reply]
      <4>1. CASE Finish(t, "rejected", NoRequest)
        BY <4>1, FinishType DEF Codes
      <4>2. CASE pc' = [pc EXCEPT ![t] = "insert"] /\ UNCHANGED reply
        BY <4>2
      <4>3. QED
        BY <2>3, <4>1, <4>2 DEF ClosingLock, RowIsFree, Accepted
    <3>3. seen' \in [Requests -> [Vehicles -> Nat]] /\ locked' \in [Vehicles -> Requests \cup {NoRequest}]
      <4>1. CASE UNCHANGED <<locked, seen>>
        BY <4>1
      <4>2. CASE /\ locked' = [locked EXCEPT ![op[t].vehicle] = t]
                 /\ seen' = [seen EXCEPT ![t][op[t].vehicle] = odometer[op[t].vehicle]]
        BY <3>1, <4>2
      <4>3. QED
        BY <2>3, <4>1, <4>2 DEF ClosingLock, RowIsFree, Accepted
    <3>4. QED
      BY <2>3, <3>2, <3>3 DEF ClosingLock, RowIsFree, Accepted, tables
  <2>4. ASSUME NEW t \in Requests, ClosingInsert(t)
        PROVE  TypeOK'
    <3>1. op[t].vehicle \in Vehicles /\ op[t].day \in Nat
      BY InputsAssumption DEF Input
    <3>2. pc' \in [Requests -> Phases] /\ reply' \in [Requests -> Reply]
      <4>1. CASE Finish(t, "error", NoRequest)
        BY <4>1, FinishType DEF Codes
      <4>2. CASE pc' = [pc EXCEPT ![t] = "evaluate"] /\ UNCHANGED reply
        BY <4>2
      <4>3. QED
        BY <2>4, <4>1, <4>2 DEF ClosingInsert, KeyIsTaken, locks
    <3>3. CASE CloseSession(t)
      BY <2>4, <3>2, <3>3, CloseSessionType DEF ClosingInsert, KeyIsTaken, tables
    <3>4. CASE /\ evalDay' = [evalDay EXCEPT ![t] = op[t].day]
               /\ fleet' = [fleet EXCEPT ![t] = {op[t].vehicle}]
               /\ UNCHANGED <<locks, reply, seen, todo, cycle, plan>>
      BY <2>4, <3>1, <3>2, <3>4 DEF ClosingInsert, KeyIsTaken, tables, locks
    <3>5. QED
      BY <2>4, <3>3, <3>4 DEF ClosingInsert, KeyIsTaken
  <2>5. ASSUME NEW t \in Requests, NEW o \in Inputs, RuleStart(t, o)
        PROVE  TypeOK'
    <3>1. op' \in [Requests -> Inputs] /\ began' \in [Requests -> Nat]
      BY <2>1, <2>5 DEF RuleStart
    <3>2. RuleSpec[o.rule].vehicle \in Vehicles
      BY InputsAssumption, RulesAssumption DEF Input, RuleSpecs
    <3>3. QED
      BY <2>5, <3>1, <3>2 DEF RuleStart, tables, locks
  <2>6. ASSUME NEW t \in Requests, NEW o \in Inputs, ExecutionStart(t, o)
        PROVE  TypeOK'
    <3>1. op' \in [Requests -> Inputs] /\ began' \in [Requests -> Nat]
      BY <2>1, <2>6 DEF ExecutionStart
    <3>2. RuleSpec[o.rule].vehicle \in Vehicles /\ o.day \in Nat
      BY InputsAssumption, RulesAssumption DEF Input, RuleSpecs
    <3>3. pc' \in [Requests -> Phases] /\ reply' \in [Requests -> Reply]
      <4>1. CASE Finish(t, "rejected", NoRequest)
        BY <4>1, FinishType DEF Codes
      <4>2. CASE pc' = [pc EXCEPT ![t] = "insert"] /\ UNCHANGED reply
        BY <4>2
      <4>3. QED
        BY <2>6, <4>1, <4>2 DEF ExecutionStart
    <3>4. QED
      <4>1. /\ seen' \in [Requests -> [Vehicles -> Nat]]
            /\ evalDay' \in [Requests -> Nat]
            /\ fleet' \in [Requests -> SUBSET Vehicles]
        <5>1. CASE UNCHANGED <<seen, evalDay, fleet>>
          BY <5>1
        <5>2. CASE /\ seen' = [seen EXCEPT ![t][RuleSpec[o.rule].vehicle] = odometer[RuleSpec[o.rule].vehicle]]
                   /\ evalDay' = [evalDay EXCEPT ![t] = o.day]
                   /\ fleet' = [fleet EXCEPT ![t] = {RuleSpec[o.rule].vehicle}]
          BY <3>2, <5>2
        <5>3. QED
          BY <2>6, <5>1, <5>2 DEF ExecutionStart
      <4>2. QED
        BY <2>6, <3>1, <3>3, <4>1 DEF ExecutionStart, tables, locks
  <2>7. ASSUME NEW t \in Requests, NEW o \in Inputs, ListStart(t, o)
        PROVE  TypeOK'
    <3>1. op' \in [Requests -> Inputs] /\ began' \in [Requests -> Nat]
      BY <2>1, <2>7 DEF ListStart
    <3>2. QED
      BY <2>7, <3>1, VehiclesAssumption DEF ListStart, tables, locks
  <2>8. ASSUME NEW t \in Requests, NEW v \in Vehicles, LoadRules(t, v)
        PROVE  TypeOK'
    BY <2>8 DEF LoadRules, tables, locks
  <2>9. ASSUME NEW t \in Requests, NEW r \in Rules, EvaluateRule(t, r)
        PROVE  TypeOK'
    <3>1. PICK u \in Requests \cup {NoRequest} :
            /\ plan' = [plan EXCEPT ![t][r] = Decision(t, r, u, cycle[t][r])]
            /\ todo' = todo \/ todo' = [todo EXCEPT ![t] = @ \ {r}]
      BY <2>9 DEF EvaluateRule, OpenAlerts
    <3>2. Decision(t, r, u, cycle[t][r]) \in Event
      <4>1. cycle[t][r] \in Severities
        BY <2>9 DEF EvaluateRule
      <4>2. QED
        BY <4>1, DecisionType
    <3>3. plan' \in [Requests -> [Rules -> Event]]
      <4>1. [plan[t] EXCEPT ![r] = Decision(t, r, u, cycle[t][r])] \in [Rules -> Event]
        BY <3>2
      <4>2. plan' = [plan EXCEPT ![t] = [plan[t] EXCEPT ![r] = Decision(t, r, u, cycle[t][r])]]
        BY <3>1
      <4>3. QED
        BY <4>1, <4>2
    <3>4. todo' \in [Requests -> SUBSET Rules]
      <4>1. CASE todo' = todo
        BY <4>1
      <4>2. CASE todo' = [todo EXCEPT ![t] = @ \ {r}]
        BY <4>2
      <4>3. QED
        BY <3>1, <4>1, <4>2
    <3>5. cycle' \in [Requests -> [Rules -> Severities \cup {"unread"}]]
      BY <2>9 DEF EvaluateRule
    <3>6. QED
      BY <2>9, <3>3, <3>4, <3>5 DEF EvaluateRule, tables, locks
  <2>10. ASSUME NEW t \in Requests, NEW r \in Rules, ReadCycle(t, r)
         PROVE  TypeOK'
    <3>1. SeverityFor(t, r) \in Severities
      BY SeverityType DEF SeverityFor
    <3>2. QED
      BY <2>10, <3>1 DEF ReadCycle, tables, locks
  <2>11. ASSUME NEW t \in Requests, NEW r \in Rules, FlushAlert(t, r)
         PROVE  TypeOK'
    <3>1. RuleSpec[r].vehicle \in Vehicles
      BY RulesAssumption DEF RuleSpecs
    <3>2. QED
      BY <2>11, <3>1 DEF FlushAlert, ShareRow, tables
  <2>12. ASSUME NEW t \in Requests, ChildInsert(t)
         PROVE  TypeOK'
    <3>1. RuleSpec[op[t].rule].vehicle \in Vehicles
      BY InputsAssumption, RulesAssumption DEF Input, RuleSpecs
    <3>2. QED
      BY <2>12, <3>1 DEF ChildInsert, ShareRow, tables, private
  <2>13. ASSUME NEW t \in Requests, Commit(t)
         PROVE  TypeOK'
    <3>1. op[t] \in Input
      BY InputsAssumption
    <3>2. records' \subseteq Record
      BY <2>13, <3>1 DEF Commit, NewRecord, Record, Input
    <3>3. odometer' \in [Vehicles -> Nat]
      BY <2>13, <3>1 DEF Commit, Input
    <3>4. VisibleRule(t, op[t].rule) \in Rule
      BY <3>1, RulesAssumption DEF VisibleRule, Rule, Input, RuleSpecs
    <3>5. rules' \in [Rules -> Rule]
      BY <2>13, <3>1, <3>4 DEF Commit, Input
    <3>6. executions' \subseteq Execution
      BY <2>13, <3>1 DEF Commit, VisibleExecutions, OwnExecution, Execution, Input
    <3>7. alerts' \in [Rules -> [Requests -> Alert]]
      BY <2>13, AlertAfterType DEF Commit
    <3>8. events' \in [Requests -> [Rules -> Event]]
      BY <2>13 DEF Commit
    <3>9. pc' \in [Requests -> Phases] /\ reply' \in [Requests -> Reply]
      BY <2>13, FinishType DEF Commit, Codes
    <3>10. QED
      BY <2>13, <3>2, <3>3, <3>5, <3>6, <3>7, <3>8, <3>9, CloseSessionType DEF Commit
  <2>14. ASSUME NEW t \in Requests, Abort(t)
         PROVE  TypeOK'
    <3>1. pc' \in [Requests -> Phases] /\ reply' \in [Requests -> Reply]
      BY <2>14, FinishType DEF Abort, Codes
    <3>2. QED
      BY <2>14, <3>1, CloseSessionType DEF Abort, tables
  <2>15. CASE NextDay
    BY <2>15 DEF NextDay, tables, locks, private
  <2>16. CASE UNCHANGED vars
    BY <2>16 DEF vars, tables, locks, private
  <2>17. QED
    BY <2>2, <2>3, <2>4, <2>5, <2>6, <2>7, <2>8, <2>9, <2>10, <2>11, <2>12, <2>13, <2>14, <2>15, <2>16
       DEF Next, Arrive, Step
<1>3. QED
  BY <1>1, <1>2, PTL DEF Spec

-----------------------------------------------------------------------------
(* The ledger of closings. *)

LedgerInv ==
  /\ LockedReadIsCurrent
  /\ KeyIsReserved
  /\ RowsOfFinishedRequests
  /\ OneRecordPerKey
  /\ EveryKilometreClosedOnce

(* What a request carries is well typed. *)
LEMMA InputFields ==
  ASSUME TypeOK, NEW t \in Requests
  PROVE  /\ op[t] \in Input /\ op[t].vehicle \in Vehicles /\ op[t].rule \in Rules
         /\ op[t].key \in Keys /\ op[t].km \in Nat /\ op[t].day \in Nat
BY InputsAssumption DEF TypeOK, Input

Untouched(u) ==
  /\ pc'[u] = pc[u] /\ op'[u] = op[u] /\ seen'[u] = seen[u]
  /\ \A v \in Vehicles : locked[v] = u => locked'[v] = u

(* A step of one request changes nothing private of another, and takes no   *)
(* row away from it.                                                        *)
LEMMA OthersUntouched ==
  ASSUME TypeOK, NEW t \in Requests, Arrive(t) \/ Step(t) \/ Abort(t),
         NEW u \in Requests, u # t
  PROVE  Untouched(u)
<1> USE DEF TypeOK, Untouched
<1>1. ASSUME NEW o \in Inputs, ClosingCheckKey(t, o) PROVE Untouched(u)
  BY <1>1 DEF ClosingCheckKey, Start, Finish, locks
<1>2. CASE ClosingLock(t)
  BY <1>2, RequestsAssumption DEF ClosingLock, RowIsFree, Accepted, Finish
<1>3. CASE ClosingInsert(t)
  <2>1. CASE CloseSession(t)
    BY <1>3, <2>1 DEF ClosingInsert, KeyIsTaken, Finish, CloseSession, ReleaseLocks
  <2>2. CASE pc' = [pc EXCEPT ![t] = "evaluate"] /\ UNCHANGED <<locks, seen>>
    BY <1>3, <2>2 DEF ClosingInsert, KeyIsTaken, locks
  <2>3. QED
    BY <1>3, <2>1, <2>2 DEF ClosingInsert, KeyIsTaken, locks
<1>4. ASSUME NEW o \in Inputs, RuleStart(t, o) PROVE Untouched(u)
  BY <1>4 DEF RuleStart, Start, locks
<1>5. ASSUME NEW o \in Inputs, ExecutionStart(t, o) PROVE Untouched(u)
  BY <1>5 DEF ExecutionStart, Start, Finish, locks
<1>6. ASSUME NEW o \in Inputs, ListStart(t, o) PROVE Untouched(u)
  BY <1>6 DEF ListStart, Start, locks
<1>7. CASE \E v \in Vehicles : LoadRules(t, v)
  BY <1>7 DEF LoadRules, locks
<1>8. CASE \E r \in Rules : ReadCycle(t, r) \/ EvaluateRule(t, r)
  BY <1>8 DEF ReadCycle, EvaluateRule, locks
<1>9. CASE \E r \in Rules : FlushAlert(t, r)
  BY <1>9 DEF FlushAlert
<1>10. CASE ChildInsert(t)
  BY <1>10 DEF ChildInsert, private
<1>11. CASE Commit(t)
  BY <1>11 DEF Commit, Finish, CloseSession, ReleaseLocks
<1>12. CASE Abort(t)
  BY <1>12 DEF Abort, Finish, CloseSession, ReleaseLocks
<1>13. QED
  BY <1>1, <1>2, <1>3, <1>4, <1>5, <1>6, <1>7, <1>8, <1>9, <1>10, <1>11, <1>12
     DEF Arrive, Step

(* The only step that touches the ledger is the commit of a closing. *)
LEMMA OnlyCommitsTouchTheLedger ==
  ASSUME TypeOK, [Next]_vars
  PROVE  \/ UNCHANGED <<odometer, records>>
         \/ \E t \in Requests : Commit(t) /\ op[t].type = "closing"
<1>1. ASSUME NEW t \in Requests, Commit(t), op[t].type # "closing"
      PROVE  UNCHANGED <<odometer, records>>
  BY <1>1 DEF Commit
<1>2. QED
  BY <1>1 DEF Next, Arrive, Step, Abort, NextDay, ClosingCheckKey, SameClosing, ClosingLock, RowIsFree, Accepted,
       ClosingInsert, KeyIsTaken,
     RuleStart, ExecutionStart, ListStart, LoadRules, ReadCycle, EvaluateRule, FlushAlert, ChildInsert,
     tables, vars

(* A finished request takes no step. *)
LEMMA DoneIsFinal ==
  ASSUME TypeOK, [Next]_vars, NEW u \in Requests, pc[u] = "done"
  PROVE  pc'[u] = "done"
<1>1. ASSUME NEW t \in Requests, Arrive(t) \/ Step(t) \/ Abort(t)
      PROVE  pc'[u] = "done"
  <2>1. CASE t # u
    BY <1>1, <2>1, OthersUntouched DEF Untouched
  <2>2. CASE t = u
    BY <1>1, <2>2 DEF Arrive, Step, Abort, Start, ClosingCheckKey, SameClosing, ClosingLock, RowIsFree, Accepted,
       ClosingInsert, KeyIsTaken,
       RuleStart, ExecutionStart, ListStart, LoadRules, ReadCycle, EvaluateRule, FlushAlert, Flushing,
       ChildInsert, Commit
  <2>3. QED
    BY <2>1, <2>2
<1>2. QED
  BY <1>1 DEF Next, NextDay, vars

(* No step makes the odometer that a locked closing has read stale. *)
LEMMA LockedReadStep ==
  ASSUME TypeOK, LockedReadIsCurrent, [Next]_vars
  PROVE  LockedReadIsCurrent'
<1> USE DEF TypeOK
<1> DEFINE Holds(t) == /\ locked[op[t].vehicle] = t
                       /\ seen[t][op[t].vehicle] = odometer[op[t].vehicle]
                       /\ odometer[op[t].vehicle] <= op[t].km
           Closing(t) == op[t].type = "closing" /\ pc[t] \in {"insert", "evaluate"}
<1>1. \A t \in Requests : Closing(t) => Holds(t)
  BY DEF LockedReadIsCurrent
<1>2. SUFFICES ASSUME NEW u \in Requests, Closing(u)' PROVE Holds(u)'
  BY DEF LockedReadIsCurrent
<1>3. ASSUME NEW t \in Requests, Arrive(t) \/ Step(t) \/ Abort(t), t # u
      PROVE  Holds(u)'
  <2>1. Untouched(u)
    BY <1>3, OthersUntouched
  <2>2. Closing(u) /\ Holds(u)
    BY <1>1, <1>2, <2>1 DEF Untouched
  <2>3. op[u].vehicle \in Vehicles
    BY InputFields
  <2>4. odometer'[op[u].vehicle] = odometer[op[u].vehicle]
    <3>1. CASE UNCHANGED odometer
      BY <3>1
    <3>2. ASSUME NEW x \in Requests, Commit(x), op[x].type = "closing"
          PROVE  odometer'[op[u].vehicle] = odometer[op[u].vehicle]
      <4>1. x # u
        BY <1>2, <3>2 DEF Commit, Finish
      <4>2. Holds(x)
        BY <1>1, <3>2 DEF Commit
      <4>3. op[x].vehicle # op[u].vehicle
        BY <2>2, <4>1, <4>2
      <4>4. QED
        BY <2>3, <3>2, <4>3 DEF Commit
    <3>3. QED
      BY <3>1, <3>2, OnlyCommitsTouchTheLedger
  <2>5. QED
    BY <2>1, <2>2, <2>3, <2>4 DEF Untouched
<1>4. ASSUME Arrive(u) \/ Step(u) \/ Abort(u)
      PROVE  Holds(u)'
  <2>1. CASE Arrive(u)
    BY <1>2, <2>1 DEF Arrive, Start, Finish, ClosingCheckKey, SameClosing, RuleStart, ExecutionStart, ListStart
  <2>2. CASE ClosingLock(u)
    <3>1. op[u].vehicle \in Vehicles
      BY InputFields
    <3>2. CASE Finish(u, "rejected", NoRequest)
      BY <1>2, <3>2 DEF Finish
    <3>3. CASE /\ op[u].km >= odometer[op[u].vehicle]
               /\ locked' = [locked EXCEPT ![op[u].vehicle] = u]
               /\ seen' = [seen EXCEPT ![u][op[u].vehicle] = odometer[op[u].vehicle]]
      <4>1. UNCHANGED <<op, odometer>>
        BY <2>2 DEF ClosingLock, RowIsFree, Accepted, tables
      <4>2. op[u].km \in Nat /\ odometer[op[u].vehicle] \in Nat
        BY <3>1, InputFields
      <4>3. QED
        BY <3>1, <3>3, <4>1, <4>2
    <3>4. QED
      BY <2>2, <3>2, <3>3 DEF ClosingLock, RowIsFree, Accepted
  <2>3. CASE ClosingInsert(u)
    <3>1. CASE Finish(u, "error", NoRequest)
      BY <1>2, <3>1 DEF Finish
    <3>2. CASE UNCHANGED <<locks, reply, seen, todo, cycle, plan>>
      BY <1>1, <2>3, <3>2 DEF ClosingInsert, KeyIsTaken, tables, locks
    <3>3. QED
      BY <2>3, <3>1, <3>2 DEF ClosingInsert, KeyIsTaken
  <2>4. CASE \E v \in Vehicles : LoadRules(u, v)
    BY <1>1, <1>2, <2>4 DEF LoadRules, tables, locks
  <2>5. CASE \E r \in Rules : ReadCycle(u, r) \/ EvaluateRule(u, r)
    BY <1>1, <1>2, <2>5 DEF ReadCycle, EvaluateRule, tables, locks
  <2>6. CASE \E r \in Rules : FlushAlert(u, r)
    BY <1>1, <1>2, <2>6 DEF FlushAlert, tables
  <2>7. CASE ChildInsert(u)
    BY <1>2, <2>7 DEF ChildInsert, private
  <2>8. CASE Commit(u) \/ Abort(u)
    BY <1>2, <2>8 DEF Commit, Abort, Finish
  <2>9. QED
    BY <1>4, <2>1, <2>2, <2>3, <2>4, <2>5, <2>6, <2>7, <2>8 DEF Step
<1>5. CASE NextDay \/ UNCHANGED vars
  BY <1>1, <1>2, <1>5 DEF NextDay, vars, tables, locks, private
<1>6. QED
  BY <1>3, <1>4, <1>5 DEF Next

(* No step lets two closings hold or commit the same key. *)
LEMMA KeyStep ==
  ASSUME TypeOK, KeyIsReserved, [Next]_vars
  PROVE  KeyIsReserved'
<1> USE DEF TypeOK
<1>1. SUFFICES ASSUME NEW u \in Requests, Inserted(u)'
               PROVE  /\ \A rec \in records' : rec.key # op'[u].key
                      /\ \A x \in Requests : Inserted(x)' /\ op'[x].key = op'[u].key => x = u
  BY DEF KeyIsReserved
<1>2. ASSUME NEW t \in Requests, Arrive(t) \/ Step(t) \/ Abort(t),
             NEW x \in Requests, Inserted(x)'
      PROVE  \/ x # t /\ Inserted(x) /\ op'[x] = op[x]
             \/ x = t /\ op'[x] = op[x] /\ (Inserted(x) \/ ClosingInsert(x)) /\ UNCHANGED records
  <2>1. CASE x # t
    BY <1>2, <2>1, OthersUntouched DEF Untouched, Inserted
  <2>2. CASE x = t
    <3>1. CASE Arrive(t)
      BY <1>2, <2>2, <3>1 DEF Arrive, Start, Finish, ClosingCheckKey, SameClosing, RuleStart, ExecutionStart,
         ListStart, Inserted
    <3>2. CASE ClosingLock(t)
      BY <1>2, <2>2, <3>2 DEF ClosingLock, RowIsFree, Accepted, Finish, Inserted
    <3>3. CASE ClosingInsert(t)
      BY <1>2, <2>2, <3>3 DEF ClosingInsert, KeyIsTaken, tables
    <3>4. CASE \E v \in Vehicles : LoadRules(t, v)
      BY <1>2, <2>2, <3>4 DEF LoadRules, tables, Inserted
    <3>5. CASE \E r \in Rules : ReadCycle(t, r) \/ EvaluateRule(t, r) \/ FlushAlert(t, r)
      BY <1>2, <2>2, <3>5 DEF ReadCycle, EvaluateRule, FlushAlert, tables, Inserted
    <3>6. CASE ChildInsert(t)
      BY <1>2, <2>2, <3>6 DEF ChildInsert, private, Inserted
    <3>7. CASE Commit(t) \/ Abort(t)
      BY <1>2, <2>2, <3>7 DEF Commit, Abort, Finish, Inserted
    <3>8. QED
      BY <1>2, <3>1, <3>2, <3>3, <3>4, <3>5, <3>6, <3>7 DEF Step
  <2>3. QED
    BY <2>1, <2>2
<1>3. ASSUME NEW t \in Requests, Arrive(t) \/ Step(t) \/ Abort(t), t # u
      PROVE  /\ \A rec \in records' : rec.key # op'[u].key
             /\ \A x \in Requests : Inserted(x)' /\ op'[x].key = op'[u].key => x = u
  <2>1. Inserted(u) /\ op'[u] = op[u]
    BY <1>1, <1>2, <1>3
  <2>2. \A rec \in records' : rec.key # op'[u].key
    <3>1. CASE UNCHANGED records
      BY <2>1, <3>1 DEF KeyIsReserved
    <3>2. ASSUME NEW y \in Requests, Commit(y), op[y].type = "closing"
          PROVE  \A rec \in records' : rec.key # op'[u].key
      <4>1. y # u
        BY <1>1, <3>2 DEF Commit, Finish, Inserted
      <4>2. Inserted(y) /\ op[y].key # op[u].key
        BY <2>1, <3>2, <4>1 DEF Commit, Inserted, KeyIsReserved
      <4>3. records' = records \cup {NewRecord(y)} /\ NewRecord(y).key = op[y].key
        BY <3>2 DEF Commit, NewRecord
      <4>4. QED
        BY <2>1, <4>2, <4>3 DEF KeyIsReserved
    <3>3. QED
      BY <3>1, <3>2, OnlyCommitsTouchTheLedger
  <2>3. ASSUME NEW x \in Requests, Inserted(x)', op'[x].key = op'[u].key
        PROVE  x = u
    <3>1. Inserted(x) \/ ClosingInsert(x)
      BY <1>2, <1>3, <2>3
    <3>2. op'[x] = op[x]
      BY <1>2, <1>3, <2>3
    <3>3. QED
      BY <2>1, <2>3, <3>1, <3>2 DEF KeyIsReserved, ClosingInsert, KeyIsTaken
  <2>4. QED
    BY <2>2, <2>3
<1>4. ASSUME Arrive(u) \/ Step(u) \/ Abort(u)
      PROVE  /\ \A rec \in records' : rec.key # op'[u].key
             /\ \A x \in Requests : Inserted(x)' /\ op'[x].key = op'[u].key => x = u
  <2>1. op'[u] = op[u] /\ (Inserted(u) \/ ClosingInsert(u)) /\ UNCHANGED records
    BY <1>1, <1>2, <1>4
  <2>2. ASSUME NEW x \in Requests, x # u, Inserted(x)' PROVE Inserted(x) /\ op'[x] = op[x]
    BY <1>2, <1>4, <2>2
  <2>3. CASE Inserted(u)
    BY <2>1, <2>2, <2>3 DEF KeyIsReserved
  <2>4. CASE ClosingInsert(u)
    <3>1. \A rec \in records : rec.key # op[u].key
      BY <1>1, <2>4 DEF ClosingInsert, KeyIsTaken, Finish, Inserted
    <3>2. \A x \in Requests : Inserted(x) => op[x].key # op[u].key
      BY <2>4 DEF ClosingInsert, KeyIsTaken
    <3>3. QED
      BY <2>1, <2>2, <3>1, <3>2
  <2>5. QED
    BY <2>1, <2>3, <2>4
<1>5. CASE NextDay \/ UNCHANGED vars
  BY <1>1, <1>5 DEF NextDay, vars, tables, private, Inserted, KeyIsReserved
<1>6. QED
  BY <1>3, <1>4, <1>5 DEF Next

(* What the commit of a closing does to the ledger. *)
LEMMA CommitCloses ==
  ASSUME TypeOK, LedgerInv, NEW t \in Requests, Commit(t), op[t].type = "closing"
  PROVE  LET n == NewRecord(t)
         IN  /\ n \in Record /\ n.id = t
             /\ n.start = odometer[n.vehicle] /\ n.start <= n.end
             /\ records' = records \cup {n}
             /\ odometer' = [odometer EXCEPT ![n.vehicle] = n.end]
             /\ \A old \in records : old.key # n.key /\ old.id # n.id
<1> USE DEF TypeOK
<1>1. op[t].vehicle \in Vehicles /\ op[t].key \in Keys /\ op[t].km \in Nat /\ op[t].day \in Nat
  BY InputFields
<1>2. NewRecord(t) \in Record
  BY <1>1 DEF NewRecord, Record
<1>3. seen[t][op[t].vehicle] = odometer[op[t].vehicle] /\ odometer[op[t].vehicle] <= op[t].km
  BY DEF LedgerInv, LockedReadIsCurrent, Commit
<1>4. \A old \in records : old.key # op[t].key /\ old.id # t
  BY DEF LedgerInv, KeyIsReserved, RowsOfFinishedRequests, Inserted, Commit
<1>5. QED
  BY <1>1, <1>2, <1>3, <1>4 DEF NewRecord, Commit

(* The commit of a closing appends exactly the stretch after the odometer. *)
LEMMA KilometresStep ==
  ASSUME TypeOK, LedgerInv, [Next]_vars
  PROVE  EveryKilometreClosedOnce'
<1> USE DEF TypeOK
<1>1. CASE UNCHANGED <<odometer, records>>
  BY <1>1 DEF LedgerInv, EveryKilometreClosedOnce, Covers
<1>2. ASSUME NEW t \in Requests, Commit(t), op[t].type = "closing"
      PROVE  EveryKilometreClosedOnce'
  <2> DEFINE n == NewRecord(t)
  <2>1. /\ n \in Record /\ n.start = odometer[n.vehicle] /\ n.start <= n.end
        /\ records' = records \cup {n} /\ odometer' = [odometer EXCEPT ![n.vehicle] = n.end]
    BY <1>2, CommitCloses
  <2>2. /\ n.vehicle \in Vehicles /\ n.start \in Nat /\ n.end \in Nat
        /\ \A rec \in records : rec.start \in Nat /\ rec.end \in Nat
        /\ \A v \in Vehicles : StartKm[v] \in Nat /\ odometer[v] \in Nat
    BY <2>1, StartAssumption DEF Record
  <2> HIDE DEF n
  <2>3. ASSUME NEW v \in Vehicles
        PROVE  \A rec \in records' : rec.vehicle = v => StartKm[v] <= rec.start /\ rec.end <= odometer'[v]
    BY <2>1, <2>2 DEF LedgerInv, EveryKilometreClosedOnce
  <2>4. ASSUME NEW v \in Vehicles
        PROVE  StartKm[v] <= odometer'[v]
    BY <2>1, <2>2 DEF LedgerInv, EveryKilometreClosedOnce
  <2>5. ASSUME NEW v \in Vehicles, NEW km \in StartKm[v] .. odometer'[v] - 1
        PROVE  \E rec \in records' :
                 Covers(rec, v, km) /\ \A other \in records' : Covers(other, v, km) => other = rec
    <3>1. CASE km < odometer[v]
      <4>1. PICK rec \in records :
              Covers(rec, v, km) /\ \A other \in records : Covers(other, v, km) => other = rec
        <5>1. km \in StartKm[v] .. odometer[v] - 1
          BY <2>1, <2>2, <2>5, <3>1
        <5>2. QED
          BY <5>1 DEF LedgerInv, EveryKilometreClosedOnce
      <4>2. ~Covers(n, v, km)
        BY <2>1, <2>2, <2>5, <3>1 DEF Covers
      <4>3. QED
        BY <2>1, <4>1, <4>2
    <3>2. CASE ~(km < odometer[v])
      <4>1. v = n.vehicle /\ Covers(n, v, km)
        BY <2>1, <2>2, <2>5, <3>2 DEF Covers
      <4>2. \A rec \in records : ~Covers(rec, v, km)
        BY <2>2, <2>5, <3>2 DEF Covers, LedgerInv, EveryKilometreClosedOnce
      <4>3. QED
        BY <2>1, <4>1, <4>2
    <3>3. QED
      BY <3>1, <3>2
  <2>6. QED
    BY <2>3, <2>4, <2>5 DEF EveryKilometreClosedOnce
<1>3. QED
  BY <1>1, <1>2, OnlyCommitsTouchTheLedger

(* The inductive invariant of the ledger holds in every reachable state. *)
THEOREM LedgerCorrect == Spec => []LedgerInv
<1>1. Init => LedgerInv
  <2> SUFFICES ASSUME Init PROVE LedgerInv
    OBVIOUS
  <2>1. LockedReadIsCurrent /\ KeyIsReserved
    BY DEF Init, LockedReadIsCurrent, KeyIsReserved, Inserted
  <2>2. RowsOfFinishedRequests /\ OneRecordPerKey
    BY DEF Init, RowsOfFinishedRequests, OneRecordPerKey
  <2>3. EveryKilometreClosedOnce
    BY StartAssumption DEF Init, EveryKilometreClosedOnce
  <2>4. QED
    BY <2>1, <2>2, <2>3 DEF LedgerInv
<1>2. TypeOK /\ LedgerInv /\ [Next]_vars => LedgerInv'
  <2> SUFFICES ASSUME TypeOK, LedgerInv, [Next]_vars PROVE LedgerInv'
    OBVIOUS
  <2>1. LockedReadIsCurrent' /\ KeyIsReserved'
    BY LockedReadStep, KeyStep DEF LedgerInv
  <2>2. RowsOfFinishedRequests' /\ OneRecordPerKey'
    <3>1. CASE UNCHANGED <<odometer, records>>
      BY <3>1, DoneIsFinal DEF LedgerInv, RowsOfFinishedRequests, OneRecordPerKey, TypeOK, Record
    <3>2. ASSUME NEW t \in Requests, Commit(t), op[t].type = "closing"
          PROVE  RowsOfFinishedRequests' /\ OneRecordPerKey'
      <4>1. /\ records' = records \cup {NewRecord(t)} /\ NewRecord(t).id = t
            /\ \A old \in records : old.key # NewRecord(t).key
        BY <3>2, CommitCloses
      <4>2. pc'[t] = "done"
        BY <3>2 DEF Commit, Finish, TypeOK
      <4>3. \A rec \in records : pc'[rec.id] = "done"
        BY DoneIsFinal DEF LedgerInv, RowsOfFinishedRequests, TypeOK, Record
      <4>4. QED
        BY <4>1, <4>2, <4>3 DEF LedgerInv, RowsOfFinishedRequests, OneRecordPerKey
    <3>3. QED
      BY <3>1, <3>2, OnlyCommitsTouchTheLedger
  <2>3. EveryKilometreClosedOnce'
    BY KilometresStep
  <2>4. QED
    BY <2>1, <2>2, <2>3 DEF LedgerInv
<1>3. QED
  BY <1>1, <1>2, TypeCorrect, PTL DEF Spec

(* Every kilometre a vehicle has driven belongs to exactly one closing,       *)
(* however many requests run at once, abort or repeat each other.             *)
THEOREM KilometresClosedOnce == Spec => []EveryKilometreClosedOnce
<1>1. LedgerInv => EveryKilometreClosedOnce
  BY DEF LedgerInv
<1>2. QED
  BY <1>1, LedgerCorrect, PTL

(* No two committed closings of the organisation share an idempotency key.    *)
THEOREM KeysAreUnique == Spec => []OneRecordPerKey
<1>1. LedgerInv => OneRecordPerKey
  BY DEF LedgerInv
<1>2. QED
  BY <1>1, LedgerCorrect, PTL

(* A closing that passed its lock commits the odometer it read.               *)
THEOREM LockedReadsAreCurrent == Spec => []LockedReadIsCurrent
<1>1. LedgerInv => LockedReadIsCurrent
  BY DEF LedgerInv
<1>2. QED
  BY <1>1, LedgerCorrect, PTL

(* Odometers never go back and committed closings stay.                       *)
THEOREM LedgerMonotonic == Spec => LedgerOnlyGrows
<1> DEFINE Grows == /\ records \subseteq records'
                    /\ \A v \in Vehicles : odometer[v] <= odometer'[v]
<1>1. TypeOK /\ LedgerInv /\ [Next]_vars => [Grows]_vars
  <2> SUFFICES ASSUME TypeOK, LedgerInv, [Next]_vars PROVE Grows
    OBVIOUS
  <2>1. CASE UNCHANGED <<odometer, records>>
    BY <2>1 DEF TypeOK
  <2>2. ASSUME NEW t \in Requests, Commit(t), op[t].type = "closing" PROVE Grows
    <3> DEFINE n == NewRecord(t)
    <3>1. /\ n \in Record /\ n.start = odometer[n.vehicle] /\ n.start <= n.end
          /\ records' = records \cup {n} /\ odometer' = [odometer EXCEPT ![n.vehicle] = n.end]
      BY <2>2, CommitCloses
    <3> HIDE DEF n
    <3>2. QED
      BY <3>1 DEF TypeOK, Record
  <2>3. QED
    BY <2>1, <2>2, OnlyCommitsTouchTheLedger
<1>2. QED
  BY <1>1, TypeCorrect, LedgerCorrect, PTL DEF Spec, LedgerOnlyGrows

(* The concurrent handlers implement the indivisible ledger: each step is one *)
(* Close of the abstract specification or leaves the ledger alone.            *)
THEOREM Refinement == Spec => ImplementsLedger
<1>1. Init => Abstract!Init
  BY DEF Init, Abstract!Init
<1>2. TypeOK /\ LedgerInv /\ [Next]_vars => [Abstract!Next]_<<odometer, records>>
  <2> SUFFICES ASSUME TypeOK, LedgerInv, [Next]_vars
               PROVE  [Abstract!Next]_<<odometer, records>>
    OBVIOUS
  <2>1. CASE UNCHANGED <<odometer, records>>
    BY <2>1
  <2>2. ASSUME NEW t \in Requests, Commit(t), op[t].type = "closing"
        PROVE  Abstract!Next
    <3> DEFINE n == NewRecord(t)
    <3>1. /\ n \in Record /\ n.start = odometer[n.vehicle] /\ n.start <= n.end
          /\ records' = records \cup {n}
          /\ odometer' = [odometer EXCEPT ![n.vehicle] = n.end]
          /\ \A old \in records : old.key # n.key /\ old.id # n.id
      BY <2>2, CommitCloses
    <3> HIDE DEF n
    <3>2. n \in records' /\ n \in Abstract!LedgerRecord
      BY <3>1 DEF Record, Abstract!LedgerRecord
    <3>3. n.end >= n.start
      BY <3>1 DEF Record
    <3>4. Abstract!Close(n)
      BY <3>1, <3>3 DEF Abstract!Close
    <3>5. QED
      BY <3>2, <3>4 DEF Abstract!Next
  <2>3. QED
    BY <2>1, <2>2, OnlyCommitsTouchTheLedger
<1>3. QED
  BY <1>1, <1>2, TypeCorrect, LedgerCorrect, PTL
     DEF Spec, ImplementsLedger, Abstract!Spec, Abstract!ledger
-----------------------------------------------------------------------------
(* Alerts: what one step does to the copies a request works with. *)

Keeps(t) == op'[t] = op[t] /\ seen'[t] = seen[t] /\ evalDay'[t] = evalDay[t]

Idles(t) == Keeps(t) /\ pc'[t] = pc[t] /\ fleet'[t] = fleet[t] /\ todo'[t] = todo[t] /\ plan'[t] = plan[t]

Opens(t) ==
  /\ pc[t] = "idle" /\ pc'[t] # "idle" /\ todo'[t] = todo[t] /\ plan'[t] = plan[t]
  /\ pc'[t] = "evaluate" => op'[t].type # "closing"

Enters(t) ==
  /\ pc[t] = "lock" /\ pc'[t] \in {"insert", "done"}
  /\ op'[t] = op[t] /\ todo'[t] = todo[t] /\ plan'[t] = plan[t]

Inserts(t) ==
  /\ pc[t] = "insert" /\ pc'[t] = "evaluate"
  /\ op'[t] = op[t] /\ todo'[t] = todo[t] /\ plan'[t] = plan[t]
  /\ op[t].type = "closing" => fleet'[t] = {op[t].vehicle}

Loads(t) ==
  /\ Keeps(t) /\ pc[t] = "evaluate" /\ pc'[t] = "evaluate" /\ plan'[t] = plan[t] /\ todo[t] = {}
  /\ \E v \in fleet[t] :
       /\ fleet'[t] = fleet[t] \ {v}
       /\ todo'[t] = {r \in Rules : RuleSpec[r].vehicle = v /\ VisibleRule(t, r).created}

(* The open alerts db.scalar may return. *)
Choices(r) == IF OpenAlerts(r) = {} THEN {NoRequest} ELSE OpenAlerts(r)

(* What a turn decides of rule r, from the severity it has worked out. *)
Decided(t, r, u) == Decision(t, r, u, cycle[t][r])

Evaluates(t) ==
  /\ Keeps(t) /\ pc[t] = "evaluate" /\ pc'[t] = "evaluate" /\ fleet'[t] = fleet[t] /\ Flushing(t) = {}
  /\ \E r \in todo[t] : \E u \in Choices(r) :
       /\ cycle[t][r] \in Severities
       /\ plan'[t] = [plan[t] EXCEPT ![r] = Decided(t, r, u)]
       /\ todo'[t] = IF Decided(t, r, u).type = "created" THEN todo[t] ELSE todo[t] \ {r}

Flushes(t) ==
  /\ Keeps(t) /\ pc[t] = "evaluate" /\ pc'[t] = "evaluate" /\ fleet'[t] = fleet[t] /\ plan'[t] = plan[t]
  /\ \E r \in todo[t] : /\ plan[t][r].type = "created" /\ todo'[t] = todo[t] \ {r}
                        /\ t \in sharing'[RuleSpec[r].vehicle]

Closes(t) ==
  /\ pc[t] # "idle" /\ pc'[t] = "done" /\ op'[t] = op[t]
  /\ todo'[t] = {} /\ plan'[t] = [r \in Rules |-> NoEvent]

(* A step of one request leaves the copies of the others alone. *)
LEMMA OthersIdle ==
  ASSUME TypeOK, NEW t \in Requests, Arrive(t) \/ Step(t) \/ Abort(t),
         NEW u \in Requests, u # t
  PROVE  Idles(u) /\ (\A v \in Vehicles : u \in sharing[v] => u \in sharing'[v])
<1> USE DEF TypeOK, Idles, Keeps
<1> DEFINE Result == Idles(u) /\ (\A v \in Vehicles : u \in sharing[v] => u \in sharing'[v])
<1>1. ASSUME NEW o \in Inputs, ClosingCheckKey(t, o) PROVE Result
  BY <1>1 DEF ClosingCheckKey, Start, Finish, locks
<1>2. CASE ClosingLock(t)
  BY <1>2 DEF ClosingLock, RowIsFree, Accepted, Finish
<1>3. CASE ClosingInsert(t)
  <2>1. CASE CloseSession(t)
    BY <1>3, <2>1 DEF ClosingInsert, KeyIsTaken, Finish, CloseSession, ReleaseLocks
  <2>2. CASE /\ pc' = [pc EXCEPT ![t] = "evaluate"]
             /\ evalDay' = [evalDay EXCEPT ![t] = op[t].day]
             /\ fleet' = [fleet EXCEPT ![t] = {op[t].vehicle}]
             /\ UNCHANGED <<locks, reply, seen, todo, cycle, plan>>
    BY <1>3, <2>2 DEF ClosingInsert, KeyIsTaken, locks
  <2>3. QED
    BY <1>3, <2>1, <2>2 DEF ClosingInsert, KeyIsTaken
<1>4. ASSUME NEW o \in Inputs, RuleStart(t, o) PROVE Result
  BY <1>4 DEF RuleStart, Start, locks
<1>5. ASSUME NEW o \in Inputs, ExecutionStart(t, o) PROVE Result
  BY <1>5 DEF ExecutionStart, Start, Finish, locks
<1>6. ASSUME NEW o \in Inputs, ListStart(t, o) PROVE Result
  BY <1>6 DEF ListStart, Start, locks
<1>7. CASE \E v \in Vehicles : LoadRules(t, v)
  BY <1>7 DEF LoadRules, locks
<1>8. CASE \E r \in Rules : ReadCycle(t, r) \/ EvaluateRule(t, r)
  BY <1>8 DEF ReadCycle, EvaluateRule, locks
<1>9. CASE \E r \in Rules : FlushAlert(t, r)
  BY <1>9 DEF FlushAlert, ShareRow
<1>10. CASE ChildInsert(t)
  BY <1>10 DEF ChildInsert, private, ShareRow
<1>11. CASE Commit(t)
  BY <1>11 DEF Commit, Finish, CloseSession, ReleaseLocks
<1>12. CASE Abort(t)
  BY <1>12 DEF Abort, Finish, CloseSession, ReleaseLocks
<1>13. QED
  BY <1>1, <1>2, <1>3, <1>4, <1>5, <1>6, <1>7, <1>8, <1>9, <1>10, <1>11, <1>12
     DEF Arrive, Step

(* What a step of a request does to its own copies. *)
LEMMA OwnMoves ==
  ASSUME TypeOK, NEW t \in Requests, Arrive(t) \/ Step(t) \/ Abort(t)
  PROVE  \/ Idles(t) \/ Opens(t) \/ Enters(t) \/ Inserts(t) \/ Loads(t) \/ Evaluates(t) \/ Flushes(t)
         \/ Closes(t)
<1> USE DEF TypeOK
<1>1. ASSUME NEW o \in Inputs,
             ClosingCheckKey(t, o) \/ RuleStart(t, o) \/ ExecutionStart(t, o) \/ ListStart(t, o)
      PROVE  Opens(t)
  BY <1>1 DEF ClosingCheckKey, RuleStart, ExecutionStart, ListStart, Start, Finish, Opens
<1>2. CASE ClosingLock(t)
  BY <1>2 DEF ClosingLock, RowIsFree, Accepted, Finish, Enters
<1>3. CASE ClosingInsert(t)
  <2>1. CASE Finish(t, "error", NoRequest) /\ CloseSession(t)
    BY <1>3, <2>1 DEF ClosingInsert, Finish, CloseSession, Closes
  <2>2. CASE /\ pc' = [pc EXCEPT ![t] = "evaluate"]
             /\ fleet' = [fleet EXCEPT ![t] = {op[t].vehicle}]
             /\ UNCHANGED <<locks, reply, seen, todo, cycle, plan>>
    BY <1>3, <2>2 DEF ClosingInsert, Inserts
  <2>3. QED
    BY <1>3, <2>1, <2>2 DEF ClosingInsert, KeyIsTaken
<1>4. ASSUME NEW v \in Vehicles, LoadRules(t, v)
      PROVE  Loads(t)
  BY <1>4 DEF LoadRules, Loads, Keeps
<1>5. ASSUME NEW r \in Rules, EvaluateRule(t, r)
      PROVE  Evaluates(t)
  <2>1. PICK u \in Choices(r) :
          /\ plan' = [plan EXCEPT ![t][r] = Decided(t, r, u)]
          /\ todo' = IF Decided(t, r, u).type = "created" THEN todo ELSE [todo EXCEPT ![t] = @ \ {r}]
    BY <1>5 DEF EvaluateRule, Choices, Decided
  <2>2. /\ plan'[t] = [plan[t] EXCEPT ![r] = Decided(t, r, u)]
        /\ todo'[t] = IF Decided(t, r, u).type = "created" THEN todo[t] ELSE todo[t] \ {r}
    BY <2>1
  <2>3. /\ r \in todo[t] /\ Flushing(t) = {} /\ pc[t] = "evaluate" /\ pc' = pc /\ fleet' = fleet /\ Keeps(t)
        /\ cycle[t][r] \in Severities
    BY <1>5 DEF EvaluateRule, Keeps
  <2>4. QED
    BY <2>2, <2>3 DEF Evaluates
<1>6. ASSUME NEW r \in Rules, FlushAlert(t, r)
      PROVE  Flushes(t)
  <2>1. RuleSpec[r].vehicle \in Vehicles
    BY RulesAssumption DEF RuleSpecs
  <2>2. r \in todo[t] /\ plan[t][r].type = "created" /\ t \in sharing'[RuleSpec[r].vehicle]
    BY <1>6, <2>1 DEF FlushAlert, Flushing, ShareRow
  <2>3. todo'[t] = todo[t] \ {r} /\ pc[t] = "evaluate" /\ pc' = pc /\ fleet' = fleet /\ plan' = plan /\ Keeps(t)
    BY <1>6 DEF FlushAlert, Keeps
  <2>4. QED
    BY <2>2, <2>3 DEF Flushes
<1>7. CASE ChildInsert(t)
  BY <1>7 DEF ChildInsert, private, Inserts
<1>8. CASE Commit(t) \/ Abort(t)
  BY <1>8 DEF Commit, Abort, Finish, CloseSession, Closes
<1>9. ASSUME NEW r \in Rules, ReadCycle(t, r)
      PROVE  Idles(t)
  BY <1>9 DEF ReadCycle, Idles, Keeps
<1>10. QED
  BY <1>1, <1>2, <1>3, <1>4, <1>5, <1>6, <1>7, <1>8, <1>9 DEF Arrive, Step

(* Every step, seen from one request. *)
LEMMA RequestMoves ==
  ASSUME TypeOK, [Next]_vars, NEW t \in Requests
  PROVE  \/ Idles(t) \/ Opens(t) \/ Enters(t) \/ Inserts(t) \/ Loads(t) \/ Evaluates(t) \/ Flushes(t)
         \/ Closes(t)
<1>1. ASSUME NEW u \in Requests, Arrive(u) \/ Step(u) \/ Abort(u), u # t
      PROVE  Idles(t)
  BY <1>1, OthersIdle
<1>2. CASE NextDay \/ UNCHANGED vars
  BY <1>2 DEF NextDay, vars, private, Idles, Keeps
<1>3. QED
  BY <1>1, <1>2, OwnMoves DEF Next

(* Only commits write the tables. *)
LEMMA OnlyCommitsWrite ==
  ASSUME TypeOK, [Next]_vars
  PROVE  UNCHANGED tables \/ \E t \in Requests : Commit(t)
BY DEF Next, Arrive, Step, Abort, NextDay, ClosingCheckKey, ClosingLock, ClosingInsert,
   RuleStart, ExecutionStart, ListStart, LoadRules, ReadCycle, EvaluateRule, FlushAlert, ChildInsert, vars

-----------------------------------------------------------------------------
(* Alerts and the events about them. *)

(* An alert is a row of a transaction that has committed. *)
AlertRowsAreOfFinished ==
  \A r \in Rules, u \in Requests : alerts[r][u].status # "absent" => pc[u] = "done"

SilentUntilDone == \A t \in Requests, r \in Rules : pc[t] # "done" => events[t][r] = NoEvent

(* A transaction that is evaluating plans to create its own alerts, and to     *)
(* change only alerts that exist.                                              *)
PlansFit ==
  \A t \in Requests :
    /\ pc[t] # "evaluate" => todo[t] = {} /\ \A r \in Rules : plan[t][r] = NoEvent
    /\ \A r \in Rules :
         /\ plan[t][r].type = "created" => plan[t][r].alert = t
         /\ plan[t][r].type \in {"updated", "resolved"} => alerts[r][plan[t][r].alert].status # "absent"

AlertsInv == AlertRowsAreOfFinished /\ SilentUntilDone /\ PlansFit /\ AlertsAnnounced

(* The fields of an event. *)
LEMMA EventFields ==
  ASSUME NEW w \in Event
  PROVE  \/ w = NoEvent /\ w.type = "none" /\ w.alert = NoRequest
         \/ w.type \in {"created", "updated", "resolved"} /\ w.alert \in Requests
BY DEF Event, NoEvent

(* What the commit of a transaction does to an alert. *)
LEMMA AlertMoves ==
  ASSUME TypeOK, AlertsInv, NEW t \in Requests, Commit(t), NEW r \in Rules, NEW u \in Requests
  PROVE  \/ alerts'[r][u] = alerts[r][u] /\ plan[t][r].alert # u
         \/ /\ plan[t][r].type = "created" /\ u = t /\ plan[t][r].alert = u /\ alerts[r][u].status = "absent"
            /\ alerts'[r][u].status = "open" /\ alerts'[r][u].severity = plan[t][r].severity
         \/ /\ plan[t][r].type = "updated" /\ plan[t][r].alert = u /\ u # t /\ alerts[r][u].status # "absent"
            /\ alerts'[r][u].status = alerts[r][u].status /\ alerts'[r][u].severity = plan[t][r].severity
         \/ /\ plan[t][r].type = "resolved" /\ plan[t][r].alert = u /\ u # t /\ alerts[r][u].status # "absent"
            /\ alerts'[r][u].status = "resolved" /\ alerts'[r][u].severity = alerts[r][u].severity
<1> DEFINE w == plan[t][r]
           a == alerts[r][u]
<1>1. alerts'[r][u] = AlertAfter(w, u, a)
  BY DEF Commit
<1>2. w \in Event /\ a \in Alert
  BY DEF TypeOK
<1>3. /\ w.type = "created" => w.alert = t
      /\ w.type \in {"updated", "resolved"} /\ w.alert = u => a.status # "absent"
      /\ alerts[r][t].status = "absent"
  BY DEF AlertsInv, PlansFit, AlertRowsAreOfFinished, Commit
<1>4. u = t => a.status = "absent"
  BY <1>3
<1>5. u # NoRequest
  BY RequestsAssumption
<1> HIDE DEF w, a
<1>6. CASE w.type = "none" \/ w.alert # u
  BY <1>1, <1>2, <1>5, <1>6, EventFields DEF AlertAfter, w, a
<1>7. CASE w.type = "created" /\ w.alert = u
  BY <1>1, <1>3, <1>4, <1>7 DEF AlertAfter, w, a
<1>8. CASE w.type = "updated" /\ w.alert = u
  <2>1. alerts'[r][u] = [a EXCEPT !.severity = w.severity]
    BY <1>1, <1>8 DEF AlertAfter
  <2>2. QED
    BY <1>2, <1>3, <1>4, <1>8, <2>1 DEF Alert, w, a
<1>9. CASE w.type = "resolved" /\ w.alert = u
  <2>1. alerts'[r][u] = [a EXCEPT !.status = "resolved"]
    BY <1>1, <1>9 DEF AlertAfter
  <2>2. QED
    BY <1>2, <1>3, <1>4, <1>9, <2>1 DEF Alert, w, a
<1>10. QED
  BY <1>2, <1>6, <1>7, <1>8, <1>9, EventFields

(* An alert is committed by an operation that has ended ... *)
LEMMA StepsKeepAlertRows ==
  ASSUME TypeOK, AlertsInv, [Next]_vars
  PROVE  AlertRowsAreOfFinished'
<1> SUFFICES ASSUME NEW r \in Rules, NEW u \in Requests, alerts'[r][u].status # "absent"
             PROVE  pc'[u] = "done"
  BY DEF AlertRowsAreOfFinished
<1>1. CASE alerts[r][u].status # "absent"
  BY <1>1, DoneIsFinal DEF AlertsInv, AlertRowsAreOfFinished
<1>2. ASSUME NEW t \in Requests, Commit(t), alerts[r][u].status = "absent"
      PROVE  pc'[u] = "done"
  <2>1. u = t
    BY <1>2, AlertMoves
  <2>2. QED
    BY <1>2, <2>1 DEF Commit, Finish, TypeOK
<1>3. QED
  BY <1>1, <1>2, OnlyCommitsWrite DEF tables

(* A transaction that commits was silent before, and its plan is then what it  *)
(* has announced. *)
LEMMA CommitAnnounces ==
  ASSUME TypeOK, AlertsInv, NEW t \in Requests, Commit(t), NEW r \in Rules
  PROVE  /\ events[t][r] = NoEvent /\ events'[t][r] = plan[t][r] /\ plan[t][r] \in Event
         /\ \A u \in Requests : u # t => events'[u][r] = events[u][r]
<1>1. pc[t] # "done"
  BY DEF Commit
<1>2. QED
  BY <1>1 DEF AlertsInv, SilentUntilDone, Commit, TypeOK

(* ... and an operation announces nothing before it commits. *)
LEMMA StepsKeepSilence ==
  ASSUME TypeOK, AlertsInv, [Next]_vars
  PROVE  SilentUntilDone'
<1> SUFFICES ASSUME NEW u \in Requests, NEW r \in Rules, pc'[u] # "done"
             PROVE  events'[u][r] = NoEvent
  BY DEF SilentUntilDone
<1>1. events[u][r] = NoEvent
  BY DoneIsFinal DEF AlertsInv, SilentUntilDone
<1>2. ASSUME NEW t \in Requests, Commit(t)
      PROVE  events'[u][r] = NoEvent
  <2>1. u # t
    BY <1>2 DEF Commit, Finish, TypeOK
  <2>2. QED
    BY <1>1, <1>2, <2>1, CommitAnnounces
<1>3. QED
  BY <1>1, <1>2, OnlyCommitsWrite DEF tables

(* Alerts never disappear. *)
LEMMA AlertsStay ==
  ASSUME TypeOK, AlertsInv, [Next]_vars, NEW r \in Rules, NEW u \in Requests, alerts[r][u].status # "absent"
  PROVE  alerts'[r][u].status # "absent"
<1>1. ASSUME NEW t \in Requests, Commit(t)
      PROVE  alerts'[r][u].status # "absent"
  BY <1>1, AlertMoves
<1>2. QED
  BY <1>1, OnlyCommitsWrite DEF tables

(* What one turn of the loop may decide. *)
LEMMA DecisionFits ==
  ASSUME TypeOK, NEW t \in Requests, NEW r \in Rules, NEW u \in Choices(r), cycle[t][r] \in Severities
  PROVE  /\ Decided(t, r, u) \in Event
         /\ Decided(t, r, u).type = "created" => Decided(t, r, u).alert = t /\ OpenAlerts(r) = {}
         /\ Decided(t, r, u).type \in {"updated", "resolved"} =>
              Decided(t, r, u).alert = u /\ u \in OpenAlerts(r)
<1>1. u \in Requests \cup {NoRequest} /\ (u = NoRequest <=> OpenAlerts(r) = {})
  BY RequestsAssumption DEF Choices, OpenAlerts
<1>2. Decided(t, r, u) \in Event
  BY <1>1, DecisionType DEF Decided
<1>3. QED
  BY <1>1, <1>2 DEF Decided, Decision, NoEvent, Choices

(* A transaction creates its own alerts, and changes only alerts that      *)
(* exist.                                                                  *)
LEMMA StepsKeepPlansFit ==
  ASSUME TypeOK, AlertsInv, [Next]_vars
  PROVE  PlansFit'
<1> SUFFICES ASSUME NEW t \in Requests
             PROVE  /\ pc'[t] # "evaluate" => todo'[t] = {} /\ \A r \in Rules : plan'[t][r] = NoEvent
                    /\ \A r \in Rules :
                         /\ plan'[t][r].type = "created" => plan'[t][r].alert = t
                         /\ plan'[t][r].type \in {"updated", "resolved"} =>
                              alerts'[r][plan'[t][r].alert].status # "absent"
  BY DEF PlansFit
<1>0. /\ pc[t] # "evaluate" => todo[t] = {} /\ \A r \in Rules : plan[t][r] = NoEvent
      /\ plan[t] \in [Rules -> Event]
  BY DEF AlertsInv, PlansFit, TypeOK
<1>1. ASSUME NEW r \in Rules
      PROVE  /\ plan[t][r].type = "created" => plan[t][r].alert = t
             /\ plan[t][r].type \in {"updated", "resolved"} => alerts'[r][plan[t][r].alert].status # "absent"
  <2>1. plan[t][r] \in Event
    BY <1>0
  <2>2. plan[t][r].type \in {"updated", "resolved"} =>
          plan[t][r].alert \in Requests /\ alerts[r][plan[t][r].alert].status # "absent"
    BY <2>1, EventFields DEF AlertsInv, PlansFit
  <2>3. QED
    BY <2>2, AlertsStay DEF AlertsInv, PlansFit
<1>2. CASE plan'[t] = plan[t]
  <2>1. pc'[t] # "evaluate" => todo'[t] = {} /\ \A r \in Rules : plan'[t][r] = NoEvent
    BY <1>0, <1>2, RequestMoves DEF Idles, Opens, Enters, Inserts, Loads, Evaluates, Flushes, Closes
  <2>2. QED
    BY <1>1, <1>2, <2>1
<1>3. CASE Closes(t)
  BY <1>3 DEF Closes, NoEvent
<1>4. CASE Evaluates(t)
  <2>1. PICK r \in todo[t] : /\ cycle[t][r] \in Severities
                             /\ \E u \in Choices(r) : plan'[t] = [plan[t] EXCEPT ![r] = Decided(t, r, u)]
    BY <1>4 DEF Evaluates
  <2>2. PICK u \in Choices(r) : plan'[t] = [plan[t] EXCEPT ![r] = Decided(t, r, u)]
    BY <2>1
  <2>3. r \in Rules
    BY DEF TypeOK
  <2> DEFINE w == Decided(t, r, u)
  <2>4. /\ w.type = "created" => w.alert = t
        /\ w.type \in {"updated", "resolved"} => alerts'[r][w.alert].status # "absent"
    <3>1. /\ w.type = "created" => w.alert = t
          /\ w.type \in {"updated", "resolved"} => w.alert \in OpenAlerts(r)
      BY <2>1, <2>3, DecisionFits
    <3>2. \A x \in OpenAlerts(r) : x \in Requests /\ alerts[r][x].status # "absent"
      BY DEF OpenAlerts
    <3>3. QED
      BY <2>3, <3>1, <3>2, AlertsStay
  <2>5. \A s \in Rules : plan'[t][s] = IF s = r THEN w ELSE plan[t][s]
    BY <1>0, <2>2
  <2> HIDE DEF w
  <2>6. pc'[t] = "evaluate"
    BY <1>4 DEF Evaluates
  <2>7. QED
    BY <1>1, <2>4, <2>5, <2>6
<1>5. QED
  BY <1>2, <1>3, <1>4, RequestMoves DEF Idles, Opens, Enters, Inserts, Loads, Flushes

(* The commit of one transaction announces what it does to each alert. *)
LEMMA CommitsKeepAlertsAnnounced ==
  ASSUME TypeOK, AlertsInv, NEW t \in Requests, Commit(t), NEW r \in Rules, NEW u \in Requests
  PROVE  /\ alerts'[r][u].status # "absent" <=> events'[u][r].type = "created"
         /\ alerts'[r][u].status = "resolved" <=>
              \E x \in Requests : events'[x][r].alert = u /\ events'[x][r].type = "resolved"
         /\ alerts'[r][u].status # "absent" =>
              \E x \in Requests : /\ events'[x][r].alert = u /\ events'[x][r].type # "resolved"
                                  /\ events'[x][r].severity = alerts'[r][u].severity
<1>1. /\ alerts[r][u].status # "absent" <=> events[u][r].type = "created"
      /\ alerts[r][u].status = "resolved" <=>
           \E x \in Requests : events[x][r].alert = u /\ events[x][r].type = "resolved"
      /\ alerts[r][u].status # "absent" =>
           \E x \in Requests : /\ events[x][r].alert = u /\ events[x][r].type # "resolved"
                               /\ events[x][r].severity = alerts[r][u].severity
  BY DEF AlertsInv, AlertsAnnounced
<1>2. /\ events[t][r] = NoEvent /\ events'[t][r] = plan[t][r]
      /\ \A x \in Requests : x # t => events'[x][r] = events[x][r]
  BY CommitAnnounces
<1>3. NoEvent.type = "none" /\ NoEvent.alert # u
  BY RequestsAssumption DEF NoEvent
<1> HIDE DEF NoEvent
<1>4. CASE alerts'[r][u] = alerts[r][u] /\ plan[t][r].alert # u
  <2>1. \A x \in Requests : events'[x][r].alert = u <=> events[x][r].alert = u
    BY <1>2, <1>3, <1>4
  <2>2. \A x \in Requests : events'[x][r].alert = u => events'[x][r] = events[x][r]
    BY <1>2, <1>3, <1>4
  <2>3. events'[u][r].type = "created" <=> events[u][r].type = "created"
    <3>1. CASE u = t
      <4>1. plan[t][r].type # "created"
        BY <1>4, <3>1 DEF AlertsInv, PlansFit
      <4>2. QED
        BY <1>2, <1>3, <3>1, <4>1
    <3>2. CASE u # t
      BY <1>2, <3>2
    <3>3. QED
      BY <3>1, <3>2
  <2>4. QED
    BY <1>1, <1>4, <2>1, <2>2, <2>3
<1>5. CASE /\ plan[t][r].type = "created" /\ u = t /\ plan[t][r].alert = u /\ alerts[r][u].status = "absent"
           /\ alerts'[r][u].status = "open" /\ alerts'[r][u].severity = plan[t][r].severity
  BY <1>1, <1>2, <1>3, <1>5
<1>6. CASE /\ plan[t][r].type = "updated" /\ plan[t][r].alert = u /\ u # t /\ alerts[r][u].status # "absent"
           /\ alerts'[r][u].status = alerts[r][u].status /\ alerts'[r][u].severity = plan[t][r].severity
  BY <1>1, <1>2, <1>3, <1>6
<1>7. CASE /\ plan[t][r].type = "resolved" /\ plan[t][r].alert = u /\ u # t /\ alerts[r][u].status # "absent"
           /\ alerts'[r][u].status = "resolved" /\ alerts'[r][u].severity = alerts[r][u].severity
  BY <1>1, <1>2, <1>3, <1>7
<1>8. QED
  BY <1>4, <1>5, <1>6, <1>7, AlertMoves

(* So every alert that is committed has its event. *)
LEMMA StepsKeepAlertsAnnounced ==
  ASSUME TypeOK, AlertsInv, [Next]_vars
  PROVE  AlertsAnnounced'
<1>1. CASE UNCHANGED tables
  BY <1>1 DEF tables, AlertsInv, AlertsAnnounced
<1>2. ASSUME NEW t \in Requests, Commit(t)
      PROVE  AlertsAnnounced'
  BY <1>2, CommitsKeepAlertsAnnounced DEF AlertsAnnounced
<1>3. QED
  BY <1>1, <1>2, OnlyCommitsWrite

(* Every reachable state satisfies the inductive invariant of the alerts: what *)
(* a transaction plans fits the committed rows, and what is committed has been *)
(* announced.                                                                  *)
THEOREM AlertsHold == Spec => []AlertsInv
<1>1. Init => AlertsInv
  <2> SUFFICES ASSUME Init PROVE AlertsInv
    OBVIOUS
  <2>1. \A r \in Rules, u \in Requests : alerts[r][u] = NoAlert /\ events[u][r] = NoEvent /\ plan[u][r] = NoEvent
    BY DEF Init
  <2>2. \A u \in Requests : todo[u] = {} /\ u # NoRequest
    BY RequestsAssumption DEF Init
  <2>3. AlertRowsAreOfFinished /\ SilentUntilDone /\ PlansFit
    BY <2>1, <2>2 DEF NoAlert, NoEvent, AlertRowsAreOfFinished, SilentUntilDone, PlansFit
  <2>4. AlertsAnnounced
    BY <2>1, <2>2 DEF NoAlert, NoEvent, AlertsAnnounced
  <2>5. QED
    BY <2>3, <2>4 DEF AlertsInv
<1>2. TypeOK /\ AlertsInv /\ [Next]_vars => AlertsInv'
  BY StepsKeepAlertRows, StepsKeepSilence, StepsKeepPlansFit, StepsKeepAlertsAnnounced DEF AlertsInv
<1>3. QED
  BY <1>1, <1>2, TypeCorrect, PTL DEF Spec

(* What the outbox was told is what the alerts say, however evaluations that   *)
(* work on stale copies of an alert interleave.                                *)
THEOREM AlertsAlwaysAnnounced == Spec => []AlertsAnnounced
<1>1. AlertsInv => AlertsAnnounced
  BY DEF AlertsInv
<1>2. QED
  BY <1>1, AlertsHold, PTL

(* A resolved alert is never opened again, although an evaluation may still    *)
(* hold a copy of it that is open.                                             *)
THEOREM ResolvedAlertsStayResolved == Spec => ResolvedStaysResolved
<1>1. TypeOK /\ AlertsInv /\ [Next]_vars =>
      \A r \in Rules, u \in Requests :
        alerts[r][u].status = "resolved" => alerts'[r][u].status = "resolved"
  <2> SUFFICES ASSUME TypeOK, AlertsInv, [Next]_vars, NEW r \in Rules, NEW u \in Requests,
                      alerts[r][u].status = "resolved"
               PROVE  alerts'[r][u].status = "resolved"
    OBVIOUS
  <2>1. ASSUME NEW t \in Requests, Commit(t)
        PROVE  alerts'[r][u].status = "resolved"
    BY <2>1, AlertMoves
  <2>2. QED
    BY <2>1, OnlyCommitsWrite DEF tables
<1>2. QED
  BY <1>1, TypeCorrect, AlertsHold, PTL DEF Spec, ResolvedStaysResolved

-----------------------------------------------------------------------------
(* Closings and the alerts of their vehicle. *)

(* A new alert that has been flushed holds its vehicle's row. *)
NewAlertsShare ==
  \A t \in Requests, r \in Rules :
    plan[t][r].type = "created" /\ r \notin todo[t] => t \in sharing[RuleSpec[r].vehicle]

LocksExclude == \A v \in Vehicles : locked[v] # NoRequest => sharing[v] \subseteq {locked[v]}

(* A closing evaluates the rules of its own vehicle, and only once. *)
ClosingsMindTheirVehicle ==
  \A t \in Requests : op[t].type = "closing" /\ pc[t] = "evaluate" =>
    /\ fleet[t] \subseteq {op[t].vehicle}
    /\ \A r \in Rules : r \in todo[t] \/ plan[t][r] # NoEvent => fleet[t] = {} /\ RuleSpec[r].vehicle = op[t].vehicle

(* Nobody opens an alert while a closing is about to. *)
NewAlertIsAlone ==
  \A t \in Requests, r \in Rules :
    op[t].type = "closing" /\ plan[t][r].type = "created" => OpenAlerts(r) = {}

OnlyClosings == \A t \in Requests : pc[t] # "idle" => op[t].type = "closing"

(* A severity worked out is used in the same evaluation, and among closings it *)
(* is the one that would be worked out now.                                    *)
CyclesStand ==
  \A t \in Requests, r \in Rules : cycle[t][r] # "unread" =>
    pc[t] = "evaluate" /\ (OnlyClosings => cycle[t][r] = SeverityFor(t, r))

(* What an evaluation calls for if it is made now. *)
Verdict(t, r, u) == Decision(t, r, u, SeverityFor(t, r))

(* Among closings, what one has decided is what it would decide now. *)
DecisionsStand ==
  OnlyClosings =>
    /\ executions = {}
    /\ \A t \in Requests, r \in Rules :
         /\ pc[t] = "evaluate" /\ fleet[t] = {} /\ RuleSpec[r].vehicle = op[t].vehicle /\ rules[r].created
         /\ r \notin todo[t] \/ plan[t][r].type = "created"
         => \E u \in Choices(r) : plan[t][r] = Verdict(t, r, u)

ClosingsInv ==
  /\ NewAlertsShare /\ LocksExclude /\ ClosingsMindTheirVehicle /\ NewAlertIsAlone
  /\ CyclesStand /\ DecisionsStand /\ ClosingsKeepAlertsExact

FleetInv == TypeOK /\ LedgerInv /\ AlertsInv /\ ClosingsInv

(* How locks are taken and given up. *)
LEMMA LocksMove ==
  ASSUME TypeOK, [Next]_vars
  PROVE  \/ UNCHANGED locks
         \/ \E t \in Requests, v \in Vehicles :
              sharing[v] = {} /\ locked' = [locked EXCEPT ![v] = t] /\ UNCHANGED sharing
         \/ \E t \in Requests, v \in Vehicles : ShareRow(t, v) /\ UNCHANGED locked
         \/ \E t \in Requests : ReleaseLocks(t) /\ Closes(t)
<1>1. ASSUME NEW t \in Requests, ClosingLock(t)
      PROVE  \/ UNCHANGED locks
             \/ \E v \in Vehicles : sharing[v] = {} /\ locked' = [locked EXCEPT ![v] = t] /\ UNCHANGED sharing
  <2>1. op[t].vehicle \in Vehicles
    BY InputFields
  <2>2. QED
    BY <1>1, <2>1 DEF ClosingLock, RowIsFree, Accepted, locks
<1>2. ASSUME NEW t \in Requests, ClosingInsert(t)
      PROVE  UNCHANGED locks \/ (ReleaseLocks(t) /\ Closes(t))
  BY <1>2 DEF ClosingInsert, KeyIsTaken, CloseSession, Finish, Closes, TypeOK
<1>3. ASSUME NEW t \in Requests, Commit(t) \/ Abort(t)
      PROVE  ReleaseLocks(t) /\ Closes(t)
  BY <1>3 DEF Commit, Abort, CloseSession, Finish, Closes, TypeOK
<1>4. ASSUME NEW t \in Requests, ChildInsert(t)
      PROVE  \E v \in Vehicles : ShareRow(t, v) /\ UNCHANGED locked
  <2>1. RuleSpec[op[t].rule].vehicle \in Vehicles
    BY InputFields, RulesAssumption DEF RuleSpecs
  <2>2. QED
    BY <1>4, <2>1 DEF ChildInsert
<1>5. ASSUME NEW t \in Requests, NEW r \in Rules, FlushAlert(t, r)
      PROVE  \E v \in Vehicles : ShareRow(t, v) /\ UNCHANGED locked
  <2>1. RuleSpec[r].vehicle \in Vehicles
    BY RulesAssumption DEF RuleSpecs
  <2>2. QED
    BY <1>5, <2>1 DEF FlushAlert
<1>6. ASSUME NEW t \in Requests, NEW r \in Rules, NEW v \in Vehicles,
             LoadRules(t, v) \/ ReadCycle(t, r) \/ EvaluateRule(t, r)
      PROVE  UNCHANGED locks
  BY <1>6 DEF LoadRules, ReadCycle, EvaluateRule
<1>7. ASSUME NEW t \in Requests, Arrive(t)
      PROVE  UNCHANGED locks
  BY <1>7 DEF Arrive, ClosingCheckKey, RuleStart, ExecutionStart, ListStart
<1>8. ASSUME NEW t \in Requests, Step(t)
      PROVE  \/ UNCHANGED locks
             \/ \E v \in Vehicles : sharing[v] = {} /\ locked' = [locked EXCEPT ![v] = t] /\ UNCHANGED sharing
             \/ \E v \in Vehicles : ShareRow(t, v) /\ UNCHANGED locked
             \/ ReleaseLocks(t) /\ Closes(t)
  <2>1. CASE \E v \in Vehicles : LoadRules(t, v)
    BY <2>1 DEF LoadRules
  <2>2. CASE \E r \in Rules : ReadCycle(t, r) \/ EvaluateRule(t, r)
    BY <2>2 DEF ReadCycle, EvaluateRule
  <2>3. QED
    BY <1>1, <1>2, <1>3, <1>4, <1>5, <1>8, <2>1, <2>2 DEF Step
<1>9. CASE NextDay \/ UNCHANGED vars
  BY <1>9 DEF NextDay, vars
<1>10. QED
  BY <1>3, <1>7, <1>8, <1>9 DEF Next

(* A row lock has one holder, and shared ones go with no exclusive one. *)
LEMMA StepsKeepLocksExclusive ==
  ASSUME TypeOK, LocksExclude, [Next]_vars
  PROVE  LocksExclude'
<1> USE DEF TypeOK, LocksExclude
<1>1. CASE UNCHANGED locks
  BY <1>1 DEF locks
<1>2. ASSUME NEW t \in Requests, NEW v \in Vehicles,
             sharing[v] = {}, locked' = [locked EXCEPT ![v] = t], UNCHANGED sharing
      PROVE  LocksExclude'
  BY <1>2
<1>3. ASSUME NEW t \in Requests, NEW v \in Vehicles, ShareRow(t, v), UNCHANGED locked
      PROVE  LocksExclude'
  BY <1>3 DEF ShareRow
<1>4. ASSUME NEW t \in Requests, ReleaseLocks(t)
      PROVE  LocksExclude'
  BY <1>4 DEF ReleaseLocks
<1>5. QED
  BY <1>1, <1>2, <1>3, <1>4, LocksMove

(* A request keeps the rows it shares until it is answered. *)
LEMMA SharesStay ==
  ASSUME TypeOK, [Next]_vars, NEW t \in Requests, pc'[t] # "done", NEW v \in Vehicles, t \in sharing[v]
  PROVE  t \in sharing'[v]
<1> USE DEF TypeOK
<1>1. ASSUME NEW x \in Requests, NEW w \in Vehicles, ShareRow(x, w)
      PROVE  t \in sharing'[v]
  BY <1>1 DEF ShareRow
<1>2. ASSUME NEW x \in Requests, ReleaseLocks(x), Closes(x)
      PROVE  t \in sharing'[v]
  BY <1>2 DEF ReleaseLocks, Closes
<1>3. QED
  BY <1>1, <1>2, LocksMove DEF locks

(* One turn of the loop, spelled out for every rule. *)
LEMMA OneTurn ==
  ASSUME TypeOK, NEW t \in Requests, Evaluates(t)
  PROVE  \E r \in todo[t], u \in Requests \cup {NoRequest} :
           /\ r \in Rules /\ u \in Choices(r) /\ cycle[t][r] \in Severities
           /\ plan'[t][r] = Decided(t, r, u)
           /\ \A s \in Rules : s # r => plan'[t][s] = plan[t][s] /\ (s \in todo'[t] <=> s \in todo[t])
           /\ r \in todo'[t] <=> plan'[t][r].type = "created"
<1>1. PICK r \in todo[t] : cycle[t][r] \in Severities /\ \E u \in Choices(r) :
        /\ plan'[t] = [plan[t] EXCEPT ![r] = Decided(t, r, u)]
        /\ todo'[t] = IF Decided(t, r, u).type = "created" THEN todo[t] ELSE todo[t] \ {r}
  BY DEF Evaluates
<1>2. PICK u \in Choices(r) :
        /\ plan'[t] = [plan[t] EXCEPT ![r] = Decided(t, r, u)]
        /\ todo'[t] = IF Decided(t, r, u).type = "created" THEN todo[t] ELSE todo[t] \ {r}
  BY <1>1
<1>3. r \in Rules /\ plan[t] \in [Rules -> Event] /\ u \in Requests \cup {NoRequest}
  BY DEF TypeOK, Choices, OpenAlerts
<1> DEFINE w == Decided(t, r, u)
<1>4. plan'[t][r] = w /\ \A s \in Rules : s # r => plan'[t][s] = plan[t][s]
  BY <1>2, <1>3
<1> HIDE DEF w
<1>5. todo'[t] = IF w.type = "created" THEN todo[t] ELSE todo[t] \ {r}
  BY <1>2 DEF w
<1>6. plan'[t][r] = Decided(t, r, u)
  BY <1>4 DEF w
<1>7. QED
  BY <1>1, <1>3, <1>4, <1>5, <1>6

(* A new alert that has been flushed goes on to share its vehicle's row. *)
LEMMA StepsKeepNewAlertsShare ==
  ASSUME TypeOK, AlertsInv, NewAlertsShare, [Next]_vars
  PROVE  NewAlertsShare'
<1> SUFFICES ASSUME NEW t \in Requests, NEW r \in Rules, plan'[t][r].type = "created", r \notin todo'[t]
             PROVE  t \in sharing'[RuleSpec[r].vehicle]
  BY DEF NewAlertsShare
<1>1. RuleSpec[r].vehicle \in Vehicles
  BY RulesAssumption DEF RuleSpecs
<1>2. \/ plan[t][r].type = "created" /\ r \notin todo[t]
      \/ t \in sharing'[RuleSpec[r].vehicle]
  <2>1. CASE Idles(t) \/ Opens(t) \/ Enters(t) \/ Inserts(t)
    BY <2>1 DEF Idles, Opens, Enters, Inserts
  <2>2. CASE Loads(t)
    BY <2>2 DEF Loads
  <2>3. CASE Evaluates(t)
    BY <2>3, OneTurn
  <2>4. CASE Flushes(t)
    BY <2>4 DEF Flushes
  <2>5. ~Closes(t)
    BY DEF Closes, NoEvent
  <2>6. QED
    BY <2>1, <2>2, <2>3, <2>4, <2>5, RequestMoves
<1>3. pc'[t] # "done"
  BY StepsKeepPlansFit DEF PlansFit, NoEvent
<1>4. QED
  BY <1>1, <1>2, <1>3, SharesStay DEF NewAlertsShare

(* A closing goes on to evaluate the rules of its own vehicle only. *)
LEMMA StepsKeepToTheirVehicle ==
  ASSUME TypeOK, AlertsInv, ClosingsMindTheirVehicle, [Next]_vars
  PROVE  ClosingsMindTheirVehicle'
<1> SUFFICES ASSUME NEW t \in Requests, op'[t].type = "closing", pc'[t] = "evaluate"
             PROVE  /\ fleet'[t] \subseteq {op'[t].vehicle}
                    /\ \A r \in Rules : r \in todo'[t] \/ plan'[t][r] # NoEvent =>
                         fleet'[t] = {} /\ RuleSpec[r].vehicle = op'[t].vehicle
  BY DEF ClosingsMindTheirVehicle
<1>1. ~Opens(t) /\ ~Enters(t) /\ ~Closes(t)
  BY DEF Opens, Enters, Closes
<1>2. CASE Inserts(t)
  <2>1. todo'[t] = {} /\ \A r \in Rules : plan'[t][r] = NoEvent
    BY <1>2 DEF Inserts, AlertsInv, PlansFit
  <2>2. QED
    BY <1>2, <2>1 DEF Inserts
<1>3. CASE Idles(t) \/ Loads(t) \/ Evaluates(t) \/ Flushes(t)
  <2>1. op'[t] = op[t] /\ pc[t] = "evaluate"
    BY <1>3 DEF Idles, Loads, Evaluates, Flushes, Keeps
  <2>2. /\ fleet[t] \subseteq {op[t].vehicle}
        /\ \A r \in Rules : r \in todo[t] \/ plan[t][r] # NoEvent =>
             fleet[t] = {} /\ RuleSpec[r].vehicle = op[t].vehicle
    BY <2>1 DEF ClosingsMindTheirVehicle
  <2>3. CASE Idles(t)
    BY <2>1, <2>2, <2>3 DEF Idles
  <2>4. CASE Loads(t)
    <3>1. PICK v \in fleet[t] : /\ fleet'[t] = fleet[t] \ {v}
                                /\ todo'[t] = {r \in Rules : RuleSpec[r].vehicle = v /\ VisibleRule(t, r).created}
      BY <2>4 DEF Loads
    <3>2. v = op[t].vehicle /\ fleet'[t] = {} /\ \A r \in todo'[t] : RuleSpec[r].vehicle = v
      BY <2>2, <3>1
    <3>3. \A r \in Rules : plan'[t][r] = NoEvent
      BY <2>2, <2>4 DEF Loads
    <3>4. QED
      BY <2>1, <3>2, <3>3
  <2>5. CASE Evaluates(t)
    <3>1. PICK r \in todo[t] :
            r \in Rules /\ \A s \in Rules : s # r => plan'[t][s] = plan[t][s] /\ (s \in todo'[t] <=> s \in todo[t])
      BY <2>5, OneTurn
    <3>2. fleet'[t] = fleet[t]
      BY <2>5 DEF Evaluates
    <3>3. QED
      BY <2>1, <2>2, <3>1, <3>2
  <2>6. CASE Flushes(t)
    BY <2>1, <2>2, <2>6 DEF Flushes
  <2>7. QED
    BY <1>3, <2>3, <2>4, <2>5, <2>6
<1>4. QED
  BY <1>1, <1>2, <1>3, RequestMoves

(* The vehicle of a closing that is evaluating is locked by it alone. *)
LEMMA ClosingsLock ==
  ASSUME FleetInv, NEW t \in Requests, op[t].type = "closing", pc[t] = "evaluate"
  PROVE  /\ op[t].vehicle \in Vehicles /\ locked[op[t].vehicle] = t
         /\ sharing[op[t].vehicle] \subseteq {t}
         /\ seen[t][op[t].vehicle] = odometer[op[t].vehicle]
<1>1. op[t].vehicle \in Vehicles /\ locked[op[t].vehicle] = t /\ seen[t][op[t].vehicle] = odometer[op[t].vehicle]
  BY InputFields DEF FleetInv, LedgerInv, LockedReadIsCurrent
<1>2. QED
  BY <1>1, RequestsAssumption DEF FleetInv, ClosingsInv, LocksExclude

(* While a closing evaluates, nobody else opens an alert of its vehicle. *)
LEMMA HeldAlertsStay ==
  ASSUME FleetInv, [Next]_vars, NEW t \in Requests, op[t].type = "closing", pc[t] = "evaluate",
         pc'[t] # "done", NEW r \in Rules, RuleSpec[r].vehicle = op[t].vehicle
  PROVE  OpenAlerts(r)' \subseteq OpenAlerts(r)
<1> SUFFICES ASSUME NEW u \in Requests, alerts'[r][u].status = "open", alerts[r][u].status # "open"
             PROVE  FALSE
  BY DEF OpenAlerts
<1>1. PICK x \in Requests : Commit(x)
  BY OnlyCommitsWrite DEF FleetInv, tables
<1>2. x # t
  BY <1>1 DEF Commit, Finish, FleetInv, TypeOK
<1>3. plan[x][r].type = "created"
  BY <1>1, AlertMoves DEF FleetInv
<1>4. x \in sharing[RuleSpec[r].vehicle]
  BY <1>1, <1>3 DEF Commit, FleetInv, ClosingsInv, NewAlertsShare
<1>5. QED
  BY <1>2, <1>4, ClosingsLock

(* Nobody opens an alert while a closing is about to. *)
LEMMA StepsKeepNewAlertsAlone ==
  ASSUME FleetInv, [Next]_vars
  PROVE  NewAlertIsAlone'
<1>0. TypeOK /\ AlertsInv /\ PlansFit /\ NewAlertIsAlone /\ ClosingsMindTheirVehicle
  BY DEF FleetInv, AlertsInv, ClosingsInv
<1> SUFFICES ASSUME NEW t \in Requests, NEW r \in Rules, op'[t].type = "closing", plan'[t][r].type = "created"
             PROVE  OpenAlerts(r)' = {}
  BY DEF NewAlertIsAlone
<1>1. pc'[t] = "evaluate"
  BY <1>0, StepsKeepPlansFit DEF PlansFit, NoEvent
<1>2. CASE plan[t][r].type = "created"
  <2>1. pc[t] = "evaluate" /\ plan[t][r] # NoEvent
    BY <1>0, <1>2 DEF PlansFit, NoEvent
  <2>2. op'[t] = op[t]
    BY <1>0, <2>1, RequestMoves DEF Idles, Opens, Enters, Inserts, Loads, Evaluates, Flushes, Closes, Keeps
  <2>3. RuleSpec[r].vehicle = op[t].vehicle /\ OpenAlerts(r) = {}
    BY <1>0, <1>2, <2>1, <2>2 DEF NewAlertIsAlone, ClosingsMindTheirVehicle
  <2>4. QED
    BY <1>1, <2>1, <2>2, <2>3, HeldAlertsStay
<1>3. CASE plan[t][r].type # "created"
  <2>1. Evaluates(t)
    BY <1>0, <1>1, <1>3, RequestMoves DEF Idles, Opens, Enters, Inserts, Loads, Flushes, Closes
  <2>2. op'[t] = op[t] /\ pc[t] = "evaluate"
    BY <2>1 DEF Evaluates, Keeps
  <2>3. r \in todo[t] /\ OpenAlerts(r) = {}
    <3>1. PICK s \in todo[t], u \in Requests \cup {NoRequest} :
            /\ s \in Rules /\ u \in Choices(s) /\ cycle[t][s] \in Severities
            /\ plan'[t][s] = Decided(t, s, u)
            /\ \A q \in Rules : q # s => plan'[t][q] = plan[t][q]
      BY <1>0, <2>1, OneTurn
    <3>2. s = r
      BY <1>3, <3>1
    <3>3. QED
      BY <1>0, <3>1, <3>2, DecisionFits
  <2>4. RuleSpec[r].vehicle = op[t].vehicle
    BY <1>0, <2>2, <2>3 DEF ClosingsMindTheirVehicle
  <2>5. QED
    BY <1>1, <2>2, <2>3, <2>4, HeldAlertsStay
<1>4. QED
  BY <1>2, <1>3

(* What a request is stays what it is, once it has arrived. *)
LEMMA KindsStay ==
  ASSUME TypeOK, [Next]_vars, NEW t \in Requests, pc[t] # "idle"
  PROVE  op'[t] = op[t] /\ pc'[t] # "idle"
BY RequestMoves DEF Idles, Opens, Enters, Inserts, Loads, Evaluates, Flushes, Closes, Keeps

(* If there are only closings after a step, there were before. *)
LEMMA OnlyClosingsBefore ==
  ASSUME TypeOK, [Next]_vars, OnlyClosings'
  PROVE  OnlyClosings
BY KindsStay DEF OnlyClosings

(* Closings write no rule and no execution. *)
LEMMA ClosingsLeaveRules ==
  ASSUME TypeOK, [Next]_vars, OnlyClosings
  PROVE  rules' = rules /\ executions' = executions
<1>1. ASSUME NEW t \in Requests, Commit(t)
      PROVE  rules' = rules /\ executions' = executions
  <2>1. op[t].type = "closing"
    BY <1>1 DEF OnlyClosings, Commit
  <2>2. QED
    BY <1>1, <2>1 DEF Commit, VisibleExecutions
<1>2. QED
  BY <1>1, OnlyCommitsWrite DEF tables

(* Among closings, an evaluation sees its vehicle's alerts as they are. *)
LEMMA HeldAlertsSame ==
  ASSUME FleetInv, [Next]_vars, OnlyClosings,
         NEW t \in Requests, pc[t] = "evaluate", pc'[t] # "done",
         NEW r \in Rules, RuleSpec[r].vehicle = op[t].vehicle
  PROVE  alerts'[r] = alerts[r]
<1>1. ASSUME NEW x \in Requests, Commit(x)
      PROVE  alerts'[r] = alerts[r]
  <2>1. x # t /\ pc[x] = "evaluate"
    BY <1>1 DEF Commit, Finish, FleetInv, TypeOK
  <2>2. op[x].type = "closing" /\ op[t].type = "closing"
    BY <2>1 DEF OnlyClosings
  <2>3. op[x].vehicle # op[t].vehicle
    BY <2>1, <2>2, ClosingsLock
  <2>4. plan[x][r] = NoEvent
    BY <2>1, <2>2, <2>3 DEF FleetInv, ClosingsInv, ClosingsMindTheirVehicle
  <2>5. \A u \in Requests : alerts'[r][u] = alerts[r][u]
    BY <1>1, <2>4, AlertMoves DEF FleetInv, NoEvent
  <2>6. alerts[r] \in [Requests -> Alert] /\ alerts'[r] = [u \in Requests |-> AlertAfter(plan[x][r], u, alerts[r][u])]
    BY <1>1 DEF FleetInv, TypeOK, Commit
  <2>7. QED
    BY <2>5, <2>6
<1>2. QED
  BY <1>1, OnlyCommitsWrite DEF tables, FleetInv

(* A severity depends on nothing but the request's copies, the rule and the     *)
(* executions.                                                                 *)
LEMMA SeveritySame ==
  ASSUME NEW t \in Requests, NEW r \in Rules, op[t].type = "closing",
         Keeps(t), rules' = rules, executions' = executions
  PROVE  SeverityFor(t, r)' = SeverityFor(t, r)
<1>1. /\ VisibleRule(t, r)' = rules[r] /\ VisibleRule(t, r) = rules[r]
      /\ VisibleExecutions(t)' = executions /\ VisibleExecutions(t) = executions
      /\ EvaluationKm(t, RuleSpec[r].vehicle)' = EvaluationKm(t, RuleSpec[r].vehicle)
  BY DEF Keeps, VisibleRule, VisibleExecutions, EvaluationKm
<1>2. Base(t, r)' = Base(t, r)
  BY <1>1 DEF Base
<1>3. QED
  BY <1>1, <1>2 DEF SeverityFor, Keeps

(* A verdict depends on these and on the alerts of the rule. *)
LEMMA VerdictSame ==
  ASSUME NEW t \in Requests, NEW r \in Rules, NEW u, op[t].type = "closing",
         Keeps(t), rules' = rules, executions' = executions, alerts'[r] = alerts[r]
  PROVE  /\ Verdict(t, r, u)' = Verdict(t, r, u)
         /\ Choices(r)' = Choices(r)
<1>1. SeverityFor(t, r)' = SeverityFor(t, r)
  BY SeveritySame
<1>2. OpenAlerts(r)' = OpenAlerts(r)
  BY DEF OpenAlerts
<1>3. QED
  BY <1>1, <1>2 DEF Verdict, Decision, Choices

(* Where a severity that awaits its alert comes from. *)
LEMMA CycleMoves ==
  ASSUME TypeOK, [Next]_vars, NEW t \in Requests, NEW r \in Rules, cycle'[t][r] # "unread"
  PROVE  \/ cycle'[t][r] = cycle[t][r] /\ (pc[t] = "evaluate" => pc'[t] = "evaluate")
         \/ pc[t] = "evaluate" /\ pc'[t] = "evaluate" /\ cycle'[t][r] = SeverityFor(t, r)
<1> USE DEF TypeOK
<1> DEFINE Result == \/ cycle'[t][r] = cycle[t][r] /\ (pc[t] = "evaluate" => pc'[t] = "evaluate")
                     \/ pc[t] = "evaluate" /\ pc'[t] = "evaluate" /\ cycle'[t][r] = SeverityFor(t, r)
<1>1. ASSUME NEW x \in Requests, Arrive(x)
      PROVE  Result
  <2>1. cycle' = cycle /\ pc[x] = "idle"
    BY <1>1 DEF Arrive, Start, ClosingCheckKey, RuleStart, ExecutionStart, ListStart
  <2>2. pc[t] = "evaluate" => pc'[t] = pc[t]
    BY <1>1, <2>1, OthersIdle DEF Idles
  <2>3. QED
    BY <2>1, <2>2
<1>2. ASSUME NEW x \in Requests, ClosingLock(x) \/ ChildInsert(x)
      PROVE  Result
  <2>1. cycle' = cycle /\ pc[x] \in {"lock", "insert"}
    BY <1>2 DEF ClosingLock, ChildInsert, private
  <2>2. pc[t] = "evaluate" => pc'[t] = pc[t]
    BY <1>2, <2>1, OthersIdle DEF Idles, Step
  <2>3. QED
    BY <2>1, <2>2
<1>3. ASSUME NEW x \in Requests, ClosingInsert(x)
      PROVE  Result
  <2>1. CASE CloseSession(x)
    BY <1>3, <2>1 DEF ClosingInsert, CloseSession, Finish
  <2>2. CASE pc' = [pc EXCEPT ![x] = "evaluate"] /\ UNCHANGED cycle
    BY <2>2
  <2>3. QED
    BY <1>3, <2>1, <2>2 DEF ClosingInsert, KeyIsTaken
<1>4. ASSUME NEW x \in Requests, (\E v \in Vehicles : LoadRules(x, v)) \/ (\E q \in Rules : FlushAlert(x, q))
      PROVE  Result
  BY <1>4 DEF LoadRules, FlushAlert
<1>5. ASSUME NEW x \in Requests, NEW q \in Rules, EvaluateRule(x, q)
      PROVE  Result
  BY <1>5 DEF EvaluateRule
<1>6. ASSUME NEW x \in Requests, NEW q \in Rules, ReadCycle(x, q)
      PROVE  Result
  <2>1. pc' = pc /\ pc[x] = "evaluate" /\ cycle' = [cycle EXCEPT ![x][q] = SeverityFor(x, q)]
    BY <1>6 DEF ReadCycle
  <2>2. CASE x = t /\ q = r
    BY <2>1, <2>2
  <2>3. CASE ~(x = t /\ q = r)
    BY <2>1, <2>3
  <2>4. QED
    BY <2>2, <2>3
<1>7. ASSUME NEW x \in Requests, Commit(x) \/ Abort(x)
      PROVE  Result
  BY <1>7 DEF Commit, Abort, Finish, CloseSession
<1>8. ASSUME NextDay \/ UNCHANGED vars
      PROVE  Result
  BY <1>8 DEF NextDay, vars, private
<1>9. ASSUME NEW x \in Requests, Step(x)
      PROVE  Result
  BY <1>2, <1>3, <1>4, <1>5, <1>6, <1>7, <1>9 DEF Step
<1> HIDE DEF Result
<1>10. Result
  BY <1>1, <1>7, <1>8, <1>9 DEF Next
<1>11. QED
  BY <1>10 DEF Result

(* Among closings a severity worked out stays right until it is used. *)
LEMMA StepsKeepCycles ==
  ASSUME FleetInv, [Next]_vars
  PROVE  CyclesStand'
<1>0. TypeOK /\ CyclesStand
  BY DEF FleetInv, ClosingsInv
<1> SUFFICES ASSUME NEW t \in Requests, NEW r \in Rules, cycle'[t][r] # "unread"
             PROVE  pc'[t] = "evaluate" /\ (OnlyClosings' => cycle'[t][r] = SeverityFor(t, r)')
  BY DEF CyclesStand
<1>1. pc[t] = "evaluate" /\ pc'[t] = "evaluate" /\ (OnlyClosings => cycle'[t][r] = SeverityFor(t, r))
  BY <1>0, CycleMoves DEF CyclesStand
<1>2. Keeps(t)
  BY <1>0, <1>1, RequestMoves DEF Idles, Opens, Enters, Inserts, Loads, Evaluates, Flushes, Closes
<1>3. ASSUME OnlyClosings'
      PROVE  cycle'[t][r] = SeverityFor(t, r)'
  <2>1. OnlyClosings /\ rules' = rules /\ executions' = executions
    BY <1>0, <1>3, OnlyClosingsBefore, ClosingsLeaveRules
  <2>2. op[t].type = "closing"
    BY <1>1, <2>1 DEF OnlyClosings
  <2>3. QED
    BY <1>1, <1>2, <2>1, <2>2, SeveritySame
<1>4. QED
  BY <1>1, <1>3

(* What a closing has decided of a rule is still right when it commits. *)
LEMMA StepsKeepDecisions ==
  ASSUME FleetInv, [Next]_vars
  PROVE  DecisionsStand'
<1>0. TypeOK /\ AlertsInv /\ CyclesStand /\ DecisionsStand /\ ClosingsMindTheirVehicle
  BY DEF FleetInv, ClosingsInv
<1> SUFFICES ASSUME OnlyClosings'
             PROVE  /\ executions' = {}
                    /\ \A t \in Requests, r \in Rules :
                         /\ pc'[t] = "evaluate" /\ fleet'[t] = {} /\ RuleSpec[r].vehicle = op'[t].vehicle
                         /\ rules'[r].created /\ (r \notin todo'[t] \/ plan'[t][r].type = "created")
                         => \E u \in Choices(r)' : plan'[t][r] = Verdict(t, r, u)'
  BY DEF DecisionsStand
<1>1. OnlyClosings /\ rules' = rules /\ executions' = executions /\ executions = {}
  BY <1>0, OnlyClosingsBefore, ClosingsLeaveRules DEF DecisionsStand
<1>2. ASSUME NEW t \in Requests, NEW r \in Rules,
             pc'[t] = "evaluate", fleet'[t] = {}, RuleSpec[r].vehicle = op'[t].vehicle,
             rules'[r].created, r \notin todo'[t] \/ plan'[t][r].type = "created"
      PROVE  \E u \in Choices(r)' : plan'[t][r] = Verdict(t, r, u)'
  <2>1. op'[t].type = "closing" /\ ~Opens(t) /\ ~Enters(t) /\ ~Inserts(t) /\ ~Closes(t)
    BY <1>2 DEF OnlyClosings, Opens, Enters, Inserts, Closes
  <2>2. Idles(t) \/ Loads(t) \/ Evaluates(t) \/ Flushes(t)
    BY <1>0, <2>1, RequestMoves
  <2>3. pc[t] = "evaluate" /\ Keeps(t) /\ op[t].type = "closing" /\ RuleSpec[r].vehicle = op[t].vehicle
    BY <1>2, <2>1, <2>2 DEF Idles, Loads, Evaluates, Flushes, Keeps
  <2>4. alerts'[r] = alerts[r]
    BY <1>1, <1>2, <2>3, HeldAlertsSame
  <2>5. \E u \in Choices(r) : plan'[t][r] = Verdict(t, r, u)
    <3>1. CASE plan'[t][r] = plan[t][r] /\ fleet[t] = {} /\ (r \notin todo[t] \/ plan[t][r].type = "created")
      BY <1>0, <1>1, <1>2, <2>3, <3>1 DEF DecisionsStand
    <3>2. CASE Idles(t)
      BY <1>2, <3>1, <3>2 DEF Idles
    <3>3. ~Loads(t)
      <4>1. SUFFICES ASSUME Loads(t) PROVE FALSE
        OBVIOUS
      <4>2. PICK v \in fleet[t] :
              todo'[t] = {s \in Rules : RuleSpec[s].vehicle = v /\ VisibleRule(t, s).created}
        BY <4>1 DEF Loads
      <4>3. v = op[t].vehicle /\ plan[t][r] = NoEvent /\ plan'[t] = plan[t]
        BY <1>0, <2>3, <4>1, <4>2 DEF ClosingsMindTheirVehicle, Loads
      <4>4. VisibleRule(t, r).created
        BY <1>1, <1>2, <2>3 DEF VisibleRule
      <4>5. QED
        BY <1>2, <2>3, <4>2, <4>3, <4>4 DEF NoEvent
    <3>4. CASE Evaluates(t)
      <4>1. PICK s \in todo[t], u \in Requests \cup {NoRequest} :
              /\ s \in Rules /\ u \in Choices(s) /\ cycle[t][s] \in Severities
              /\ plan'[t][s] = Decided(t, s, u)
              /\ \A q \in Rules : q # s => plan'[t][q] = plan[t][q] /\ (q \in todo'[t] <=> q \in todo[t])
        BY <1>0, <3>4, OneTurn
      <4>2. CASE r = s
        <5>1. cycle[t][r] = SeverityFor(t, r)
          BY <1>0, <1>1, <4>1, <4>2 DEF CyclesStand, Severities
        <5>2. QED
          BY <4>1, <4>2, <5>1 DEF Decided, Verdict
      <4>3. CASE r # s
        BY <1>2, <3>1, <3>4, <4>1, <4>3 DEF Evaluates
      <4>4. QED
        BY <4>2, <4>3
    <3>5. CASE Flushes(t)
      BY <1>2, <3>1, <3>5 DEF Flushes
    <3>6. QED
      BY <2>2, <3>2, <3>3, <3>4, <3>5
  <2>6. PICK u \in Choices(r) : plan'[t][r] = Verdict(t, r, u)
    BY <2>5
  <2>7. Verdict(t, r, u)' = Verdict(t, r, u) /\ Choices(r)' = Choices(r)
    BY <1>1, <2>3, <2>4, VerdictSame
  <2>8. QED
    BY <2>6, <2>7
<1>3. QED
  BY <1>1, <1>2

(* What a closing decides for a rule by distance leaves the alert its new      *)
(* odometer calls for.                                                         *)
LEMMA SeverityByDistance ==
  ASSUME NEW t \in Requests, NEW r \in Rules, op[t].type = "closing", executions = {},
         RuleSpec[r].intervalDays = 0
  PROVE  SeverityFor(t, r) = KmSeverity(RuleSpec[r], rules[r].baseKm, op[t].km)
<1>1. VisibleRule(t, r) = rules[r] /\ VisibleExecutions(t) = {}
  BY DEF VisibleRule, VisibleExecutions
<1>2. Base(t, r) = [km |-> rules[r].baseKm, day |-> rules[r].baseDay]
  BY <1>1 DEF Base
<1>3. EvaluationKm(t, RuleSpec[r].vehicle) = op[t].km
  BY DEF EvaluationKm
<1>4. DaySeverity(RuleSpec[r], Base(t, r).day, evalDay[t]) = "none"
  BY DEF DaySeverity
<1>5. QED
  BY <1>2, <1>3, <1>4 DEF SeverityFor, Severity

(* Of the alerts that are open for a rule one at most is a closing's. *)
LEMMA StepsKeepOneOpenAlert ==
  ASSUME FleetInv, [Next]_vars, NEW r \in Rules,
         NEW t \in OpenAlerts(r)', NEW u \in OpenAlerts(r)', op'[t].type = "closing", op'[u].type = "closing"
  PROVE  t = u
<1>0. TypeOK /\ AlertsInv /\ NewAlertIsAlone /\ t \in Requests /\ u \in Requests
  BY DEF FleetInv, ClosingsInv, OpenAlerts
<1>1. \A x \in OpenAlerts(r) : x \in Requests /\ pc[x] = "done" /\ op'[x] = op[x]
  <2>1. \A x \in OpenAlerts(r) : x \in Requests /\ pc[x] = "done"
    BY <1>0 DEF OpenAlerts, AlertsInv, AlertRowsAreOfFinished
  <2>2. QED
    BY <1>0, <2>1, KindsStay
<1>2. CASE t \in OpenAlerts(r) /\ u \in OpenAlerts(r)
  BY <1>1, <1>2 DEF FleetInv, ClosingsInv, ClosingsKeepAlertsExact
<1>3. ASSUME NEW x \in Requests, Commit(x)
      PROVE  t = u
  <2>1. ASSUME NEW y \in Requests, y \in OpenAlerts(r)', y \notin OpenAlerts(r)
        PROVE  y = x /\ plan[x][r].type = "created"
    BY <1>0, <1>3, <2>1, AlertMoves DEF OpenAlerts
  <2>2. op'[x] = op[x]
    BY <1>3 DEF Commit
  <2>3. CASE t = x \/ u = x
    <3>1. CASE x \in OpenAlerts(r)
      BY <1>0, <1>3, <3>1 DEF OpenAlerts, AlertsInv, AlertRowsAreOfFinished, Commit
    <3>2. CASE x \notin OpenAlerts(r)
      <4>1. OpenAlerts(r) = {}
        BY <1>0, <2>1, <2>2, <2>3, <3>2 DEF NewAlertIsAlone
      <4>2. QED
        BY <1>0, <2>1, <4>1
    <3>3. QED
      BY <3>1, <3>2
  <2>4. QED
    BY <1>0, <1>2, <2>1, <2>3
<1>4. CASE UNCHANGED tables
  BY <1>2, <1>4 DEF tables, OpenAlerts
<1>5. QED
  BY <1>0, <1>3, <1>4, OnlyCommitsWrite

OpenSeverities(r) == {alerts[r][u].severity : u \in OpenAlerts(r)}

(* A closing that commits leaves the alert of a rule as it decided. *)
LEMMA CommitsDecide ==
  ASSUME FleetInv, OnlyClosings, NEW t \in Requests, Commit(t),
         NEW r \in Rules, NEW u \in Choices(r), plan[t][r] = Verdict(t, r, u)
  PROVE  OpenSeverities(r)' = {SeverityFor(t, r)} \ {"none"}
<1> DEFINE s == SeverityFor(t, r)
           w == plan[t][r]
<1>0. TypeOK /\ AlertsInv /\ PlansFit /\ alerts[r][t].status = "absent" /\ pc[t] = "evaluate"
  BY DEF FleetInv, AlertsInv, AlertRowsAreOfFinished, Commit
<1>1. \A x, y \in OpenAlerts(r) : x = y
  <2>1. \A x \in OpenAlerts(r) : x \in Requests /\ pc[x] = "done"
    BY <1>0 DEF OpenAlerts, AlertsInv, AlertRowsAreOfFinished
  <2>2. \A x \in OpenAlerts(r) : op[x].type = "closing"
    BY <2>1 DEF OnlyClosings
  <2>3. QED
    BY <2>2 DEF FleetInv, ClosingsInv, ClosingsKeepAlertsExact
<1>2. \A x \in Requests :
        \/ alerts'[r][x] = alerts[r][x] /\ w.alert # x
        \/ /\ w.type = "created" /\ x = t /\ w.alert = x
           /\ alerts'[r][x].status = "open" /\ alerts'[r][x].severity = w.severity
        \/ /\ w.type = "updated" /\ w.alert = x
           /\ alerts'[r][x].status = alerts[r][x].status /\ alerts'[r][x].severity = w.severity
        \/ w.type = "resolved" /\ w.alert = x /\ alerts'[r][x].status = "resolved"
  BY <1>0, AlertMoves
<1>3. OpenSeverities(r)' = {alerts'[r][x].severity : x \in {y \in Requests : alerts'[r][y].status = "open"}}
  BY DEF OpenSeverities, OpenAlerts
<1>4. CASE u = NoRequest
  <2>1. OpenAlerts(r) = {}
    BY <1>4, RequestsAssumption DEF Choices, OpenAlerts
  <2>2. CASE s = "none"
    <3>1. w.type = "none"
      BY <1>4, <2>2 DEF Verdict, Decision, NoEvent
    <3>2. \A x \in Requests : alerts'[r][x].status # "open"
      BY <1>2, <2>1, <3>1 DEF OpenAlerts
    <3>3. QED
      BY <1>3, <2>2, <3>2
  <2>3. CASE s # "none"
    <3>1. w.type = "created" /\ w.alert = t /\ w.severity = s
      BY <1>4, <2>3 DEF Verdict, Decision
    <3>2. \A x \in Requests : alerts'[r][x].status = "open" <=> x = t
      BY <1>2, <2>1, <3>1 DEF OpenAlerts
    <3>3. alerts'[r][t].severity = s
      BY <1>2, <3>1
    <3>4. QED
      BY <1>3, <2>3, <3>2, <3>3
  <2>4. QED
    BY <2>2, <2>3
<1>5. CASE u # NoRequest
  <2>1. u \in OpenAlerts(r) /\ u \in Requests /\ alerts[r][u].status = "open"
    BY <1>5 DEF Choices, OpenAlerts
  <2>2. \A x \in Requests : alerts[r][x].status = "open" <=> x = u
    BY <1>1, <2>1 DEF OpenAlerts
  <2>3. CASE s = "none"
    <3>1. w.type = "resolved" /\ w.alert = u
      BY <1>5, <2>3 DEF Verdict, Decision
    <3>2. \A x \in Requests : alerts'[r][x].status # "open"
      BY <1>2, <2>2, <3>1
    <3>3. QED
      BY <1>3, <2>3, <3>2
  <2>4. CASE s # "none" /\ s # alerts[r][u].severity
    <3>1. w.type = "updated" /\ w.alert = u /\ w.severity = s
      BY <1>5, <2>4 DEF Verdict, Decision
    <3>2. \A x \in Requests : alerts'[r][x].status = "open" <=> x = u
      BY <1>2, <2>2, <3>1
    <3>3. alerts'[r][u].severity = s
      BY <1>2, <2>1, <3>1
    <3>4. QED
      BY <1>3, <2>1, <2>4, <3>2, <3>3
  <2>5. CASE s # "none" /\ s = alerts[r][u].severity
    <3>1. w.type = "none"
      BY <1>5, <2>5 DEF Verdict, Decision, NoEvent
    <3>2. \A x \in Requests : alerts'[r][x] = alerts[r][x]
      BY <1>2, <3>1
    <3>3. QED
      BY <1>3, <2>1, <2>2, <2>5, <3>2
  <2>6. QED
    BY <2>3, <2>4, <2>5
<1>6. QED
  BY <1>4, <1>5

(* Among closings, a rule by distance has the alert its odometer calls for. *)
LEMMA StepsKeepAlertsExact ==
  ASSUME FleetInv, [Next]_vars, NEW r \in Rules, RuleSpec[r].intervalDays = 0, rules'[r].created,
         OnlyClosings', \E rec \in records' : rec.vehicle = RuleSpec[r].vehicle
  PROVE  OpenSeverities(r)' = {KmSeverity(RuleSpec[r], rules'[r].baseKm, odometer'[RuleSpec[r].vehicle])} \ {"none"}
<1> DEFINE v == RuleSpec[r].vehicle
<1>0. /\ TypeOK /\ AlertsInv /\ DecisionsStand /\ OnlyClosings /\ rules' = rules /\ executions = {}
      /\ v \in Vehicles
  BY OnlyClosingsBefore, ClosingsLeaveRules, RulesAssumption DEF FleetInv, ClosingsInv, DecisionsStand, RuleSpecs
<1>1. (\E rec \in records : rec.vehicle = v) =>
        OpenSeverities(r) = {KmSeverity(RuleSpec[r], rules[r].baseKm, odometer[v])} \ {"none"}
  BY <1>0 DEF FleetInv, ClosingsInv, ClosingsKeepAlertsExact, OnlyClosings, OpenSeverities
<1>2. CASE UNCHANGED tables
  BY <1>0, <1>1, <1>2 DEF tables, OpenSeverities, OpenAlerts
<1>3. ASSUME NEW t \in Requests, Commit(t)
      PROVE  OpenSeverities(r)' = {KmSeverity(RuleSpec[r], rules'[r].baseKm, odometer'[v])} \ {"none"}
  <2>1. op[t].type = "closing" /\ pc[t] = "evaluate" /\ fleet[t] = {} /\ todo[t] = {}
    BY <1>0, <1>3 DEF OnlyClosings, Commit
  <2>2. odometer' = [odometer EXCEPT ![op[t].vehicle] = op[t].km] /\ records' = records \cup {NewRecord(t)}
    BY <1>3, <2>1 DEF Commit
  <2>3. CASE op[t].vehicle = v
    <3>1. PICK u \in Choices(r) : plan[t][r] = Verdict(t, r, u)
      BY <1>0, <2>1, <2>3 DEF DecisionsStand
    <3>2. OpenSeverities(r)' = {SeverityFor(t, r)} \ {"none"}
      BY <1>0, <1>3, <3>1, CommitsDecide
    <3>3. SeverityFor(t, r) = KmSeverity(RuleSpec[r], rules[r].baseKm, op[t].km)
      BY <1>0, <2>1, SeverityByDistance
    <3>4. odometer'[v] = op[t].km
      BY <1>0, <2>2, <2>3 DEF TypeOK
    <3>5. QED
      BY <1>0, <3>2, <3>3, <3>4
  <2>4. CASE op[t].vehicle # v
    <3>1. plan[t][r] = NoEvent
      BY <2>1, <2>4 DEF FleetInv, ClosingsInv, ClosingsMindTheirVehicle
    <3>2. \A x \in Requests : alerts'[r][x] = alerts[r][x]
      BY <1>0, <1>3, <3>1, AlertMoves DEF NoEvent
    <3>3. OpenSeverities(r)' = OpenSeverities(r)
      BY <3>2 DEF OpenSeverities, OpenAlerts
    <3>4. odometer'[v] = odometer[v] /\ \E rec \in records : rec.vehicle = v
      BY <1>0, <2>2, <2>4 DEF NewRecord, TypeOK
    <3>5. QED
      BY <1>0, <1>1, <3>3, <3>4
  <2>5. QED
    BY <2>3, <2>4
<1>4. QED
  BY <1>2, <1>3, <1>0, OnlyCommitsWrite

(* So after closings alone every alert says what the rule and the odometer *)
(* say.                                                                    *)
LEMMA StepsKeepClosingsExact ==
  ASSUME FleetInv, [Next]_vars
  PROVE  ClosingsKeepAlertsExact'
<1>1. ASSUME NEW r \in Rules
      PROVE  \A t, u \in OpenAlerts(r)' : op'[t].type = "closing" /\ op'[u].type = "closing" => t = u
  BY StepsKeepOneOpenAlert
<1>2. ASSUME NEW r \in Rules, RuleSpec[r].intervalDays = 0, rules'[r].created,
             \A t \in Requests : pc'[t] # "idle" => op'[t].type = "closing",
             \E rec \in records' : rec.vehicle = RuleSpec[r].vehicle
      PROVE  {alerts'[r][u].severity : u \in OpenAlerts(r)'} =
             {KmSeverity(RuleSpec[r], rules'[r].baseKm, odometer'[RuleSpec[r].vehicle])} \ {"none"}
  <2>1. OnlyClosings'
    BY <1>2 DEF OnlyClosings
  <2>2. OpenSeverities(r)' = {alerts'[r][u].severity : u \in OpenAlerts(r)'}
    BY DEF OpenSeverities
  <2>3. QED
    BY <1>2, <2>1, <2>2, StepsKeepAlertsExact
<1>3. QED
  BY <1>1, <1>2 DEF ClosingsKeepAlertsExact

(* Every reachable state satisfies the inductive invariant of closings and     *)
(* alerts: a closing that evaluates has its vehicle to itself, so what it has  *)
(* decided is still right when it commits.                                     *)
THEOREM ClosingsHold == Spec => []ClosingsInv
<1>1. Init => ClosingsInv
  <2> SUFFICES ASSUME Init PROVE ClosingsInv
    OBVIOUS
  <2>1. /\ \A r \in Rules, u \in Requests : alerts[r][u] = NoAlert /\ plan[u][r] = NoEvent
        /\ \A u \in Requests : pc[u] = "idle" /\ todo[u] = {} /\ \A r \in Rules : cycle[u][r] = "unread"
        /\ \A v \in Vehicles : locked[v] = NoRequest
        /\ executions = {} /\ records = {}
    BY DEF Init
  <2>2. NoEvent.type = "none" /\ NoAlert.status = "absent"
    BY DEF NoEvent, NoAlert
  <2>3. \A r \in Rules : OpenAlerts(r) = {}
    BY <2>1, <2>2 DEF OpenAlerts
  <2>4. NewAlertsShare /\ LocksExclude /\ ClosingsMindTheirVehicle /\ NewAlertIsAlone
    BY <2>1, <2>2 DEF NewAlertsShare, LocksExclude, ClosingsMindTheirVehicle, NewAlertIsAlone
  <2>7. CyclesStand /\ DecisionsStand
    BY <2>1, <2>2 DEF CyclesStand, DecisionsStand
  <2>5. ClosingsKeepAlertsExact
    BY <2>1, <2>3 DEF ClosingsKeepAlertsExact
  <2>6. QED
    BY <2>4, <2>5, <2>7 DEF ClosingsInv
<1>2. TypeOK /\ LedgerInv /\ AlertsInv /\ ClosingsInv /\ [Next]_vars => ClosingsInv'
  BY StepsKeepNewAlertsShare, StepsKeepLocksExclusive, StepsKeepToTheirVehicle, StepsKeepNewAlertsAlone,
     StepsKeepCycles, StepsKeepDecisions, StepsKeepClosingsExact DEF FleetInv, ClosingsInv
<1>3. QED
  BY <1>1, <1>2, TypeCorrect, LedgerCorrect, AlertsHold, PTL DEF Spec

(* Closings that run at once leave at most one open alert per rule, and as     *)
(* long as only closings run it is the one the odometer calls for.             *)
THEOREM ClosingsLeaveAlertsExact == Spec => []ClosingsKeepAlertsExact
<1>1. ClosingsInv => ClosingsKeepAlertsExact
  BY DEF ClosingsInv
<1>2. QED
  BY <1>1, ClosingsHold, PTL

=============================================================================
