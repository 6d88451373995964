------------------------------- MODULE Fleet -------------------------------
(***************************************************************************)
(* The write path of the fleet: the four HTTP handlers that call           *)
(* evaluate_maintenance (a daily closing, a new maintenance rule, a        *)
(* maintenance execution and the listing of alerts) as concurrent database *)
(* transactions over PostgreSQL at READ COMMITTED.                         *)
(*                                                                         *)
(* Each statement whose result another transaction can influence is a step *)
(* of its own.  The tables below hold what is committed; what a request    *)
(* has read or written and not committed lives in its private variables    *)
(* and becomes visible in Commit.                                          *)
(***************************************************************************)
EXTENDS Naturals, FiniteSets

CONSTANTS
  Requests,        \* the HTTP requests of a behaviour, one transaction each
  NoRequest,       \* the holder of a row nobody has locked
  Vehicles,
  ActiveVehicles,  \* vehicles whose status is "active"; no handler changes it
  Rules,           \* identifiers of maintenance rules
  RuleSpec,        \* what the client registered for each rule
  Keys,            \* idempotency keys
  Inputs,          \* what a request may carry
  StartKm,         \* odometer of each vehicle when it was registered
  FirstRules,      \* rules registered together with their vehicle
  MaxDay           \* bound of the calendar

OpTypes    == {"closing", "rule", "execution", "list"}
Severities == {"none", "warning", "critical"}

(* One shape for the four payloads; a handler reads the fields it has. *)
Input == [type : OpTypes, vehicle : Vehicles, rule : Rules, key : Keys,
          km : Nat, day : Nat, priced : BOOLEAN]

(* An interval of 0 stands for a null column.  schemas.MaintenanceRuleCreate *)
(* admits only positive intervals and non-negative warnings.                 *)
RuleSpecs == [vehicle : Vehicles, intervalKm : Nat, intervalDays : Nat,
              warningKm : Nat, warningDays : Nat]

ASSUME RequestsAssumption == IsFiniteSet(Requests) /\ NoRequest \notin Requests
ASSUME VehiclesAssumption == ActiveVehicles \subseteq Vehicles
ASSUME RulesAssumption    == RuleSpec \in [Rules -> RuleSpecs] /\ FirstRules \subseteq Rules
ASSUME InputsAssumption   == Inputs # {} /\ Inputs \subseteq Input
ASSUME StartAssumption    == StartKm \in [Vehicles -> Nat] /\ MaxDay \in Nat

VARIABLES
  (* Committed state. *)
  today,       \* date.today() of the server
  odometer,    \* vehicles.odometer_km
  records,     \* operational_records
  rules,       \* maintenance_rules
  executions,  \* maintenance_executions
  alerts,      \* maintenance_alerts: the alert of rule r created by request t is alerts[r][t]
  events,      \* outbox_events: request t writes at most one per rule, events[t][r]
  locked,      \* who holds the FOR UPDATE lock of each vehicle's row
  sharing,     \* who holds its FOR KEY SHARE lock, which inserting a child row takes
  (* Private state of each request; cycle[t][r] is the severity rule r calls    *)
  (* for, once t has read its latest execution and until it reads its alerts.   *)
  pc, op, began, seen, evalDay, fleet, todo, cycle, plan, reply

tables  == <<odometer, records, rules, executions, alerts, events>>
private == <<op, began, seen, evalDay, fleet, todo, cycle, plan, reply>>
locks   == <<locked, sharing>>
vars    == <<today, tables, locks, pc, private>>

-----------------------------------------------------------------------------
(* The shapes of the rows. *)

Record    == [id : Requests, vehicle : Vehicles, key : Keys, start : Nat, end : Nat, day : Nat]
Rule      == [created : BOOLEAN, baseKm : Nat, baseDay : Nat]
Execution == [rule : Rules, km : Nat, day : Nat, at : Nat]
Alert     == [status : {"absent", "open", "resolved"}, severity : Severities]
Reply     == [code : {"none", "ok", "rejected", "error", "lost"},
              record : Requests \cup {NoRequest}]

NoAlert == [status |-> "absent", severity |-> "none"]
NoEvent == [type |-> "none", alert |-> NoRequest, severity |-> "none"]
NoReply == [code |-> "none", record |-> NoRequest]
NoRule  == [created |-> FALSE, baseKm |-> 0, baseDay |-> 0]

Event == {NoEvent} \cup
         [type : {"created", "updated", "resolved"}, alert : Requests, severity : Severities]

(* Every row and every private copy has the shape its handler gives it; an    *)
(* event that was written names the alert it is about.                        *)
TypeOK ==
  /\ today \in Nat
  /\ odometer \in [Vehicles -> Nat]
  /\ records \subseteq Record
  /\ rules \in [Rules -> Rule]
  /\ executions \subseteq Execution
  /\ alerts \in [Rules -> [Requests -> Alert]]
  /\ events \in [Requests -> [Rules -> Event]]
  /\ locked \in [Vehicles -> Requests \cup {NoRequest}]
  /\ sharing \in [Vehicles -> SUBSET Requests]
  /\ pc \in [Requests -> {"idle", "lock", "insert", "evaluate", "done"}]
  /\ op \in [Requests -> Inputs]
  /\ began \in [Requests -> Nat]
  /\ seen \in [Requests -> [Vehicles -> Nat]]
  /\ evalDay \in [Requests -> Nat]
  /\ fleet \in [Requests -> SUBSET Vehicles]
  /\ todo \in [Requests -> SUBSET Rules]
  /\ cycle \in [Requests -> [Rules -> Severities \cup {"unread"}]]
  /\ plan \in [Requests -> [Rules -> Event]]
  /\ reply \in [Requests -> Reply]

Init ==
  /\ today = 0
  /\ odometer = StartKm
  /\ records = {}
  /\ rules = [r \in Rules |->
                IF r \in FirstRules
                THEN [created |-> TRUE, baseKm |-> StartKm[RuleSpec[r].vehicle], baseDay |-> 0]
                ELSE NoRule]
  /\ executions = {}
  /\ alerts = [r \in Rules |-> [t \in Requests |-> NoAlert]]
  /\ events = [t \in Requests |-> [r \in Rules |-> NoEvent]]
  /\ locked = [v \in Vehicles |-> NoRequest]
  /\ sharing = [v \in Vehicles |-> {}]
  /\ pc = [t \in Requests |-> "idle"]
  /\ op = [t \in Requests |-> CHOOSE o \in Inputs : TRUE]
  /\ began = [t \in Requests |-> 0]
  /\ seen = [t \in Requests |-> StartKm]
  /\ evalDay = [t \in Requests |-> 0]
  /\ fleet = [t \in Requests |-> {}]
  /\ todo = [t \in Requests |-> {}]
  /\ cycle = [t \in Requests |-> [r \in Rules |-> "unread"]]
  /\ plan = [t \in Requests |-> [r \in Rules |-> NoEvent]]
  /\ reply = [t \in Requests |-> NoReply]

-----------------------------------------------------------------------------
(* maintenance.evaluate_maintenance *)

(* The rows request t sees: what is committed and what it inserted itself. *)
VisibleRule(t, r) ==
  IF op[t].type = "rule" /\ op[t].rule = r
  THEN [created |-> TRUE, baseKm |-> seen[t][RuleSpec[r].vehicle], baseDay |-> evalDay[t]]
  ELSE rules[r]

OwnExecution(t) ==
  [rule |-> op[t].rule, km |-> op[t].km, day |-> op[t].day, at |-> began[t]]

VisibleExecutions(t) ==
  IF op[t].type = "execution" THEN executions \cup {OwnExecution(t)} ELSE executions

(* Operators whose comment begins with "Mutant" are wrong on purpose: putting *)
(* one in the place of the definition that follows it must break a property.  *)

(* Mutant: the closing evaluates before it assigns the odometer. *)
EvaluationKmBeforeAssignment(t, v) == seen[t][v]

(* The odometer the evaluation uses: a closing has already set it on its own *)
(* copy of the vehicle, the other handlers use the one they read.            *)
EvaluationKm(t, v) == IF op[t].type = "closing" THEN op[t].km ELSE seen[t][v]

(* order_by(performed_at desc, created_at desc); created_at is the start of  *)
(* the transaction.                                                          *)
Latest(S) == CHOOSE e \in S : \A f \in S : f.day < e.day \/ (f.day = e.day /\ f.at <= e.at)

KmSeverity(spec, baseKm, km) ==
  IF spec.intervalKm = 0 THEN "none"
  ELSE CASE km >= baseKm + spec.intervalKm -> "critical"
         [] OTHER -> IF km + spec.warningKm >= baseKm + spec.intervalKm THEN "warning" ELSE "none"

DaySeverity(spec, baseDay, day) ==
  IF spec.intervalDays = 0 THEN "none"
  ELSE CASE day >= baseDay + spec.intervalDays -> "critical"
         [] OTHER -> IF day + spec.warningDays >= baseDay + spec.intervalDays THEN "warning" ELSE "none"

(* An overdue date overrides the distance; a date near its end only counts *)
(* when the distance raises nothing.                                       *)
Severity(spec, base, km, day) ==
  LET byKm  == KmSeverity(spec, base.km, km)
      byDay == DaySeverity(spec, base.day, day)
  IN  IF byDay = "critical" \/ byKm = "none" THEN byDay ELSE byKm

(* Where the current cycle of rule r starts, for request t. *)
Base(t, r) ==
  LET S == {e \in VisibleExecutions(t) : e.rule = r}
  IN  IF S = {} THEN [km |-> VisibleRule(t, r).baseKm, day |-> VisibleRule(t, r).baseDay]
      ELSE [km |-> Latest(S).km, day |-> Latest(S).day]

SeverityFor(t, r) ==
  Severity(RuleSpec[r], Base(t, r), EvaluationKm(t, RuleSpec[r].vehicle), evalDay[t])

OpenAlerts(r) == {u \in Requests : alerts[r][u].status = "open"}

(* The select of the vehicle's active rules. *)
LoadRules(t, v) ==
  /\ pc[t] = "evaluate" /\ todo[t] = {} /\ v \in fleet[t]
  /\ fleet' = [fleet EXCEPT ![t] = @ \ {v}]
  /\ todo' = [todo EXCEPT ![t] = {r \in Rules : RuleSpec[r].vehicle = v /\ VisibleRule(t, r).created}]
  /\ UNCHANGED <<today, tables, locks, pc, op, began, seen, evalDay, cycle, plan, reply>>

(* Mutant: the event reads the new alert's identifier before the flush. *)
DecisionBeforeFlush(t, r, u, s) ==
  IF u = NoRequest /\ s # "none"
  THEN [type |-> "created", alert |-> NoRequest, severity |-> s] ELSE NoEvent

(* One turn of the loop, for a rule that calls for severity s.  u is the open *)
(* alert db.scalar returns: any of them when there are several.               *)
Decision(t, r, u, s) ==
  CASE u = NoRequest /\ s # "none" -> [type |-> "created", alert |-> t, severity |-> s]
    [] u # NoRequest /\ s = "none" ->
         [type |-> "resolved", alert |-> u, severity |-> alerts[r][u].severity]
    [] u # NoRequest /\ s \notin {"none", alerts[r][u].severity} ->
         [type |-> "updated", alert |-> u, severity |-> s]
    [] OTHER -> NoEvent

(* Two foreign keys matter: inserting a rule, an execution or an alert takes  *)
(* FOR KEY SHARE on the vehicle's row, so it waits for a closing that holds    *)
(* the row FOR UPDATE, and a closing waits for it.                             *)
ShareRow(t, v) ==
  /\ locked[v] \in {NoRequest, t}
  /\ sharing' = [sharing EXCEPT ![v] = @ \cup {t}]

(* A new alert is flushed at once: its rule stays in todo until the row is     *)
(* inserted.                                                                   *)
Flushing(t) == {r \in todo[t] : plan[t][r].type = "created"}

(* The latest execution is read first, and with the odometer and the date the  *)
(* request has it gives the severity; others may commit before the next read.  *)
ReadCycle(t, r) ==
  /\ pc[t] = "evaluate" /\ r \in todo[t] /\ Flushing(t) = {}
  /\ \A q \in Rules : cycle[t][q] = "unread"
  /\ cycle' = [cycle EXCEPT ![t][r] = SeverityFor(t, r)]
  /\ UNCHANGED <<today, tables, locks, pc, op, began, seen, evalDay, fleet, todo, plan, reply>>

(* Then the open alert. *)
EvaluateRule(t, r) ==
  /\ pc[t] = "evaluate" /\ r \in todo[t] /\ Flushing(t) = {}
  /\ cycle[t][r] # "unread"
  /\ \E u \in IF OpenAlerts(r) = {} THEN {NoRequest} ELSE OpenAlerts(r) :
       LET w == Decision(t, r, u, cycle[t][r])
       IN  /\ plan' = [plan EXCEPT ![t][r] = w]
           /\ todo' = IF w.type = "created" THEN todo ELSE [todo EXCEPT ![t] = @ \ {r}]
  /\ cycle' = [cycle EXCEPT ![t][r] = "unread"]
  /\ UNCHANGED <<today, tables, locks, pc, op, began, seen, evalDay, fleet, reply>>

FlushAlert(t, r) ==
  /\ pc[t] = "evaluate" /\ r \in Flushing(t)
  /\ ShareRow(t, RuleSpec[r].vehicle)
  /\ todo' = [todo EXCEPT ![t] = @ \ {r}]
  /\ UNCHANGED <<today, tables, locked, pc, op, began, seen, evalDay, fleet, cycle, plan, reply>>

-----------------------------------------------------------------------------
(* api.create_operation *)

Finish(t, code, record) ==
  /\ pc' = [pc EXCEPT ![t] = "done"]
  /\ reply' = [reply EXCEPT ![t] = [code |-> code, record |-> record]]

(* The first statement of a request starts its transaction. *)
Start(t, o) ==
  /\ pc[t] = "idle"
  /\ op' = [op EXCEPT ![t] = o]
  /\ began' = [began EXCEPT ![t] = Cardinality({u \in Requests : pc[u] # "idle"})]

SameClosing(rec, o) == rec.key = o.key

(* The handler looks the key up before it locks anything. *)
ClosingCheckKey(t, o) ==
  /\ o.type = "closing"
  /\ Start(t, o)
  /\ \/ /\ \E rec \in records : SameClosing(rec, o) /\ Finish(t, "ok", rec.id)
     \/ /\ \A rec \in records : ~SameClosing(rec, o)
        /\ pc' = [pc EXCEPT ![t] = "lock"]
        /\ UNCHANGED reply
  /\ UNCHANGED <<today, tables, locks, seen, evalDay, fleet, todo, cycle, plan>>

(* Mutant: the vehicle is read without FOR UPDATE. *)
RowIsRead(v) == TRUE

RowIsFree(v) == locked[v] = NoRequest /\ sharing[v] = {}

(* A fuel cost is needed once the vehicle has moved. *)
Accepted(t) ==
  LET v == op[t].vehicle
  IN  /\ v \in ActiveVehicles
      /\ op[t].km >= odometer[v]
      /\ op[t].priced \/ op[t].km = odometer[v]

(* SELECT ... FOR UPDATE, then the checks made on the row it returns. *)
ClosingLock(t) ==
  LET v == op[t].vehicle
  IN  /\ pc[t] = "lock" /\ RowIsFree(v)
      /\ \/ /\ ~Accepted(t)
            /\ Finish(t, "rejected", NoRequest)
            /\ UNCHANGED <<locked, seen>>
         \/ /\ Accepted(t)
            /\ locked' = [locked EXCEPT ![v] = t]
            /\ seen' = [seen EXCEPT ![t][v] = odometer[v]]
            /\ pc' = [pc EXCEPT ![t] = "insert"]
            /\ UNCHANGED reply
      /\ UNCHANGED <<today, tables, sharing, op, began, evalDay, fleet, todo, cycle, plan>>

Inserted(t) == op[t].type = "closing" /\ pc[t] = "evaluate"

(* Mutant: the session ends without ending its transaction. *)
KeepLocks(t) == UNCHANGED locks

ReleaseLocks(t) ==
  /\ locked' = [v \in Vehicles |-> IF locked[v] = t THEN NoRequest ELSE locked[v]]
  /\ sharing' = [v \in Vehicles |-> sharing[v] \ {t}]

(* The session is closed and nothing of it remains. *)
CloseSession(t) ==
  /\ seen' = [seen EXCEPT ![t] = StartKm]
  /\ evalDay' = [evalDay EXCEPT ![t] = 0]
  /\ fleet' = [fleet EXCEPT ![t] = {}]
  /\ todo' = [todo EXCEPT ![t] = {}]
  /\ cycle' = [cycle EXCEPT ![t] = [r \in Rules |-> "unread"]]
  /\ plan' = [plan EXCEPT ![t] = [r \in Rules |-> NoEvent]]
  /\ ReleaseLocks(t)

(* Mutant: the table has no unique index on the key. *)
KeyIsNotUnique(t) == FALSE

KeyIsTaken(t) == \E rec \in records : rec.key = op[t].key

(* The flush of the new record: the unique index on organisation and key      *)
(* makes it wait for an uncommitted insert of the same key, and fail when the *)
(* key is committed.  Nothing in the handler catches that failure.            *)
ClosingInsert(t) ==
  /\ pc[t] = "insert" /\ op[t].type = "closing"
  /\ \A u \in Requests : Inserted(u) => op[u].key # op[t].key
  /\ \/ /\ KeyIsTaken(t)
        /\ Finish(t, "error", NoRequest)
        /\ CloseSession(t)
     \/ /\ ~KeyIsTaken(t)
        /\ pc' = [pc EXCEPT ![t] = "evaluate"]
        /\ evalDay' = [evalDay EXCEPT ![t] = op[t].day]
        /\ fleet' = [fleet EXCEPT ![t] = {op[t].vehicle}]
        /\ UNCHANGED <<locks, reply, seen, todo, cycle, plan>>
  /\ UNCHANGED <<today, tables, op, began>>

NewRecord(t) ==
  [id |-> t, vehicle |-> op[t].vehicle, key |-> op[t].key,
   start |-> seen[t][op[t].vehicle], end |-> op[t].km, day |-> op[t].day]

-----------------------------------------------------------------------------
(* api.create_maintenance_rule: the vehicle is read without a lock, and only   *)
(* then is the rule inserted, which may wait.                                  *)
RuleStart(t, o) ==
  /\ o.type = "rule"
  /\ ~rules[o.rule].created
  /\ \A u \in Requests : op[u].type = "rule" /\ pc[u] \in {"insert", "evaluate"} => op[u].rule # o.rule
  /\ Start(t, o)
  /\ pc' = [pc EXCEPT ![t] = "insert"]
  /\ seen' = [seen EXCEPT ![t][RuleSpec[o.rule].vehicle] = odometer[RuleSpec[o.rule].vehicle]]
  /\ evalDay' = [evalDay EXCEPT ![t] = today]
  /\ fleet' = [fleet EXCEPT ![t] = {RuleSpec[o.rule].vehicle}]
  /\ UNCHANGED <<today, tables, locks, todo, cycle, plan, reply>>

(* api.create_maintenance_execution: no lock either, and the evaluation uses *)
(* the date the client sent.                                                 *)
ExecutionStart(t, o) ==
  LET v == RuleSpec[o.rule].vehicle
      accepted == rules[o.rule].created /\ o.km <= odometer[v]
  IN  /\ o.type = "execution"
      /\ Start(t, o)
      /\ \/ /\ ~accepted
            /\ Finish(t, "rejected", NoRequest)
            /\ UNCHANGED <<seen, evalDay, fleet>>
         \/ /\ accepted
            /\ pc' = [pc EXCEPT ![t] = "insert"]
            /\ seen' = [seen EXCEPT ![t][v] = odometer[v]]
            /\ evalDay' = [evalDay EXCEPT ![t] = o.day]
            /\ fleet' = [fleet EXCEPT ![t] = {v}]
            /\ UNCHANGED reply
      /\ UNCHANGED <<today, tables, locks, todo, cycle, plan>>

(* The flush of the new rule or execution. *)
ChildInsert(t) ==
  /\ pc[t] = "insert" /\ op[t].type \in {"rule", "execution"}
  /\ ShareRow(t, RuleSpec[op[t].rule].vehicle)
  /\ pc' = [pc EXCEPT ![t] = "evaluate"]
  /\ UNCHANGED <<today, tables, locked, private>>

(* api.list_maintenance_alerts: a GET that evaluates every active vehicle. *)
ListStart(t, o) ==
  /\ o.type = "list"
  /\ Start(t, o)
  /\ pc' = [pc EXCEPT ![t] = "evaluate"]
  /\ seen' = [seen EXCEPT ![t] = odometer]
  /\ evalDay' = [evalDay EXCEPT ![t] = today]
  /\ fleet' = [fleet EXCEPT ![t] = ActiveVehicles]
  /\ UNCHANGED <<today, tables, locks, todo, cycle, plan, reply>>

-----------------------------------------------------------------------------
(* db.commit() at the end of each handler. *)

(* Mutant: resolving an alert clears its severity. *)
AlertAfterCleared(w, u, a) ==
  IF w.type = "none" \/ w.alert # u THEN a
  ELSE [status |-> IF w.type = "resolved" THEN "resolved" ELSE "open",
        severity |-> IF w.type = "resolved" THEN "none" ELSE w.severity]

(* Mutant: an update writes the status of the handler's stale copy as well. *)
AlertAfterReopened(w, u, a) ==
  IF w.type = "none" \/ w.alert # u THEN a
  ELSE [status |-> IF w.type = "resolved" THEN "resolved" ELSE "open", severity |-> w.severity]

(* The alert of rule r created by u after the UPDATE or INSERT that event w of *)
(* the transaction stands for.  The UPDATE writes only the columns the handler *)
(* changed, over whatever another transaction committed meanwhile.             *)
AlertAfter(w, u, a) ==
  IF w.type = "none" \/ w.alert # u THEN a
  ELSE CASE w.type = "created"  -> [status |-> "open", severity |-> w.severity]
         [] w.type = "updated"  -> [a EXCEPT !.severity = w.severity]
         [] OTHER               -> [a EXCEPT !.status = "resolved"]

Commit(t) ==
  /\ pc[t] = "evaluate" /\ fleet[t] = {} /\ todo[t] = {}
  /\ records' = IF op[t].type = "closing" THEN records \cup {NewRecord(t)} ELSE records
  /\ odometer' = IF op[t].type = "closing"
                 THEN [odometer EXCEPT ![op[t].vehicle] = op[t].km] ELSE odometer
  /\ rules' = IF op[t].type = "rule"
              THEN [rules EXCEPT ![op[t].rule] = VisibleRule(t, op[t].rule)] ELSE rules
  /\ executions' = VisibleExecutions(t)
  /\ alerts' = [r \in Rules |-> [u \in Requests |-> AlertAfter(plan[t][r], u, alerts[r][u])]]
  /\ events' = [events EXCEPT ![t] = plan[t]]
  /\ Finish(t, "ok", IF op[t].type = "closing" THEN t ELSE NoRequest)
  /\ CloseSession(t)
  /\ UNCHANGED <<today, op, began>>

(* The server dies, the connection is lost or the database cancels the        *)
(* statement: the transaction is rolled back and the client gets no record.   *)
Abort(t) ==
  /\ pc[t] \in {"lock", "insert", "evaluate"}
  /\ Finish(t, "lost", NoRequest)
  /\ CloseSession(t)
  /\ UNCHANGED <<today, tables, op, began>>

NextDay ==
  /\ today < MaxDay
  /\ today' = today + 1
  /\ UNCHANGED <<tables, locks, pc, private>>

Step(t) ==
  \/ ClosingLock(t)
  \/ ClosingInsert(t)
  \/ \E v \in Vehicles : LoadRules(t, v)
  \/ \E r \in Rules : ReadCycle(t, r) \/ EvaluateRule(t, r)
  \/ \E r \in Rules : FlushAlert(t, r)
  \/ ChildInsert(t)
  \/ Commit(t)

Arrive(t) ==
  \E o \in Inputs :
    \/ ClosingCheckKey(t, o)
    \/ RuleStart(t, o)
    \/ ExecutionStart(t, o)
    \/ ListStart(t, o)

Next ==
  \/ \E t \in Requests : Arrive(t) \/ Step(t) \/ Abort(t)
  \/ NextDay

Spec == Init /\ [][Next]_vars

(* The server keeps executing the statements of a request it accepted. *)
Fairness == \A t \in Requests : WF_vars(Step(t))

FairSpec == Spec /\ Fairness

-----------------------------------------------------------------------------
(* Closings *)

Covers(rec, v, km) == rec.vehicle = v /\ rec.start <= km /\ km < rec.end

(* Every kilometre between the registration of a vehicle and its odometer     *)
(* belongs to exactly one committed closing and none beyond it does: closings *)
(* of one vehicle neither overlap nor leave a gap, whatever interleaves with  *)
(* the row lock of create_operation, retries and aborted requests.            *)
EveryKilometreClosedOnce ==
  \A v \in Vehicles :
    /\ StartKm[v] <= odometer[v]
    /\ \A km \in StartKm[v] .. odometer[v] - 1 :
         \E rec \in records : Covers(rec, v, km) /\ \A other \in records : Covers(other, v, km) => other = rec
    /\ \A rec \in records : rec.vehicle = v => StartKm[v] <= rec.start /\ rec.end <= odometer[v]

(* A retried or concurrent closing with a known key never adds a second row:  *)
(* the check made before the lock is not enough, the unique index decides.    *)
OneRecordPerKey == \A a, b \in records : a.key = b.key => a = b

(* No committed transaction moves an odometer backwards, and a committed       *)
(* closing is never changed or removed.                                        *)
LedgerOnlyGrows ==
  [][/\ records \subseteq records'
     /\ \A v \in Vehicles : odometer[v] <= odometer'[v]]_vars

(* Seen from outside, the concurrent handlers are the indivisible ledger: the *)
(* checks made before the lock, at the flush and at the commit still hold when *)
(* the row becomes visible.                                                    *)
Abstract ==
  INSTANCE Ledger WITH Requests <- Requests, Vehicles <- Vehicles, Keys <- Keys, StartKm <- StartKm,
                       odometer <- odometer, records <- records
ImplementsLedger == Abstract!Spec

(* A closing that is waiting for its vehicle or its key is answered: locks are *)
(* released on every way out of the handler.                                   *)
EveryRequestAnswered == \A t \in Requests : pc[t] \in {"lock", "insert"} ~> pc[t] = "done"

(* What makes those true.  A closing past its lock owns the row, so the       *)
(* odometer it read is still the committed one when it commits; past its flush *)
(* it owns its key; and only finished requests have rows.                     *)
LockedReadIsCurrent ==
  \A t \in Requests :
    op[t].type = "closing" /\ pc[t] \in {"insert", "evaluate"} =>
      LET v == op[t].vehicle
      IN  locked[v] = t /\ seen[t][v] = odometer[v] /\ odometer[v] <= op[t].km

KeyIsReserved ==
  \A t \in Requests : Inserted(t) =>
    /\ \A rec \in records : rec.key # op[t].key
    /\ \A u \in Requests : Inserted(u) /\ op[u].key = op[t].key => u = t

RowsOfFinishedRequests == \A rec \in records : pc[rec.id] = "done"

-----------------------------------------------------------------------------
(* Alerts *)

(* The outbox tells everything the alerts say: a row exists exactly when its  *)
(* creation was announced, is resolved exactly when its resolution was, and   *)
(* its severity is one that was announced, although concurrent handlers write *)
(* the same row from stale copies of it.                                      *)
AlertsAnnounced ==
  \A r \in Rules, u \in Requests :
    LET about == {events[t][r] : t \in {x \in Requests : events[x][r].alert = u}}
        a == alerts[r][u]
    IN  /\ a.status # "absent" <=> events[u][r].type = "created"
        /\ a.status = "resolved" <=> \E e \in about : e.type = "resolved"
        /\ a.status # "absent" => \E e \in about : e.type # "resolved" /\ e.severity = a.severity

(* An alert that was resolved is never opened again: a later cycle gets an    *)
(* alert of its own.                                                          *)
ResolvedStaysResolved ==
  [][\A r \in Rules, u \in Requests :
       alerts[r][u].status = "resolved" => alerts'[r][u].status = "resolved"]_vars

(* Two closings never leave two open alerts for one rule: they evaluate while *)
(* holding the vehicle's row, so the second sees the alert of the first.  And *)
(* as long as only closings have run, the open alert of a rule by distance is *)
(* the one its odometer calls for whenever nobody holds the vehicle.          *)
ClosingsKeepAlertsExact ==
  \A r \in Rules :
    LET v == RuleSpec[r].vehicle
        due == KmSeverity(RuleSpec[r], rules[r].baseKm, odometer[v])
    IN  /\ \A t, u \in OpenAlerts(r) : op[t].type = "closing" /\ op[u].type = "closing" => t = u
        /\ /\ RuleSpec[r].intervalDays = 0 /\ rules[r].created
           /\ \A t \in Requests : pc[t] # "idle" => op[t].type = "closing"
           /\ \E rec \in records : rec.vehicle = v
           => {alerts[r][u].severity : u \in OpenAlerts(r)} = {due} \ {"none"}

(* What the acceptance tests state: a rule that is due has one open alert.    *)
OneOpenAlertPerRule == \A r \in Rules : Cardinality(OpenAlerts(r)) <= 1
=============================================================================
