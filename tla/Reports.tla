------------------------------ MODULE Reports ------------------------------
(***************************************************************************)
(* The money of one organisation: what a daily closing and an expense      *)
(* store, and the three reports that add it up.  Each SELECT of a report   *)
(* is a step of its own, since at READ COMMITTED it sees what has been     *)
(* committed by then.  A closing and a new rule are one step each: the     *)
(* lock on the row of the vehicle keeps everything a closing reads as it   *)
(* is until the closing commits (Fleet has their steps).                   *)
(***************************************************************************)
EXTENDS Integers, Sequences, FiniteSetsExt

CONSTANTS
  Scenarios,    \* what the requests of a behaviour ask for, a sequence each
  Vehicles,
  NoVehicle,    \* vehicle_id null: an expense of the whole organisation
  Consumption,  \* average_consumption of each vehicle in km/l, 0 for null
  Price,        \* base_fuel_price_per_liter, in cents
  MonthStarts, Mondays,
  MaxDay        \* bound of the calendar

Days == 1 .. MaxDay

(* What the schemas accept: no negative amount, no rule for every 0 km.  A fuel *)
(* cost or a reference date of 0 is one the client has not sent.               *)
Valid(i) ==
  /\ i.kind = "closing"       => i.day \in Days /\ {i.km, i.revenue, i.fuel} \subseteq Nat
  /\ i.kind = "expense"       => i.day \in Days /\ i.amount \in Nat
  /\ i.kind = "rule"          => i.cost \in Nat /\ i.interval \in Nat \ {0}
  /\ i.kind = "profitability" => i.from \in Days /\ i.to \in Days
  /\ i.kind \in {"monthly", "sampling"} => i.reference \in Days \cup {0}

ASSUME VehiclesAssumption ==
  IsFiniteSet(Vehicles) /\ NoVehicle \notin Vehicles /\ Consumption \in [Vehicles -> Nat] /\ Price \in Nat
ASSUME CalendarAssumption ==
  MaxDay \in Nat \ {0} /\ MonthStarts \cup Mondays \subseteq Nat /\ 1 \in MonthStarts \cap Mondays
ASSUME ScenariosAssumption == \A s \in Scenarios : IsFiniteSet(DOMAIN s) /\ \A t \in DOMAIN s : Valid(s[t])

(* Money is in cents and shares are in hundredths of a percent. *)
VARIABLES
  closings, expenses, rules, odometer, \* what is committed
  today,      \* date.today() of the server
  input,      \* what each request asks for
  pc,
  reference,  \* the day a report is about
  answer,     \* what the statements of a report have returned so far
  read        \* for the properties: how many rows there were, if none of them saw more

vars == <<closings, expenses, rules, odometer, today, input, pc, reference, answer, read>>

Requests == DOMAIN input

Init ==
  /\ input \in Scenarios
  /\ closings = {} /\ expenses = {} /\ rules = {}
  /\ odometer = [v \in Vehicles |-> 0]
  /\ today = 1
  /\ pc = [t \in Requests |-> "idle"]
  /\ reference = [t \in Requests |-> 0]
  /\ answer = [t \in Requests |-> <<>>]
  /\ read = [t \in Requests |-> {}]

(* The types; distances and expenses are never negative, profits may be.       *)
TypeOK ==
  /\ \A c \in closings : c.vehicle \in Vehicles /\ c.distance \in Nat /\ c.net \in Int
  /\ \A e \in expenses : e.vehicle \in Vehicles \cup {NoVehicle} /\ e.amount \in Nat
  /\ \A r \in rules : r.vehicle \in Vehicles
  /\ odometer \in [Vehicles -> Nat] /\ today \in 1 .. MaxDay
  /\ pc \in [Requests -> {"idle", "reading", "answered", "refused", "written"}]
  /\ reference \in [Requests -> 0 .. MaxDay]
  /\ \A t \in Requests : answer[t] # <<>> => pc[t] \in {"reading", "answered"}

(* Operators whose comment begins with "Mutant" are wrong on purpose: putting  *)
(* one in the place of the definition that follows it must break a property.   *)

-----------------------------------------------------------------------------
(* Amounts *)

(* Mutant: the rest is cut off. *)
Truncated(n, d) == n \div d

(* quantize(Decimal("0.01")) of n / d, half to even.  The quotient has 28       *)
(* digits in the code and is exact here, the same unless those end in a tie.   *)
Quantized(n, d) ==
  LET q == n \div d
      r == n % d
  IN  IF 2 * r > d \/ (2 * r = d /\ q % 2 = 1) THEN q + 1 ELSE q

(* An informed cost counts unless it is 0; a vehicle that stood still needs none. *)
FuelCost(v, distance, informed) ==
  IF informed > 0 THEN informed
  ELSE IF distance = 0 THEN 0 ELSE Quantized(distance * Price, Consumption[v])

(* maintenance_reserve_per_km, a sum of fractions, times the distance. *)
ReserveOf(v, distance) ==
  LET of   == {r \in rules : r.vehicle = v}
      rate == FoldSet(LAMBDA r, a : <<a[1] * r.interval + r.cost * a[2], a[2] * r.interval>>, <<0, 1>>, of)
  IN  Quantized(distance * rate[1], rate[2])

(* Mutant: the profit is computed without the reserve. *)
ProfitBeforeReserve(revenue, fuel, reserve) == revenue - fuel

NetProfit(revenue, fuel, reserve) == revenue - fuel - reserve

-----------------------------------------------------------------------------
(* Writers *)

Finish(t, code) == pc' = [pc EXCEPT ![t] = code]

(* What a handler refuses before it writes or reads any amount. *)
Refused(t) ==
  LET i == input[t] IN
  CASE i.kind = "closing" ->
         i.vehicle \in Vehicles =>
           \/ i.km < odometer[i.vehicle]
           \/ i.fuel = 0 /\ i.km > odometer[i.vehicle] /\ Consumption[i.vehicle] = 0
    [] i.kind = "expense"       -> i.vehicle \notin Vehicles \cup {NoVehicle}
    [] i.kind = "rule"          -> i.vehicle \notin Vehicles
    [] i.kind = "profitability" -> i.to < i.from \/ i.vehicle \notin Vehicles
    [] OTHER                    -> FALSE

Refuse(t) ==
  /\ pc[t] = "idle" /\ Refused(t)
  /\ Finish(t, "refused")
  /\ UNCHANGED <<closings, expenses, rules, odometer, today, input, reference, answer, read>>

(* create_operation *)
Close(t) ==
  LET i        == input[t]
      distance == i.km - odometer[i.vehicle]
      fuel     == FuelCost(i.vehicle, distance, i.fuel)
      reserve  == ReserveOf(i.vehicle, distance)
  IN /\ pc[t] = "idle" /\ i.kind = "closing" /\ ~Refused(t)
     /\ closings' = closings \cup
          {[id |-> t, vehicle |-> i.vehicle, day |-> i.day, distance |-> distance, revenue |-> i.revenue,
            fuel |-> fuel, reserve |-> reserve, net |-> NetProfit(i.revenue, fuel, reserve)]}
     /\ odometer' = [odometer EXCEPT ![i.vehicle] = i.km]
     /\ Finish(t, "written")
     /\ UNCHANGED <<expenses, rules, today, input, reference, answer, read>>

(* create_expense *)
Spend(t) ==
  /\ pc[t] = "idle" /\ input[t].kind = "expense" /\ ~Refused(t)
  /\ expenses' = expenses \cup
       {[id |-> t, vehicle |-> input[t].vehicle, day |-> input[t].day, amount |-> input[t].amount]}
  /\ Finish(t, "written")
  /\ UNCHANGED <<closings, rules, odometer, today, input, reference, answer, read>>

(* create_maintenance_rule, for a rule that counts kilometres *)
AddRule(t) ==
  /\ pc[t] = "idle" /\ input[t].kind = "rule" /\ ~Refused(t)
  /\ rules' = rules \cup
       {[id |-> t, vehicle |-> input[t].vehicle, cost |-> input[t].cost, interval |-> input[t].interval]}
  /\ Finish(t, "written")
  /\ UNCHANGED <<closings, expenses, odometer, today, input, reference, answer, read>>

-----------------------------------------------------------------------------
(* Reports *)

Reports == {"profitability", "monthly", "sampling"}
Names  == {"day", "week", "month"}
Window(from, to) == [from |-> from, to |-> to]
In(row, w)       == w.from <= row.day /\ row.day <= w.to

MonthOf(d) ==
  Window(Max({s \in MonthStarts : s <= d}), Min({s - 1 : s \in {s \in MonthStarts : s > d}} \cup {MaxDay}))

(* The sums of one SELECT over operational_records, and of one over expenses. *)
Operations(S, w) ==
  LET rows == {r \in closings : r.vehicle \in S /\ In(r, w)} IN
  [distance |-> SumFunction([r \in rows |-> r.distance]),
   revenue  |-> SumFunction([r \in rows |-> r.revenue]),
   fuel     |-> SumFunction([r \in rows |-> r.fuel]),
   reserve  |-> SumFunction([r \in rows |-> r.reserve]),
   net      |-> SumFunction([r \in rows |-> r.net])]

Spent(S, w) ==
  LET rows == {e \in expenses : e.vehicle \in S /\ In(e, w)} IN SumFunction([e \in rows |-> e.amount])

(* Day, week and month up to day d. *)
PeriodTo(d, name) ==
  [name |-> name, to |-> d,
   from |-> CASE name = "day"   -> d
              [] name = "week"  -> Max({s \in Mondays : s <= d})
              [] name = "month" -> MonthOf(d).from]

(* Mutant: the longest period first. *)
LongestFirst(d) ==
  <<PeriodTo(d, "month"), PeriodTo(d, "week"), PeriodTo(d, "day")>>

(* The order in which they are read. *)
Periods(d) ==
  <<PeriodTo(d, "day"), PeriodTo(d, "week"), PeriodTo(d, "month")>>

(* What the k-th statement of a report returns. *)
Statement(t, k) ==
  LET i == input[t]
      p == Periods(reference[t])[(k + 1) \div 2]
  IN CASE i.kind = "monthly"       -> Operations(Vehicles, MonthOf(reference[t]))
       [] i.kind = "profitability" -> IF k = 1 THEN Operations({i.vehicle}, Window(i.from, i.to))
                                               ELSE Spent({i.vehicle}, Window(i.from, i.to))
       [] i.kind = "sampling"      -> IF k % 2 = 1 THEN Operations(Vehicles, p)
                                               ELSE Spent(Vehicles \cup {NoVehicle}, p)

Statements(kind) == CASE kind = "monthly" -> 1 [] kind = "profitability" -> 2 [] kind = "sampling" -> 6

(* The day of reference is taken before the first statement. *)
Ask(t) ==
  /\ pc[t] = "idle" /\ input[t].kind \in Reports /\ ~Refused(t)
  /\ LET asked == IF input[t].kind = "profitability" THEN input[t].to ELSE input[t].reference IN
     reference' = [reference EXCEPT ![t] = IF asked = 0 THEN today ELSE asked]
  /\ Finish(t, "reading")
  /\ UNCHANGED <<closings, expenses, rules, odometer, today, input, answer, read>>

Select(t) ==
  LET k    == Len(answer[t]) + 1
      rows == Cardinality(closings) + Cardinality(expenses)
  IN
  /\ pc[t] = "reading"
  /\ answer' = [answer EXCEPT ![t] = Append(@, Statement(t, k))]
  /\ read' = [read EXCEPT ![t] = IF k = 1 \/ @ = {rows} THEN {rows} ELSE {}]
  /\ Finish(t, IF k = Statements(input[t].kind) THEN "answered" ELSE "reading")
  /\ UNCHANGED <<closings, expenses, rules, odometer, today, input, reference>>

Midnight ==
  /\ today < MaxDay /\ today' = today + 1
  /\ UNCHANGED <<closings, expenses, rules, odometer, input, pc, reference, answer, read>>

Over == (\A t \in Requests : pc[t] \notin {"idle", "reading"}) /\ UNCHANGED vars

Next ==
  \/ \E t \in Requests : Refuse(t) \/ Close(t) \/ Spend(t) \/ AddRule(t) \/ Ask(t) \/ Select(t)
  \/ Midnight
  \/ Over

Spec == Init /\ [][Next]_vars

-----------------------------------------------------------------------------
(* What the handlers make of the sums. *)

(* One period of the sampling: the sums and their shares of the total. *)
Period(t, name) ==
  LET k     == CHOOSE k \in 1 .. 3 : Periods(reference[t])[k].name = name
      costs == answer[t][2 * k - 1]
      other == answer[t][2 * k]
      total == costs.fuel + costs.reserve + other
      percent(value) == IF total = 0 THEN 0 ELSE Quantized(value * 10000, total)
  IN [from |-> Periods(reference[t])[k].from, fuel |-> costs.fuel, reserve |-> costs.reserve, other |-> other,
      total |-> total, shares |-> <<percent(costs.fuel), percent(costs.reserve), percent(other)>>]

(* The profitability of a vehicle. *)
Profitability(t) ==
  LET sums  == answer[t][1]
      other == answer[t][2]
      total == sums.fuel + other + sums.reserve
  IN [revenue |-> sums.revenue, fuel |-> sums.fuel, reserve |-> sums.reserve, other |-> other,
      total |-> total, net |-> sums.revenue - total]

Answered(kind) == {t \in Requests : input[t].kind = kind /\ pc[t] = "answered"}

-----------------------------------------------------------------------------
(* The day never shows more than the week or the month, nor the week more than *)
(* a month that contains it, though closings and expenses are committed        *)
(* between the six statements of a sampling: a period is read after the ones   *)
(* it contains.  (In the first days of a month it is the week that contains    *)
(* the month, is read before it, and may show less.)                           *)
SamplingNests ==
  \A t \in Answered("sampling") :
    LET day   == Period(t, "day")
        week  == Period(t, "week")
        month == Period(t, "month")
        AtMost(p, q) == p.fuel <= q.fuel /\ p.reserve <= q.reserve /\ p.other <= q.other /\ p.total <= q.total
    IN /\ AtMost(day, week) /\ AtMost(day, month)
       /\ month.from <= week.from => AtMost(week, month)

(* The three shares of a period, each rounded by itself, make up 100 percent   *)
(* but for the last digit; a period without costs has no shares.               *)
SharesAddUp ==
  \A t \in Answered("sampling") : \A p \in {Period(t, name) : name \in Names} :
    LET sum == p.shares[1] + p.shares[2] + p.shares[3] IN
    IF p.total = 0 THEN sum = 0 ELSE sum \in 9999 .. 10001

(* Reports of a month between which nothing was committed agree to the cent:   *)
(* the sum of the profits stored with the closings is that of the vehicles'    *)
(* profits, computed from sums, and of their other expenses, and the sampling  *)
(* of the last day shows the fuel and the reserve of the summary.  Costs stay  *)
(* what they were when the closing was made, whatever rules came later.        *)
ReportsAgree ==
  \A m \in Answered("monthly") :
    LET month == MonthOf(reference[m])
        Same(t) == read[t] = read[m]
        of == {t \in Answered("profitability") : Window(input[t].from, input[t].to) = month /\ Same(t)}
    IN /\ {input[t].vehicle : t \in of} = Vehicles /\ Cardinality(of) = Cardinality(Vehicles) =>
            /\ answer[m][1].revenue = SumFunction([t \in of |-> Profitability(t).revenue])
            /\ answer[m][1].fuel = SumFunction([t \in of |-> Profitability(t).fuel])
            /\ answer[m][1].reserve = SumFunction([t \in of |-> Profitability(t).reserve])
            /\ answer[m][1].net = SumFunction([t \in of |-> Profitability(t).net + Profitability(t).other])
       /\ \A t \in Answered("sampling") : reference[t] = month.to /\ Same(t) =>
            /\ Period(t, "month").fuel = answer[m][1].fuel
            /\ Period(t, "month").reserve = answer[m][1].reserve
=============================================================================
