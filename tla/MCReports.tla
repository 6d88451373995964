----------------------------- MODULE MCReports ------------------------------
(* Instances of Reports for TLC. *)
EXTENDS Reports, TLC

CONSTANTS v1, v2, w1

Closing(v, day, km, revenue, fuel) ==
  [kind |-> "closing", vehicle |-> v, day |-> day, km |-> km, revenue |-> revenue, fuel |-> fuel]
Expense(v, day, amount) == [kind |-> "expense", vehicle |-> v, day |-> day, amount |-> amount]
Rule(v, cost, interval) == [kind |-> "rule", vehicle |-> v, cost |-> cost, interval |-> interval]
Profit(v, from, to)     == [kind |-> "profitability", vehicle |-> v, from |-> from, to |-> to]
Monthly(day)            == [kind |-> "monthly", reference |-> day]
Sample(day)             == [kind |-> "sampling", reference |-> day]

(* Day 4 is in a week that begins in the month before; day 3 ends that month.   *)
(* Vehicle v2 has no consumption; w1 is of another organisation.                *)
FourScenarios ==
  {<<Closing(v1, 4, 7, 20, 3), Rule(v1, 3, 7), Expense(NoVehicle, 4, 1),
     Closing(v1, 3, 9, 5, 0), Expense(v1, 3, 2), Sample(4)>>,
   <<Closing(v1, 2, 5, 30, 0), Rule(v1, 5, 2), Expense(v1, 3, 4),
     Closing(v2, 3, 2, 9, 4), Monthly(2), Profit(v1, 1, 3), Profit(v2, 1, 3)>>,
   <<Closing(v1, 1, 3, 2, 0), Rule(v2, 5, 2), Closing(v2, 3, 1, 8, 1),
     Expense(NoVehicle, 2, 6), Monthly(0), Sample(3)>>,
   <<Closing(v2, 2, 4, 9, 0), Expense(w1, 2, 1), Rule(w1, 1, 1), Expense(v1, 2, 3),
     Closing(w1, 1, 1, 1, 1), Profit(w1, 1, 3), Profit(v1, 3, 1), Sample(0)>>}

OnlyTheFirst == (v1 :> 3) @@ (v2 :> 0)
=============================================================================
