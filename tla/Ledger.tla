------------------------------- MODULE Ledger -------------------------------
(***************************************************************************)
(* What create_operation promises, without transactions, locks or retries: *)
(* a vehicle has an odometer, and one indivisible step closes the stretch  *)
(* from that odometer to a reading that is not behind it, under a key      *)
(* nobody has used.  The rest of the system does not touch either.         *)
(***************************************************************************)
EXTENDS Naturals

CONSTANTS Requests, Vehicles, Keys, StartKm

VARIABLES odometer, records

ledger == <<odometer, records>>

LedgerRecord ==
  [id : Requests, vehicle : Vehicles, key : Keys, start : Nat, end : Nat, day : Nat]

Init == odometer = StartKm /\ records = {}

Close(rec) ==
  /\ rec.start = odometer[rec.vehicle]
  /\ rec.end >= rec.start
  /\ \A old \in records : old.key # rec.key /\ old.id # rec.id
  /\ records' = records \cup {rec}
  /\ odometer' = [odometer EXCEPT ![rec.vehicle] = rec.end]

(* The new row is the one the step adds; naming it through records' keeps the *)
(* relation free of an infinite choice.                                       *)
Next == \E rec \in records' : rec \in LedgerRecord /\ Close(rec)

Spec == Init /\ [][Next]_ledger
=============================================================================
