------------------------------ MODULE MCOutbox ------------------------------
(* Instances of Outbox for TLC. *)
EXTENDS Outbox

CONSTANTS created, updated

(* Two events of one alert: its creation and, from a later transaction, its *)
(* update.                                                                   *)
Begins == [e \in Events |-> IF e = updated THEN 1 ELSE 0]
=============================================================================
