------------------------------ MODULE MCFleet ------------------------------
(* Instances of Fleet for TLC. *)
EXTENDS Fleet, TLC

CONSTANTS v1, v2, oil, tyres, k1, k2

Symmetry == Permutations(Requests)

FirstKm == [v \in Vehicles |-> 1]

Closing(v, k, km, d, p) ==
  [type |-> "closing", vehicle |-> v, rule |-> oil, key |-> k, km |-> km, day |-> d, priced |-> p]

ForRule(type, r, km, d) ==
  [type |-> type, vehicle |-> v1, rule |-> r, key |-> k1, km |-> km, day |-> d, priced |-> TRUE]

(* Closings of two vehicles that share two keys: retries of one closing, the  *)
(* same key for both vehicles, an odometer that goes back, a closing whose    *)
(* fuel cost cannot be computed, a vehicle that is not active.                *)
LedgerInputs ==
  {Closing(v1, k1, 2, 0, TRUE), Closing(v1, k2, 3, 0, TRUE), Closing(v2, k1, 2, 0, TRUE)}
  \cup {Closing(v1, k2, 0, 0, TRUE), Closing(v1, k2, 3, 0, FALSE), Closing(v2, k2, 2, 0, TRUE)}

LedgerSpec ==
  [r \in Rules |-> [vehicle |-> v1, intervalKm |-> 2, intervalDays |-> 0,
                    warningKm |-> 1, warningDays |-> 0]]

(* One vehicle with a rule by distance and a rule by distance and date; dates *)
(* sent by the client may lie before or after the server's date.              *)
AlertInputs ==
  {Closing(v1, k1, 2, 0, TRUE), Closing(v1, k2, 3, 1, TRUE)}
  \cup {ForRule("execution", oil, 2, 0), ForRule("execution", tyres, 1, 1)}
  \cup {ForRule("rule", tyres, 0, 0), ForRule("list", oil, 0, 0)}

AlertSpec ==
  [r \in Rules |->
     IF r = oil THEN [vehicle |-> v1, intervalKm |-> 2, intervalDays |-> 0,
                      warningKm |-> 1, warningDays |-> 0]
     ELSE [vehicle |-> v1, intervalKm |-> 3, intervalDays |-> 1,
           warningKm |-> 1, warningDays |-> 0]]
=============================================================================
