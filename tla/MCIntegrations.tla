-------------------------- MODULE MCIntegrations --------------------------
(* Instances of Integrations for TLC. *)
EXTENDS Integrations, TLC

CONSTANTS v1, stranger, tank, consumption, low, high, p1

VehicleData(v, changes) == [type |-> "vehicle", vehicle |-> v, changes |-> changes]

(* A price, each field alone, the first one with either value, both fields,    *)
(* none, and a vehicle of another organisation.                                *)
SevenImports ==
  {[type |-> "fuel_price", price |-> p1],
   VehicleData(v1, tank :> low), VehicleData(v1, tank :> high), VehicleData(v1, consumption :> high),
   VehicleData(v1, tank :> low @@ consumption :> low),
   VehicleData(v1, <<>>), VehicleData(stranger, tank :> low)}

Interchangeable == Permutations(Calls) \cup Permutations(Keys)
=============================================================================
