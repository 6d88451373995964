---------------------------- MODULE Integrations ----------------------------
(***************************************************************************)
(* The imports of the integrations: import_vehicle_data and                *)
(* import_fuel_price, concurrent READ COMMITTED transactions that share    *)
(* one table of receipts, unique by idempotency key.  One organisation is  *)
(* modelled: a vehicle of another one is a vehicle it does not have.       *)
(***************************************************************************)
EXTENDS FiniteSets

CONSTANTS
  Calls,      \* requests; a repetition is another call with the same key
  Keys,       \* values of the header Idempotency-Key
  VehicleIds, \* what a request may name as a vehicle
  Vehicles,   \* vehicles of the organisation
  Fields,     \* the technical data an import may name
  Values,
  Prices,     \* contents of an import of a fuel price
  Imports,    \* the bodies of the calls
  Nobody      \* the holder of a row nobody has locked, the receipt of no call

Technical == [Fields -> Values]
Changes   == UNION {[named -> Values] : named \in SUBSET Fields}

(* The two bodies; fields that are null are not among the changes. *)
IntegrationVehicleDataCreate == [type : {"vehicle"}, vehicle : VehicleIds, changes : Changes]
FuelPriceIntegrationCreate   == [type : {"fuel_price"}, price : Prices]

ASSUME NobodyAssumption   == Nobody \notin Calls
ASSUME VehiclesAssumption == Vehicles \subseteq VehicleIds /\ Values # {}
ASSUME ImportsAssumption  ==
  Imports \subseteq IntegrationVehicleDataCreate \cup FuelPriceIntegrationCreate

VARIABLES
  vehicle,    \* committed technical data of each vehicle
  receipts,   \* committed rows of integration_receipts
  prices,     \* committed rows of fuel_prices
  drafts,     \* rows of fuel_prices of transactions that have not ended
  holder,     \* who has locked each vehicle
  pc, key, body,
  loaded,     \* the technical data a call has read, without a lock
  answer,     \* the receipt a call is answered with
  overtaken   \* for the properties: the fields others changed since that reading

vars == <<vehicle, receipts, prices, drafts, holder, pc, key, body, loaded, answer, overtaken>>

(* A row is named by the call that inserts it. *)
IntegrationReceipt == [id : Calls, key : Keys, body : Imports]
FuelPrice          == [id : Calls, price : Prices]

(* Where a transaction is open. *)
Open == {"lookup", "select", "price", "insert", "update", "commit", "conflict"}

(* The type of every variable: only an open transaction has uncommitted rows   *)
(* and locks, and each import keeps to its own phases.                         *)
TypeOK ==
  /\ vehicle \in [Vehicles -> Technical]
  /\ receipts \subseteq IntegrationReceipt
  /\ prices \subseteq FuelPrice /\ drafts \subseteq FuelPrice
  /\ holder \in [Vehicles -> Calls \cup {Nobody}]
  /\ pc \in [Calls -> Open \cup {"answered", "refused", "failed", "409"}]
  /\ key \in [Calls -> Keys] /\ body \in [Calls -> Imports]
  /\ loaded \in [Calls -> Technical]
  /\ answer \in [Calls -> Calls \cup {Nobody}]
  /\ overtaken \in [Calls -> SUBSET Fields]
  /\ \A d \in drafts : pc[d.id] \in {"insert", "commit"} /\ body[d.id].type = "fuel_price"
  /\ \A v \in Vehicles : holder[v] # Nobody =>
       pc[holder[v]] = "commit" /\ body[holder[v]].type = "vehicle"
  /\ \A c \in Calls : /\ pc[c] \in {"select", "update"} => body[c].type = "vehicle"
                      /\ pc[c] = "price" => body[c].type = "fuel_price"

Init ==
  /\ vehicle \in [Vehicles -> Technical]
  /\ receipts = {} /\ prices = {} /\ drafts = {}
  /\ holder = [v \in Vehicles |-> Nobody]
  /\ pc = [c \in Calls |-> "lookup"]
  /\ key \in [Calls -> Keys] /\ body \in [Calls -> Imports]
  /\ loaded = [c \in Calls |-> CHOOSE row \in Technical : TRUE]
  /\ answer = [c \in Calls |-> Nobody]
  /\ overtaken = [c \in Calls |-> {}]

-----------------------------------------------------------------------------
(* Operators whose comment begins with "Mutant" are wrong on purpose: putting *)
(* one in the place of the definition that follows it must break a property.  *)

Goto(c, phase) == pc' = [pc EXCEPT ![c] = phase]

ReceiptsOf(k) == {r \in receipts : r.key = k}

AnswerWith(c, r) == answer' = [answer EXCEPT ![c] = r.id] /\ Goto(c, "answered")

(* The receipt of the key, if one is committed, is the answer: whatever the    *)
(* two bodies say, and whichever of the two imports it belongs to.             *)
Lookup(c) ==
  /\ pc[c] = "lookup"
  /\ \/ \E r \in ReceiptsOf(key[c]) : AnswerWith(c, r)
     \/ /\ ReceiptsOf(key[c]) = {} /\ UNCHANGED answer
        /\ Goto(c, IF body[c].type = "vehicle" THEN "select" ELSE "price")
  /\ UNCHANGED <<vehicle, receipts, prices, drafts, holder, key, body, loaded, overtaken>>

(* 404 for a vehicle the organisation does not have, 422 for a body that names *)
(* no field.  The row is read without a lock.                                  *)
SelectVehicle(c) ==
  /\ pc[c] = "select"
  /\ \/ /\ body[c].vehicle \in Vehicles /\ body[c].changes # <<>>
        /\ Goto(c, "insert")
        /\ loaded' = [loaded EXCEPT ![c] = vehicle[body[c].vehicle]]
     \/ /\ body[c].vehicle \notin Vehicles \/ body[c].changes = <<>>
        /\ Goto(c, "refused") /\ UNCHANGED loaded
  /\ UNCHANGED <<vehicle, receipts, prices, drafts, holder, key, body, answer, overtaken>>

(* The price is flushed before its receipt, which needs its identity. *)
InsertPrice(c) ==
  /\ pc[c] = "price" /\ Goto(c, "insert")
  /\ drafts' = drafts \cup {[id |-> c, price |-> body[c].price]}
  /\ UNCHANGED <<vehicle, receipts, prices, holder, key, body, loaded, answer, overtaken>>

(* An insert waits for a transaction that has inserted the key and not ended. *)
KeyIsPending(k) == \E d \in Calls : key[d] = k /\ pc[d] \in {"update", "commit"}

(* Mutant: the key is unique for each kind of import only. *)
ClashesInKind(c) == {r \in ReceiptsOf(key[c]) : r.body.type = body[c].type}

(* uq_integration_receipts_org_key *)
Clashes(c) == ReceiptsOf(key[c])

OwnDrafts(c) == {d \in drafts : d.id = c}

(* Mutant: the price has been committed with its own insert. *)
KeptOnRollback(c) == OwnDrafts(c)

(* What outlives the rollback of c. *)
AfterRollback(c) == {}

Rollback(c) ==
  /\ prices' = prices \cup AfterRollback(c)
  /\ drafts' = drafts \ OwnDrafts(c)
  /\ holder' = [v \in Vehicles |-> IF holder[v] = c THEN Nobody ELSE holder[v]]
  /\ UNCHANGED <<vehicle, receipts, key, body, loaded, answer, overtaken>>

(* db.commit flushes: the unit of work writes the receipt before the vehicle,  *)
(* in the order of the names of their classes.                                 *)
InsertReceipt(c) ==
  /\ pc[c] = "insert" /\ ~KeyIsPending(key[c]) /\ Clashes(c) = {}
  /\ Goto(c, IF body[c].type = "vehicle" THEN "update" ELSE "commit")
  /\ UNCHANGED <<vehicle, receipts, prices, drafts, holder, key, body, loaded, answer, overtaken>>

(* IntegrityError: the rollback takes the price, or the new technical data. *)
ReceiptClashes(c) ==
  /\ pc[c] = "insert" /\ ~KeyIsPending(key[c]) /\ Clashes(c) # {}
  /\ Goto(c, "conflict") /\ Rollback(c)

(* Mutant: the whole row is written, as it was read. *)
WholeRow(c) == Fields

(* The UPDATE names the columns whose value differs from the one read. *)
Dirty(c) == {f \in DOMAIN body[c].changes : body[c].changes[f] # loaded[c][f]}

(* The row is locked until the commit; nothing to change, nothing to lock. *)
UpdateVehicle(c) ==
  /\ pc[c] = "update" /\ Goto(c, "commit")
  /\ \/ /\ Dirty(c) # {} /\ holder[body[c].vehicle] = Nobody
        /\ holder' = [holder EXCEPT ![body[c].vehicle] = c]
     \/ Dirty(c) = {} /\ UNCHANGED holder
  /\ UNCHANGED <<vehicle, receipts, prices, drafts, key, body, loaded, answer, overtaken>>

(* The attributes of the object c holds. *)
Attributes(c) ==
  [f \in Fields |-> IF f \in DOMAIN body[c].changes THEN body[c].changes[f] ELSE loaded[c][f]]

(* The vehicle after the commit of c. *)
Updated(c, v) ==
  IF holder[v] = c
  THEN [f \in Fields |-> IF f \in Dirty(c) THEN Attributes(c)[f] ELSE vehicle[v][f]]
  ELSE vehicle[v]

SameVehicle(c, d) == body[d].type = "vehicle" /\ \E v \in Vehicles : holder[v] = c /\ body[d].vehicle = v

Commit(c) ==
  /\ pc[c] = "commit"
  /\ receipts' = receipts \cup {[id |-> c, key |-> key[c], body |-> body[c]]}
  /\ prices' = prices \cup OwnDrafts(c)
  /\ drafts' = drafts \ OwnDrafts(c)
  /\ vehicle' = [v \in Vehicles |-> Updated(c, v)]
  /\ holder' = [v \in Vehicles |-> IF holder[v] = c THEN Nobody ELSE holder[v]]
  /\ AnswerWith(c, [id |-> c])
  /\ overtaken' = [d \in Calls |->
       IF d # c /\ pc[d] \in {"insert", "update", "commit"} /\ SameVehicle(c, d)
       THEN overtaken[d] \cup Dirty(c) ELSE overtaken[d]]
  /\ UNCHANGED <<key, body, loaded>>

(* After the rollback the key is looked up once more; 409 if it has no receipt. *)
Concurrent(c) ==
  /\ pc[c] = "conflict"
  /\ \/ \E r \in ReceiptsOf(key[c]) : AnswerWith(c, r)
     \/ ReceiptsOf(key[c]) = {} /\ Goto(c, "409") /\ UNCHANGED answer
  /\ UNCHANGED <<vehicle, receipts, prices, drafts, holder, key, body, loaded, overtaken>>

(* The server dies, or the connection to the database is lost. *)
Crash(c) == pc[c] \in Open /\ Goto(c, "failed") /\ Rollback(c)

Step(c) ==
  \/ Lookup(c) \/ SelectVehicle(c) \/ InsertPrice(c) \/ InsertReceipt(c)
  \/ ReceiptClashes(c) \/ UpdateVehicle(c) \/ Commit(c) \/ Concurrent(c)

AllEnded == \A c \in Calls : pc[c] \notin Open

Next ==
  \/ \E c \in Calls : Step(c) \/ Crash(c)
  \/ AllEnded /\ UNCHANGED vars

Spec == Init /\ [][Next]_vars

-----------------------------------------------------------------------------
(* A key has one receipt, and a fuel price exists exactly when its receipt     *)
(* does: the import that loses its key leaves no price behind.                 *)
EveryPriceHasItsReceipt ==
  /\ \A r, s \in receipts : r.key = s.key => r = s
  /\ prices = {[id |-> r.id, price |-> r.body.price] : r \in {s \in receipts : s.body.type = "fuel_price"}}

(* Repeating a key answers with the receipt of the key, also when the two      *)
(* calls run at the same time; no call ends with 409.                          *)
SameKeySameReceipt ==
  \A c \in Calls :
    /\ pc[c] # "409"
    /\ pc[c] = "answered" => \E r \in receipts : r.key = key[c] /\ r.id = answer[c]
    /\ \A d \in Calls : pc[c] = "answered" /\ pc[d] = "answered" /\ key[c] = key[d]
                          => answer[c] = answer[d]

NewReceipts(v) == {r \in receipts' \ receipts : r.body.type = "vehicle" /\ r.body.vehicle = v}

(* Technical data change only to what a receipt of the same commit names, and  *)
(* what a new receipt names holds unless an import that committed in between   *)
(* changed that field: then the ORM, which compares with the row it read, may  *)
(* leave the other value in place.                                             *)
TechnicalDataFollowsReceipts ==
  [][\A v \in Vehicles, f \in Fields :
       /\ vehicle'[v][f] # vehicle[v][f] =>
            \E r \in NewReceipts(v) : f \in DOMAIN r.body.changes /\ r.body.changes[f] = vehicle'[v][f]
       /\ \A r \in NewReceipts(v) : f \in DOMAIN r.body.changes \ overtaken[r.id]
            => vehicle'[v][f] = r.body.changes[f]]_vars
=============================================================================
