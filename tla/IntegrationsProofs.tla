------------------------- MODULE IntegrationsProofs -------------------------
(***************************************************************************)
(* Proofs about the two ends of the exchange with n8n, which share no      *)
(* state: what n8n imports (Integrations), for any calls, keys and bodies, *)
(* any vehicles and any technical data, and what the worker posts to it    *)
(* (Outbox), for any events, any set of workers, any limit of attempts and *)
(* any number of crashes.                                                  *)
(***************************************************************************)
EXTENDS Integrations, Outbox, TLAPS

(* What the type of a body says of its other parts. *)
LEMMA BodyParts ==
  ASSUME NEW i \in Imports
  PROVE  /\ i.type \in {"vehicle", "fuel_price"}
         /\ i.type = "vehicle" => /\ i.vehicle \in VehicleIds
                                  /\ DOMAIN i.changes \subseteq Fields
                                  /\ \A f \in DOMAIN i.changes : i.changes[f] \in Values
         /\ i.type = "fuel_price" => i.price \in Prices
<1>1. CASE i \in IntegrationVehicleDataCreate
  <2>1. i.type = "vehicle" /\ i.vehicle \in VehicleIds /\ i.changes \in Changes
    BY <1>1 DEF IntegrationVehicleDataCreate
  <2>2. PICK named \in SUBSET Fields : i.changes \in [named -> Values]
    BY <2>1 DEF Changes
  <2>3. QED
    BY <2>1, <2>2
<1>2. CASE i \in FuelPriceIntegrationCreate
  BY <1>2 DEF FuelPriceIntegrationCreate
<1>3. QED
  BY <1>1, <1>2, ImportsAssumption

(* The type invariant holds at the start. *)
LEMMA TypeInit == Init => TypeOK
<1> SUFFICES ASSUME Init PROVE TypeOK
  OBVIOUS
<1>1. \E row : row \in Technical
  <2>1. PICK x \in Values : TRUE
    BY VehiclesAssumption
  <2>2. [f \in Fields |-> x] \in Technical
    BY DEF Technical
  <2>3. QED
    BY <2>2
<1>2. (CHOOSE row \in Technical : TRUE) \in Technical
  BY <1>1
<1>3. loaded \in [Calls -> Technical]
  BY <1>2 DEF Init
<1>4. QED
  BY <1>3 DEF Init, TypeOK, Open

(* Ending a transaction without a commit keeps the types. *)
LEMMA TypeRollback ==
  ASSUME TypeOK, NEW c \in Calls, Rollback(c),
         NEW phase \in {"conflict", "failed"}, Goto(c, phase)
  PROVE  TypeOK'
<1>1. prices' = prices /\ drafts' = {d \in drafts : d.id # c}
  BY DEF Rollback, AfterRollback, OwnDrafts
<1>2. \A d \in Calls : pc'[d] = IF d = c THEN phase ELSE pc[d]
  BY DEF Goto, TypeOK
<1>3. pc' \in [Calls -> Open \cup {"answered", "refused", "failed", "409"}]
  BY DEF Goto, TypeOK, Open
<1>4. \A v \in Vehicles : holder'[v] = IF holder[v] = c THEN Nobody ELSE holder[v]
  BY DEF Rollback
<1>5. holder' \in [Vehicles -> Calls \cup {Nobody}]
  BY DEF Rollback, TypeOK
<1>6. UNCHANGED <<vehicle, receipts, key, body, loaded, answer, overtaken>>
  BY DEF Rollback
<1>7. \A d \in drafts' : pc'[d.id] \in {"insert", "commit"} /\ body'[d.id].type = "fuel_price"
  BY <1>1, <1>2, <1>6 DEF TypeOK, FuelPrice
<1>8. \A v \in Vehicles : holder'[v] # Nobody =>
         pc'[holder'[v]] = "commit" /\ body'[holder'[v]].type = "vehicle"
  BY <1>2, <1>4, <1>6 DEF TypeOK
<1>9. \A d \in Calls : /\ pc'[d] \in {"select", "update"} => body'[d].type = "vehicle"
                       /\ pc'[d] = "price" => body'[d].type = "fuel_price"
  BY <1>2, <1>6 DEF TypeOK
<1>10. QED
  BY <1>1, <1>3, <1>5, <1>6, <1>7, <1>8, <1>9 DEF TypeOK

(* The vehicle of a commit gets technical data. *)
LEMMA UpdatedIsTechnical ==
  ASSUME TypeOK, NEW c \in Calls, NEW v \in Vehicles
  PROVE  Updated(c, v) \in Technical
<1>1. CASE holder[v] = c
  <2>1. body[c].type = "vehicle" /\ body[c] \in Imports
    BY <1>1, NobodyAssumption DEF TypeOK
  <2>2. \A f \in Dirty(c) : f \in Fields /\ Attributes(c)[f] \in Values
    BY <2>1, BodyParts DEF Dirty, Attributes
  <2>3. vehicle[v] \in [Fields -> Values]
    BY DEF TypeOK, Technical
  <2>4. QED
    BY <1>1, <2>2, <2>3 DEF Updated, Technical
<1>2. CASE holder[v] # c
  BY <1>2 DEF Updated, TypeOK
<1>3. QED
  BY <1>1, <1>2

(* A commit keeps the types. *)
LEMMA TypeCommit ==
  ASSUME TypeOK, NEW c \in Calls, Commit(c)
  PROVE  TypeOK'
<1>1. vehicle' \in [Vehicles -> Technical]
  BY UpdatedIsTechnical DEF Commit
<1>2. receipts' \subseteq IntegrationReceipt
  BY DEF Commit, TypeOK, IntegrationReceipt
<1>3. prices' \subseteq FuelPrice /\ drafts' = {d \in drafts : d.id # c}
  BY DEF Commit, TypeOK, OwnDrafts
<1>4. answer' \in [Calls -> Calls \cup {Nobody}]
  BY DEF Commit, TypeOK, AnswerWith
<1>5. \A d \in Calls : pc'[d] = IF d = c THEN "answered" ELSE pc[d]
  BY DEF Commit, TypeOK, AnswerWith, Goto
<1>6. pc' \in [Calls -> Open \cup {"answered", "refused", "failed", "409"}]
  BY DEF Commit, TypeOK, AnswerWith, Goto
<1>7. \A v \in Vehicles : holder'[v] = IF holder[v] = c THEN Nobody ELSE holder[v]
  BY DEF Commit
<1>8. holder' \in [Vehicles -> Calls \cup {Nobody}]
  BY DEF Commit, TypeOK
<1>9. overtaken' \in [Calls -> SUBSET Fields]
  <2> SUFFICES ASSUME NEW d \in Calls, d # c, SameVehicle(c, d)
               PROVE  Dirty(c) \subseteq Fields
    BY DEF Commit, TypeOK
  <2>1. body[c].type = "vehicle" /\ body[c] \in Imports
    BY NobodyAssumption DEF SameVehicle, TypeOK
  <2>2. QED
    BY <2>1, BodyParts DEF Dirty
<1>10. UNCHANGED <<key, body, loaded>>
  BY DEF Commit
<1>11. \A d \in drafts' : pc'[d.id] \in {"insert", "commit"} /\ body'[d.id].type = "fuel_price"
  BY <1>3, <1>5, <1>10 DEF TypeOK, FuelPrice
<1>12. \A v \in Vehicles : holder'[v] # Nobody =>
         pc'[holder'[v]] = "commit" /\ body'[holder'[v]].type = "vehicle"
  BY <1>5, <1>7, <1>10 DEF TypeOK
<1>13. \A d \in Calls : /\ pc'[d] \in {"select", "update"} => body'[d].type = "vehicle"
                        /\ pc'[d] = "price" => body'[d].type = "fuel_price"
  BY <1>5, <1>10 DEF TypeOK
<1>14. QED
  BY <1>1, <1>2, <1>3, <1>4, <1>6, <1>8, <1>9, <1>10, <1>11, <1>12, <1>13 DEF TypeOK

(* Every step keeps the types. *)
LEMMA TypeStep == TypeOK /\ [Next]_vars => TypeOK'
<1> SUFFICES ASSUME TypeOK, [Next]_vars PROVE TypeOK'
  OBVIOUS
<1>1. ASSUME NEW c \in Calls, Lookup(c) PROVE TypeOK'
  <2>1. UNCHANGED <<vehicle, receipts, prices, drafts, holder, key, body, loaded, overtaken>>
    BY <1>1 DEF Lookup
  <2>2. answer' \in [Calls -> Calls \cup {Nobody}]
    BY <1>1 DEF Lookup, TypeOK, AnswerWith, ReceiptsOf, IntegrationReceipt
  <2>3. PICK phase \in {"answered", "select", "price"} :
          /\ Goto(c, phase)
          /\ phase = "select" => body[c].type = "vehicle"
          /\ phase = "price" => body[c].type = "fuel_price"
    BY <1>1, BodyParts DEF Lookup, AnswerWith, TypeOK
  <2>4. pc[c] = "lookup" /\ \A d \in Calls : pc'[d] = IF d = c THEN phase ELSE pc[d]
    BY <1>1, <2>3 DEF Lookup, Goto, TypeOK
  <2>5. QED
    BY <2>1, <2>2, <2>3, <2>4 DEF TypeOK, Goto, Open, FuelPrice
<1>2. ASSUME NEW c \in Calls, SelectVehicle(c) PROVE TypeOK'
  BY <1>2 DEF TypeOK, SelectVehicle, Goto, Open, FuelPrice
<1>3. ASSUME NEW c \in Calls, InsertPrice(c) PROVE TypeOK'
  <2>1. body[c].type = "fuel_price" /\ [id |-> c, price |-> body[c].price] \in FuelPrice
    BY <1>3, BodyParts DEF FuelPrice, TypeOK, InsertPrice
  <2>2. drafts' = drafts \cup {[id |-> c, price |-> body[c].price]}
    BY <1>3 DEF InsertPrice
  <2>3. \A d \in drafts' : pc'[d.id] \in {"insert", "commit"} /\ body'[d.id].type = "fuel_price"
    BY <1>3, <2>1, <2>2 DEF TypeOK, InsertPrice, Goto, FuelPrice
  <2>4. QED
    BY <1>3, <2>1, <2>2, <2>3 DEF TypeOK, InsertPrice, Goto, Open
<1>4. ASSUME NEW c \in Calls, InsertReceipt(c) PROVE TypeOK'
  BY <1>4 DEF TypeOK, InsertReceipt, Goto, Open, FuelPrice
<1>5. ASSUME NEW c \in Calls, ReceiptClashes(c) PROVE TypeOK'
  BY <1>5, TypeRollback DEF ReceiptClashes
<1>6. ASSUME NEW c \in Calls, UpdateVehicle(c) PROVE TypeOK'
  BY <1>6, NobodyAssumption DEF TypeOK, UpdateVehicle, Goto, Open, FuelPrice
<1>7. ASSUME NEW c \in Calls, Commit(c) PROVE TypeOK'
  BY <1>7, TypeCommit
<1>8. ASSUME NEW c \in Calls, Concurrent(c) PROVE TypeOK'
  BY <1>8 DEF TypeOK, Concurrent, Goto, AnswerWith, ReceiptsOf, Open, IntegrationReceipt, FuelPrice
<1>9. ASSUME NEW c \in Calls, Crash(c) PROVE TypeOK'
  BY <1>9, TypeRollback DEF Crash
<1>10. ASSUME UNCHANGED vars PROVE TypeOK'
  BY <1>10 DEF TypeOK, vars
<1>11. QED
  BY <1>1, <1>2, <1>3, <1>4, <1>5, <1>6, <1>7, <1>8, <1>9, <1>10 DEF Next, Step

(* Every variable keeps its type, whatever the calls do. *)
THEOREM TypeCorrect == Spec => []TypeOK
BY TypeInit, TypeStep, PTL DEF Spec

-----------------------------------------------------------------------------
(* A row of receipts was inserted by a call that is answered with it. *)
RowsAreAnswered ==
  \A r \in receipts : /\ pc[r.id] = "answered" /\ answer[r.id] = r.id
                      /\ r.key = key[r.id] /\ r.body = body[r.id]

OneReceiptPerKey == \A r, s \in receipts : r.key = s.key => r = s

(* Whoever has inserted its key is alone with it. *)
PendingKeysAreFree ==
  \A c \in Calls : pc[c] \in {"update", "commit"} =>
    /\ ReceiptsOf(key[c]) = {}
    /\ \A d \in Calls : key[d] = key[c] /\ pc[d] \in {"update", "commit"} => d = c

(* A call that lost its key will find the receipt that won. *)
ConflictsHaveReceipts == \A c \in Calls : pc[c] = "conflict" => ReceiptsOf(key[c]) # {}

AnswersAreReceipts ==
  \A c \in Calls :
    /\ pc[c] # "409"
    /\ pc[c] = "answered" => \E r \in receipts : r.key = key[c] /\ r.id = answer[c]

(* The draft of a call is the price of its body, and it is there at the commit. *)
DraftsFitBodies ==
  /\ \A d \in drafts : d.price = body[d.id].price
  /\ \A c \in Calls : pc[c] \in {"insert", "commit"} /\ body[c].type = "fuel_price"
       => [id |-> c, price |-> body[c].price] \in drafts

PriceOf(r)  == [id |-> r.id, price |-> r.body.price]
FuelReceipts == {r \in receipts : r.body.type = "fuel_price"}
PricesFitReceipts == prices = {PriceOf(r) : r \in FuelReceipts}

(* The inductive invariant: a key is unique because it is unique among the     *)
(* committed and the pending ones together.                                    *)
ReceiptInv ==
  /\ TypeOK /\ RowsAreAnswered /\ OneReceiptPerKey /\ PendingKeysAreFree
  /\ ConflictsHaveReceipts /\ AnswersAreReceipts /\ DraftsFitBodies /\ PricesFitReceipts

(* The invariant of the receipts holds at first ... *)
LEMMA ReceiptInit == Init => ReceiptInv
<1> SUFFICES ASSUME Init PROVE ReceiptInv
  OBVIOUS
<1>1. TypeOK
  BY TypeInit
<1>2. receipts = {} /\ prices = {} /\ drafts = {} /\ \A c \in Calls : pc[c] = "lookup"
  BY DEF Init
<1>3. QED
  BY <1>1, <1>2 DEF ReceiptInv, RowsAreAnswered, OneReceiptPerKey, PendingKeysAreFree, ConflictsHaveReceipts,
     AnswersAreReceipts, DraftsFitBodies, PricesFitReceipts, FuelReceipts

(* Steps before the end of a transaction: no committed row changes. *)
LEMMA ReceiptQuietStep ==
  ASSUME ReceiptInv, TypeOK', NEW c \in Calls, NEW phase, Goto(c, phase),
         UNCHANGED <<receipts, prices, key, body>>, pc[c] # "answered",
         \A d \in Calls : d # c => answer'[d] = answer[d],
         phase # "409",
         phase = "answered" => \E r \in receipts : r.key = key[c] /\ r.id = answer'[c],
         phase = "conflict" => ReceiptsOf(key[c]) # {},
         phase \in {"update", "commit"} =>
           \/ pc[c] \in {"update", "commit"}
           \/ ReceiptsOf(key[c]) = {} /\ ~KeyIsPending(key[c]),
         DraftsFitBodies'
  PROVE  ReceiptInv'
<1>1. \A d \in Calls : pc'[d] = IF d = c THEN phase ELSE pc[d]
  BY DEF Goto, ReceiptInv, TypeOK
<1>2. \A k \in Keys : ReceiptsOf(k)' = ReceiptsOf(k)
  BY DEF ReceiptsOf
<1>3. RowsAreAnswered'
  BY <1>1 DEF ReceiptInv, RowsAreAnswered, TypeOK, IntegrationReceipt
<1>4. OneReceiptPerKey' /\ PricesFitReceipts'
  BY DEF ReceiptInv, OneReceiptPerKey, PricesFitReceipts, PriceOf, FuelReceipts
<1>5. PendingKeysAreFree'
  BY <1>1, <1>2 DEF ReceiptInv, PendingKeysAreFree, KeyIsPending, TypeOK
<1>6. ConflictsHaveReceipts'
  BY <1>1, <1>2 DEF ReceiptInv, ConflictsHaveReceipts, TypeOK
<1>7. AnswersAreReceipts'
  BY <1>1 DEF ReceiptInv, AnswersAreReceipts
<1>8. QED
  BY <1>3, <1>4, <1>5, <1>6, <1>7 DEF ReceiptInv

(* The rollback of a call takes its draft and nothing else. *)
LEMMA ReceiptRollback ==
  ASSUME ReceiptInv, TypeOK', NEW c \in Calls, pc[c] \in Open, Rollback(c),
         NEW phase \in {"conflict", "failed"}, Goto(c, phase),
         phase = "conflict" => ReceiptsOf(key[c]) # {}
  PROVE  ReceiptInv'
<1>1. UNCHANGED <<receipts, key, body, answer>> /\ prices' = prices /\ drafts' = {d \in drafts : d.id # c}
  BY DEF Rollback, AfterRollback, OwnDrafts
<1>2. \A d \in Calls : pc'[d] = IF d = c THEN phase ELSE pc[d]
  BY DEF Goto, ReceiptInv, TypeOK
<1>3. DraftsFitBodies'
  BY <1>1, <1>2 DEF ReceiptInv, DraftsFitBodies
<1>4. pc[c] # "answered"
  BY DEF Open
<1>5. QED
  BY <1>1, <1>3, <1>4, ReceiptQuietStep

(* The commit of a call adds its receipt, and its price with it. *)
LEMMA ReceiptCommit ==
  ASSUME ReceiptInv, TypeOK', NEW c \in Calls, Commit(c)
  PROVE  ReceiptInv'
<1> DEFINE new == [id |-> c, key |-> key[c], body |-> body[c]]
<1>1. /\ receipts' = receipts \cup {new} /\ UNCHANGED <<key, body>>
      /\ prices' = prices \cup OwnDrafts(c) /\ drafts' = {d \in drafts : d.id # c}
  BY DEF Commit, OwnDrafts
<1>2. /\ pc[c] = "commit"
      /\ \A d \in Calls : pc'[d] = IF d = c THEN "answered" ELSE pc[d]
      /\ \A d \in Calls : answer'[d] = IF d = c THEN c ELSE answer[d]
  BY DEF Commit, AnswerWith, Goto, ReceiptInv, TypeOK
<1>3. ReceiptsOf(key[c]) = {} /\ \A r \in receipts : r.key # key[c] /\ r.id # c
  BY <1>2 DEF ReceiptInv, PendingKeysAreFree, RowsAreAnswered, ReceiptsOf
<1>4. RowsAreAnswered'
  BY <1>1, <1>2, <1>3 DEF ReceiptInv, RowsAreAnswered, TypeOK, IntegrationReceipt
<1>5. OneReceiptPerKey'
  BY <1>1, <1>3 DEF ReceiptInv, OneReceiptPerKey
<1>6. PendingKeysAreFree'
  BY <1>1, <1>2 DEF ReceiptInv, PendingKeysAreFree, ReceiptsOf
<1>7. ConflictsHaveReceipts'
  BY <1>1, <1>2 DEF ReceiptInv, ConflictsHaveReceipts, ReceiptsOf
<1>8. AnswersAreReceipts'
  <2> SUFFICES ASSUME NEW d \in Calls
               PROVE  /\ pc'[d] # "409"
                      /\ pc'[d] = "answered" => \E r \in receipts' : r.key = key[d] /\ r.id = answer'[d]
    BY <1>1 DEF AnswersAreReceipts
  <2>1. CASE d = c
    <3>1. new \in receipts' /\ new.key = key[d] /\ new.id = answer'[d]
      BY <1>1, <1>2, <2>1
    <3>2. pc'[d] # "409"
      BY <1>2, <2>1
    <3>3. QED
      BY <3>1, <3>2
  <2>2. CASE d # c
    BY <1>1, <1>2, <2>2 DEF ReceiptInv, AnswersAreReceipts
  <2>3. QED
    BY <2>1, <2>2
<1>9. DraftsFitBodies'
  BY <1>1, <1>2 DEF ReceiptInv, DraftsFitBodies
<1>10. PricesFitReceipts'
  <2>1. FuelReceipts' = FuelReceipts \cup (IF body[c].type = "fuel_price" THEN {new} ELSE {})
    BY <1>1 DEF FuelReceipts
  <2>2. OwnDrafts(c) = IF body[c].type = "fuel_price" THEN {PriceOf(new)} ELSE {}
    BY <1>2 DEF OwnDrafts, PriceOf, ReceiptInv, DraftsFitBodies, TypeOK, FuelPrice
  <2>3. QED
    BY <1>1, <2>1, <2>2 DEF ReceiptInv, PricesFitReceipts, PriceOf
<1>11. QED
  BY <1>4, <1>5, <1>6, <1>7, <1>8, <1>9, <1>10 DEF ReceiptInv

(* Every step keeps the inductive invariant. *)
LEMMA ReceiptStep == ReceiptInv /\ [Next]_vars => ReceiptInv'
<1> SUFFICES ASSUME ReceiptInv, [Next]_vars PROVE ReceiptInv'
  OBVIOUS
<1>1. TypeOK /\ TypeOK'
  BY TypeStep DEF ReceiptInv
<1>2. ASSUME NEW c \in Calls, Lookup(c) PROVE ReceiptInv'
  <2>1. UNCHANGED <<receipts, prices, drafts, key, body>> /\ pc[c] = "lookup"
    BY <1>2 DEF Lookup
  <2>2. \A d \in Calls : d # c => answer'[d] = answer[d]
    BY <1>1, <1>2 DEF Lookup, AnswerWith, TypeOK
  <2>3. PICK phase \in {"answered", "select", "price"} :
          /\ Goto(c, phase)
          /\ phase = "answered" => \E r \in receipts : r.key = key[c] /\ r.id = answer'[c]
    BY <1>1, <1>2 DEF Lookup, AnswerWith, ReceiptsOf, TypeOK
  <2>4. DraftsFitBodies'
    BY <1>1, <2>1, <2>3 DEF ReceiptInv, DraftsFitBodies, Goto, TypeOK
  <2>5. QED
    BY <1>1, <2>1, <2>2, <2>3, <2>4, ReceiptQuietStep
<1>3. ASSUME NEW c \in Calls, SelectVehicle(c) PROVE ReceiptInv'
  <2>1. UNCHANGED <<receipts, prices, drafts, key, body, answer>> /\ pc[c] = "select"
    BY <1>3 DEF SelectVehicle
  <2>2. PICK phase \in {"insert", "refused"} : Goto(c, phase)
    BY <1>3 DEF SelectVehicle
  <2>3. DraftsFitBodies'
    BY <1>1, <2>1, <2>2 DEF ReceiptInv, DraftsFitBodies, Goto, TypeOK
  <2>4. QED
    BY <1>1, <2>1, <2>2, <2>3, ReceiptQuietStep
<1>4. ASSUME NEW c \in Calls, InsertPrice(c) PROVE ReceiptInv'
  <2>1. UNCHANGED <<receipts, prices, key, body, answer>> /\ pc[c] = "price" /\ Goto(c, "insert")
    BY <1>4 DEF InsertPrice
  <2>2. DraftsFitBodies'
    BY <1>1, <1>4, <2>1 DEF ReceiptInv, DraftsFitBodies, Goto, TypeOK, InsertPrice
  <2>3. QED
    BY <1>1, <2>1, <2>2, ReceiptQuietStep
<1>5. ASSUME NEW c \in Calls, InsertReceipt(c) PROVE ReceiptInv'
  <2>1. UNCHANGED <<receipts, prices, drafts, key, body, answer>> /\ pc[c] = "insert"
    BY <1>5 DEF InsertReceipt
  <2>2. PICK phase \in {"update", "commit"} : Goto(c, phase)
    BY <1>5 DEF InsertReceipt
  <2>3. ReceiptsOf(key[c]) = {} /\ ~KeyIsPending(key[c])
    BY <1>5 DEF InsertReceipt, Clashes
  <2>4. DraftsFitBodies'
    BY <1>1, <2>1, <2>2 DEF ReceiptInv, DraftsFitBodies, Goto, TypeOK
  <2>5. QED
    BY <1>1, <2>1, <2>2, <2>3, <2>4, ReceiptQuietStep
<1>6. ASSUME NEW c \in Calls, ReceiptClashes(c) PROVE ReceiptInv'
  BY <1>1, <1>6, ReceiptRollback DEF ReceiptClashes, Clashes, Open
<1>7. ASSUME NEW c \in Calls, UpdateVehicle(c) PROVE ReceiptInv'
  <2>1. UNCHANGED <<receipts, prices, drafts, key, body, answer>> /\ pc[c] = "update" /\ Goto(c, "commit")
    BY <1>7 DEF UpdateVehicle
  <2>2. DraftsFitBodies'
    BY <1>1, <2>1 DEF ReceiptInv, DraftsFitBodies, Goto, TypeOK
  <2>3. QED
    BY <1>1, <2>1, <2>2, ReceiptQuietStep
<1>8. ASSUME NEW c \in Calls, Commit(c) PROVE ReceiptInv'
  BY <1>1, <1>8, ReceiptCommit
<1>9. ASSUME NEW c \in Calls, Concurrent(c) PROVE ReceiptInv'
  <2>1. UNCHANGED <<receipts, prices, drafts, key, body>> /\ pc[c] = "conflict"
    BY <1>9 DEF Concurrent
  <2>2. ReceiptsOf(key[c]) # {}
    BY <2>1 DEF ReceiptInv, ConflictsHaveReceipts
  <2>3. PICK r \in ReceiptsOf(key[c]) : AnswerWith(c, r)
    BY <1>9, <2>2 DEF Concurrent
  <2>4. /\ Goto(c, "answered") /\ r \in receipts /\ r.key = key[c] /\ answer'[c] = r.id
        /\ \A d \in Calls : d # c => answer'[d] = answer[d]
    BY <1>1, <2>3 DEF AnswerWith, ReceiptsOf, TypeOK
  <2>5. DraftsFitBodies'
    BY <1>1, <2>1, <2>4 DEF ReceiptInv, DraftsFitBodies, Goto, TypeOK
  <2>6. QED
    BY <1>1, <2>1, <2>4, <2>5, ReceiptQuietStep
<1>10. ASSUME NEW c \in Calls, Crash(c) PROVE ReceiptInv'
  BY <1>1, <1>10, ReceiptRollback DEF Crash
<1>11. ASSUME UNCHANGED vars PROVE ReceiptInv'
  BY <1>1, <1>11 DEF vars, ReceiptInv, RowsAreAnswered, OneReceiptPerKey, PendingKeysAreFree, ReceiptsOf,
     ConflictsHaveReceipts, AnswersAreReceipts, DraftsFitBodies, PricesFitReceipts, PriceOf, FuelReceipts
<1>12. QED
  BY <1>2, <1>3, <1>4, <1>5, <1>6, <1>7, <1>8, <1>9, <1>10, <1>11 DEF Next, Step

(* ... and always. *)
LEMMA ReceiptAlways == Spec => []ReceiptInv
BY ReceiptInit, ReceiptStep, PTL DEF Spec

(* A key has one receipt, and a fuel price exists exactly when its receipt     *)
(* does, for any interleaving of the imports and any crashes.                  *)
THEOREM PricesHaveReceipts == Spec => []EveryPriceHasItsReceipt
<1>1. ReceiptInv => EveryPriceHasItsReceipt
  BY DEF ReceiptInv, EveryPriceHasItsReceipt, OneReceiptPerKey, PricesFitReceipts, PriceOf, FuelReceipts
<1>2. QED
  BY <1>1, ReceiptAlways, PTL

(* Every repetition of a key is answered with the one receipt of the key. *)
THEOREM RepeatedKeysAgree == Spec => []SameKeySameReceipt
<1>1. ReceiptInv => SameKeySameReceipt
  BY DEF ReceiptInv, SameKeySameReceipt, AnswersAreReceipts, OneReceiptPerKey
<1>2. QED
  BY <1>1, ReceiptAlways, PTL

-----------------------------------------------------------------------------
Importing(c) == pc[c] \in {"insert", "update", "commit"} /\ body[c].type = "vehicle"

(* A vehicle is locked by an import of its own data, *)
HoldersImport == \A v \in Vehicles : holder[v] # Nobody => body[holder[v]].vehicle = v

(* an import that has something to change holds its vehicle at the commit,     *)
CommitsHold ==
  \A c \in Calls : Importing(c) =>
    /\ body[c].vehicle \in Vehicles
    /\ pc[c] = "commit" /\ Dirty(c) # {} => holder[body[c].vehicle] = c

(* and what an import has read holds except where it was overtaken.            *)
LoadedIsCurrent ==
  \A c \in Calls : Importing(c) =>
    \A f \in Fields \ overtaken[c] : loaded[c][f] = vehicle[body[c].vehicle][f]

DataInv == TypeOK /\ HoldersImport /\ CommitsHold /\ LoadedIsCurrent

(* Steps that change no technical data and give no lock away. *)
LEMMA DataQuietStep ==
  ASSUME DataInv, TypeOK', NEW c \in Calls, NEW phase, Goto(c, phase),
         UNCHANGED <<vehicle, body, overtaken>>,
         \A d \in Calls : d # c => loaded'[d] = loaded[d],
         \A v \in Vehicles :
           \/ holder'[v] = holder[v]
           \/ holder[v] = c /\ holder'[v] = Nobody
           \/ holder[v] = Nobody /\ holder'[v] = c /\ body[c].vehicle = v,
         (phase \in {"insert", "update", "commit"} /\ body[c].type = "vehicle") =>
           /\ body[c].vehicle \in Vehicles
           /\ \/ loaded'[c] = loaded[c] /\ Importing(c)
              \/ loaded'[c] = vehicle[body[c].vehicle]
           /\ phase = "commit" /\ Dirty(c)' # {} => holder'[body[c].vehicle] = c
  PROVE  DataInv'
<1>1. \A d \in Calls : pc'[d] = IF d = c THEN phase ELSE pc[d]
  BY DEF Goto, DataInv, TypeOK
<1>2. \A d \in Calls : d # c => Dirty(d)' = Dirty(d)
  BY DEF Dirty
<1>3. HoldersImport'
  BY NobodyAssumption DEF DataInv, HoldersImport, TypeOK
<1>4. CommitsHold'
  <2> SUFFICES ASSUME NEW d \in Calls, Importing(d)'
               PROVE  /\ body[d].vehicle \in Vehicles
                      /\ pc'[d] = "commit" /\ Dirty(d)' # {} => holder'[body[d].vehicle] = d
    BY DEF CommitsHold
  <2>1. CASE d = c
    BY <1>1, <2>1 DEF Importing
  <2>2. CASE d # c
    <3>1. Importing(d) /\ pc'[d] = pc[d]
      BY <1>1, <2>2 DEF Importing
    <3>2. body[d].vehicle \in Vehicles
      BY <3>1 DEF DataInv, CommitsHold
    <3>3. ASSUME pc[d] = "commit", Dirty(d) # {} PROVE holder'[body[d].vehicle] = d
      <4>1. holder[body[d].vehicle] = d
        BY <3>1, <3>3 DEF DataInv, CommitsHold
      <4>2. QED
        BY <2>2, <3>2, <4>1, NobodyAssumption
    <3>4. QED
      BY <1>2, <2>2, <3>1, <3>2, <3>3
  <2>3. QED
    BY <2>1, <2>2
<1>5. LoadedIsCurrent'
  <2> SUFFICES ASSUME NEW d \in Calls, Importing(d)', NEW f \in Fields \ overtaken[d]
               PROVE  loaded'[d][f] = vehicle[body[d].vehicle][f]
    BY DEF LoadedIsCurrent
  <2>1. CASE d = c
    BY <1>1, <2>1 DEF Importing, DataInv, LoadedIsCurrent
  <2>2. CASE d # c
    BY <1>1, <2>2 DEF Importing, DataInv, LoadedIsCurrent
  <2>3. QED
    BY <2>1, <2>2
<1>6. QED
  BY <1>3, <1>4, <1>5 DEF DataInv

(* What a commit does to a vehicle and to the imports that have read it. *)
LEMMA DataCommit ==
  ASSUME DataInv, TypeOK', NEW c \in Calls, Commit(c)
  PROVE  DataInv'
<1>1. /\ \A d \in Calls : pc'[d] = IF d = c THEN "answered" ELSE pc[d]
      /\ \A v \in Vehicles : holder'[v] = IF holder[v] = c THEN Nobody ELSE holder[v]
      /\ \A v \in Vehicles : vehicle'[v] = Updated(c, v)
      /\ UNCHANGED <<key, body, loaded>>
  BY DEF Commit, AnswerWith, Goto, DataInv, TypeOK
<1>2. \A d \in Calls : Dirty(d)' = Dirty(d)
  BY <1>1 DEF Dirty
<1>3. \A d \in Calls : Importing(d)' => d # c /\ Importing(d)
  BY <1>1 DEF Importing
<1>4. HoldersImport'
  BY <1>1 DEF DataInv, HoldersImport
<1>5. CommitsHold'
  BY <1>1, <1>2, <1>3 DEF DataInv, CommitsHold
<1>6. LoadedIsCurrent'
  <2> SUFFICES ASSUME NEW d \in Calls, Importing(d)', NEW f \in Fields \ overtaken'[d]
               PROVE  loaded[d][f] = vehicle'[body[d].vehicle][f]
    BY <1>1 DEF LoadedIsCurrent
  <2> DEFINE v == body[d].vehicle
  <2>1. d # c /\ Importing(d) /\ v \in Vehicles
    BY <1>3 DEF DataInv, CommitsHold
  <2>2. f \notin overtaken[d] /\ (holder[v] = c => f \notin Dirty(c))
    BY <2>1 DEF Commit, Importing, SameVehicle
  <2>3. vehicle'[v][f] = vehicle[v][f]
    <3>1. vehicle'[v] = Updated(c, v) /\ f \in Fields
      BY <1>1, <2>1
    <3>2. Updated(c, v)[f] = vehicle[v][f]
      BY <2>2, <3>1 DEF Updated
    <3>3. QED
      BY <3>1, <3>2
  <2>4. QED
    BY <2>1, <2>2, <2>3 DEF DataInv, LoadedIsCurrent
<1>7. QED
  BY <1>4, <1>5, <1>6 DEF DataInv

(* Every step keeps what is known of the readings and the locks. *)
LEMMA DataStep == DataInv /\ [Next]_vars => DataInv'
<1> SUFFICES ASSUME DataInv, [Next]_vars PROVE DataInv'
  OBVIOUS
<1>1. TypeOK /\ TypeOK'
  BY TypeStep DEF DataInv
<1>2. ASSUME NEW c \in Calls, Lookup(c) PROVE DataInv'
  <2>1. PICK phase \in {"answered", "select", "price"} : Goto(c, phase)
    BY <1>2 DEF Lookup, AnswerWith
  <2>2. QED
    BY <1>1, <1>2, <2>1, DataQuietStep DEF Lookup
<1>3. ASSUME NEW c \in Calls, SelectVehicle(c) PROVE DataInv'
  <2>1. PICK phase \in {"insert", "refused"} :
          /\ Goto(c, phase)
          /\ phase = "insert" => body[c].vehicle \in Vehicles /\ loaded'[c] = vehicle[body[c].vehicle]
    BY <1>1, <1>3 DEF SelectVehicle, TypeOK
  <2>2. \A d \in Calls : d # c => loaded'[d] = loaded[d]
    BY <1>1, <1>3 DEF SelectVehicle, TypeOK
  <2>3. QED
    BY <1>1, <1>3, <2>1, <2>2, DataQuietStep DEF SelectVehicle
<1>4. ASSUME NEW c \in Calls, InsertPrice(c) PROVE DataInv'
  <2>1. body[c].type = "fuel_price"
    BY <1>1, <1>4 DEF InsertPrice, TypeOK
  <2>2. QED
    BY <1>1, <1>4, <2>1, DataQuietStep DEF InsertPrice
<1>5. ASSUME NEW c \in Calls, InsertReceipt(c) PROVE DataInv'
  <2>1. PICK phase \in {"update", "commit"} :
          Goto(c, phase) /\ (phase = "commit" => body[c].type # "vehicle")
    BY <1>5 DEF InsertReceipt
  <2>2. body[c].type = "vehicle" => Importing(c) /\ body[c].vehicle \in Vehicles
    BY <1>5 DEF InsertReceipt, Importing, DataInv, CommitsHold
  <2>3. QED
    BY <1>1, <1>5, <2>1, <2>2, DataQuietStep DEF InsertReceipt
<1>6. ASSUME NEW c \in Calls, ReceiptClashes(c) PROVE DataInv'
  BY <1>1, <1>6, DataQuietStep DEF ReceiptClashes, Rollback
<1>7. ASSUME NEW c \in Calls, UpdateVehicle(c) PROVE DataInv'
  <2>1. Importing(c) /\ body[c].vehicle \in Vehicles
    BY <1>1, <1>7 DEF UpdateVehicle, Importing, DataInv, TypeOK, CommitsHold
  <2>2. Goto(c, "commit") /\ UNCHANGED <<vehicle, body, loaded, overtaken>>
    BY <1>7 DEF UpdateVehicle
  <2>3. Dirty(c)' = Dirty(c)
    BY <2>2 DEF Dirty
  <2>4. /\ Dirty(c) # {} => holder'[body[c].vehicle] = c
        /\ \A v \in Vehicles : \/ holder'[v] = holder[v]
                               \/ holder[v] = Nobody /\ holder'[v] = c /\ body[c].vehicle = v
    BY <1>1, <1>7, <2>1 DEF UpdateVehicle, TypeOK
  <2>5. QED
    BY <1>1, <2>1, <2>2, <2>3, <2>4, DataQuietStep
<1>8. ASSUME NEW c \in Calls, Commit(c) PROVE DataInv'
  BY <1>1, <1>8, DataCommit
<1>9. ASSUME NEW c \in Calls, Concurrent(c) PROVE DataInv'
  <2>1. PICK phase \in {"answered", "409"} : Goto(c, phase)
    BY <1>9 DEF Concurrent, AnswerWith
  <2>2. QED
    BY <1>1, <1>9, <2>1, DataQuietStep DEF Concurrent
<1>10. ASSUME NEW c \in Calls, Crash(c) PROVE DataInv'
  BY <1>1, <1>10, DataQuietStep DEF Crash, Rollback
<1>11. ASSUME UNCHANGED vars PROVE DataInv'
  BY <1>1, <1>11 DEF vars, DataInv, HoldersImport, CommitsHold, LoadedIsCurrent, Importing, Dirty
<1>12. QED
  BY <1>2, <1>3, <1>4, <1>5, <1>6, <1>7, <1>8, <1>9, <1>10, <1>11 DEF Next, Step

(* So does the invariant of what the receipts stand for. *)
LEMMA DataAlways == Spec => [](DataInv /\ ReceiptInv)
<1>1. Init => DataInv
  <2> SUFFICES ASSUME Init PROVE DataInv
    OBVIOUS
  <2>1. QED
    BY TypeInit DEF Init, DataInv, HoldersImport, CommitsHold, LoadedIsCurrent, Importing
<1>2. QED
  BY <1>1, DataStep, ReceiptInit, ReceiptStep, PTL DEF Spec

(* Only a commit adds a receipt or changes a vehicle. *)
LEMMA OnlyCommitsWrite ==
  ASSUME [Next]_vars
  PROVE  UNCHANGED <<vehicle, receipts>> \/ \E c \in Calls : Commit(c)
BY DEF Next, Step, vars, Lookup, SelectVehicle, InsertPrice, InsertReceipt, ReceiptClashes, Rollback,
   UpdateVehicle, Concurrent, Crash

(* No technical value changes without a receipt that names it, and every       *)
(* import that was not overtaken is applied, for any interleaving.             *)
THEOREM DataFollowReceipts == Spec => TechnicalDataFollowsReceipts
<1> DEFINE Explained(v, f) ==
      /\ vehicle'[v][f] # vehicle[v][f] =>
           \E r \in NewReceipts(v) : f \in DOMAIN r.body.changes /\ r.body.changes[f] = vehicle'[v][f]
      /\ \A r \in NewReceipts(v) : f \in DOMAIN r.body.changes \ overtaken[r.id]
           => vehicle'[v][f] = r.body.changes[f]
<1>1. ASSUME DataInv, ReceiptInv, [Next]_vars, NEW v \in Vehicles, NEW f \in Fields
      PROVE  Explained(v, f)
  <2>1. CASE UNCHANGED <<vehicle, receipts>>
    BY <2>1 DEF NewReceipts
  <2>2. ASSUME NEW c \in Calls, Commit(c) PROVE Explained(v, f)
    <3> DEFINE new == [id |-> c, key |-> key[c], body |-> body[c]]
    <3>1. /\ pc[c] = "commit" /\ receipts' = receipts \cup {new}
          /\ vehicle'[v] = Updated(c, v)
      BY <2>2 DEF Commit
    <3>2. new \notin receipts
      BY <1>1, <3>1 DEF ReceiptInv, RowsAreAnswered
    <3>3. NewReceipts(v) = IF body[c].type = "vehicle" /\ body[c].vehicle = v THEN {new} ELSE {}
      BY <3>1, <3>2 DEF NewReceipts
    <3>4. holder[v] = c => body[c].type = "vehicle" /\ body[c].vehicle = v
      BY <1>1, NobodyAssumption DEF DataInv, TypeOK, HoldersImport
    <3>5. \A g \in Dirty(c) : g \in DOMAIN body[c].changes
      BY DEF Dirty
    <3>6. vehicle'[v][f] = IF holder[v] = c /\ f \in Dirty(c) THEN body[c].changes[f] ELSE vehicle[v][f]
      BY <3>1, <3>5 DEF Updated, Attributes
    <3>7. ASSUME vehicle'[v][f] # vehicle[v][f]
          PROVE  \E r \in NewReceipts(v) : f \in DOMAIN r.body.changes /\ r.body.changes[f] = vehicle'[v][f]
      <4>1. /\ new \in NewReceipts(v) /\ f \in DOMAIN new.body.changes
            /\ new.body.changes[f] = vehicle'[v][f]
        BY <3>3, <3>4, <3>5, <3>6, <3>7
      <4>2. QED
        BY <4>1
    <3>8. ASSUME body[c].type = "vehicle", body[c].vehicle = v, f \in DOMAIN body[c].changes \ overtaken[c]
          PROVE  vehicle'[v][f] = body[c].changes[f]
      <4>1. Importing(c)
        BY <3>1, <3>8 DEF Importing
      <4>2. CASE f \in Dirty(c)
        BY <1>1, <3>1, <3>6, <3>8, <4>1, <4>2 DEF DataInv, CommitsHold
      <4>3. CASE f \notin Dirty(c)
        <5>1. body[c].changes[f] = loaded[c][f]
          BY <3>8, <4>3 DEF Dirty
        <5>2. loaded[c][f] = vehicle[v][f]
          BY <1>1, <3>8, <4>1 DEF DataInv, LoadedIsCurrent
        <5>3. QED
          BY <3>6, <4>3, <5>1, <5>2
      <4>4. QED
        BY <4>2, <4>3
    <3>9. QED
      BY <3>3, <3>7, <3>8
  <2>3. QED
    BY <1>1, <2>1, <2>2, OnlyCommitsWrite
<1>2. DataInv /\ ReceiptInv /\ [Next]_vars => [\A v \in Vehicles, f \in Fields : Explained(v, f)]_vars
  BY <1>1
<1>3. QED
  BY <1>2, DataAlways, PTL DEF Spec, TechnicalDataFollowsReceipts

-----------------------------------------------------------------------------
(* The outbox worker. *)

(* The inductive invariant.  The limit of attempts needs the rows a worker    *)
(* holds to be open, which needs that no other worker holds them.             *)
HoldInv == OutboxTypeOK /\ NoConcurrentSends /\ LockedRowsAreOpen

(* A poll takes only rows that are open and that nobody holds. *)
LEMMA PollHolds ==
  ASSUME HoldInv, NEW w \in Workers, Poll(w)
  PROVE  HoldInv'
<1> USE DEF HoldInv
<1>1. batch' = [batch EXCEPT ![w] = {e \in Events : Claimable(e)}]
      /\ UNCHANGED <<status, attempts, tried, accepted, sent, received, crashes>>
  BY DEF Poll, rows, world
<1>2. batch[w] = {}
  BY DEF OutboxTypeOK, Poll
<1>3. OutboxTypeOK'
  BY <1>1, <1>2 DEF OutboxTypeOK, Poll
<1>4. NoConcurrentSends'
  <2> SUFFICES ASSUME NEW x \in Workers, NEW y \in Workers, x # y
               PROVE  batch'[x] \cap batch'[y] = {}
    BY DEF NoConcurrentSends
  <2>1. CASE x # w /\ y # w
    BY <1>1, <2>1 DEF OutboxTypeOK, NoConcurrentSends
  <2>2. CASE x = w \/ y = w
    BY <1>1, <2>2 DEF OutboxTypeOK, Claimable
  <2>3. QED
    BY <2>1, <2>2
<1>5. LockedRowsAreOpen'
  BY <1>1 DEF OutboxTypeOK, LockedRowsAreOpen, Claimable
<1>6. QED
  BY <1>3, <1>4, <1>5

(* Ending a transaction keeps what the other workers hold. *)
LEMMA EndHolds ==
  ASSUME HoldInv, NEW w \in Workers, EndTransaction(w), wpc' \in [Workers -> {"down", "idle", "deliver"}],
         \A x \in Workers : x # w => wpc'[x] = wpc[x]
  PROVE  /\ batch' \in [Workers -> SUBSET Events]
         /\ tried' \in [Workers -> SUBSET Events]
         /\ accepted' \in [Workers -> SUBSET Events]
         /\ \A x \in Workers : /\ accepted'[x] \subseteq tried'[x] /\ tried'[x] \subseteq batch'[x]
                               /\ wpc'[x] # "deliver" => batch'[x] = {}
         /\ NoConcurrentSends'
         /\ \A x \in Workers : batch'[x] = {} \/ (x # w /\ batch'[x] = batch[x])
<1> USE DEF HoldInv
<1>1. /\ batch' = [batch EXCEPT ![w] = {}]
      /\ tried' = [tried EXCEPT ![w] = {}]
      /\ accepted' = [accepted EXCEPT ![w] = {}]
  BY DEF EndTransaction
<1>2. \A x \in Workers : /\ batch'[x] = IF x = w THEN {} ELSE batch[x]
                         /\ tried'[x] = IF x = w THEN {} ELSE tried[x]
                         /\ accepted'[x] = IF x = w THEN {} ELSE accepted[x]
  BY <1>1 DEF OutboxTypeOK
<1>3. /\ batch' \in [Workers -> SUBSET Events]
      /\ tried' \in [Workers -> SUBSET Events]
      /\ accepted' \in [Workers -> SUBSET Events]
  BY <1>1 DEF OutboxTypeOK
<1>4. \A x \in Workers : /\ accepted'[x] \subseteq tried'[x] /\ tried'[x] \subseteq batch'[x]
                         /\ wpc'[x] # "deliver" => batch'[x] = {}
  BY <1>2 DEF OutboxTypeOK
<1>5. NoConcurrentSends'
  BY <1>2 DEF NoConcurrentSends
<1>6. QED
  BY <1>2, <1>3, <1>4, <1>5

(* A commit changes only rows its worker holds, and each by one attempt. *)
LEMMA CommitHolds ==
  ASSUME HoldInv, NEW w \in Workers, CommitBatch(w)
  PROVE  HoldInv'
<1> USE DEF HoldInv
<1>1. wpc' \in [Workers -> {"down", "idle", "deliver"}] /\ \A x \in Workers : x # w => wpc'[x] = wpc[x]
  BY DEF OutboxTypeOK, CommitBatch
<1>2. ASSUME NEW e \in Events
      PROVE  IF e \in batch[w]
             THEN attempts'[e] = attempts[e] + 1 /\ attempts[e] < MaxAttempts
             ELSE attempts'[e] = attempts[e] /\ status'[e] = status[e]
  BY DEF OutboxTypeOK, LockedRowsAreOpen, CommitBatch, AttemptsAfter
<1>3. attempts' \in [Events -> 0 .. MaxAttempts]
  <2>1. \A e \in Events : attempts'[e] \in 0 .. MaxAttempts
    BY <1>2, LimitsAssumption DEF OutboxTypeOK
  <2>2. attempts' = [e \in Events |-> AttemptsAfter(w, e)]
    BY DEF CommitBatch
  <2>3. QED
    BY <2>1, <2>2
<1>4. status' \in [Events -> {"absent", "pending", "delivered"}]
  BY DEF OutboxTypeOK, CommitBatch
<1>5. /\ batch' \in [Workers -> SUBSET Events]
      /\ tried' \in [Workers -> SUBSET Events]
      /\ accepted' \in [Workers -> SUBSET Events]
      /\ \A x \in Workers : /\ accepted'[x] \subseteq tried'[x] /\ tried'[x] \subseteq batch'[x]
                            /\ wpc'[x] # "deliver" => batch'[x] = {}
      /\ NoConcurrentSends'
      /\ \A x \in Workers : batch'[x] = {} \/ (x # w /\ batch'[x] = batch[x])
  BY <1>1, EndHolds DEF CommitBatch
<1>6. OutboxTypeOK'
  BY <1>1, <1>3, <1>4, <1>5 DEF OutboxTypeOK, CommitBatch, world
<1>7. LockedRowsAreOpen'
  <2> SUFFICES ASSUME NEW x \in Workers, NEW e \in batch'[x]
               PROVE  status'[e] = "pending" /\ attempts'[e] < MaxAttempts
    BY DEF LockedRowsAreOpen
  <2>1. x # w /\ e \in batch[x] /\ e \in Events
    BY <1>5 DEF OutboxTypeOK
  <2>2. e \notin batch[w]
    BY <2>1 DEF NoConcurrentSends
  <2>3. QED
    BY <1>2, <2>1, <2>2 DEF LockedRowsAreOpen
<1>8. QED
  BY <1>5, <1>6, <1>7

(* A counter stays within its bound, and counts up to it. *)
LEMMA CountUpType ==
  ASSUME NEW n \in 0 .. MaxCount
  PROVE  /\ CountUp(n) \in 0 .. MaxCount
         /\ n < MaxCount => CountUp(n) = n + 1
         /\ n >= MaxCount => n = MaxCount /\ CountUp(n) = MaxCount
BY LimitsAssumption DEF CountUp

(* A worker that dies forgets its batch and changes no row. *)
LEMMA DieHolds ==
  ASSUME HoldInv, NEW w \in Workers, Die(w),
         sent' \in [Events -> 0 .. MaxCount], received' \in SUBSET Events
  PROVE  HoldInv'
<1> USE DEF HoldInv
<1>1. /\ wpc' \in [Workers -> {"down", "idle", "deliver"}]
      /\ \A x \in Workers : x # w => wpc'[x] = wpc[x]
      /\ crashes' \in 0 .. MaxCount /\ UNCHANGED <<status, attempts>>
  BY CountUpType DEF OutboxTypeOK, Die, rows
<1>2. /\ batch' \in [Workers -> SUBSET Events]
      /\ tried' \in [Workers -> SUBSET Events]
      /\ accepted' \in [Workers -> SUBSET Events]
      /\ \A x \in Workers : /\ accepted'[x] \subseteq tried'[x] /\ tried'[x] \subseteq batch'[x]
                            /\ wpc'[x] # "deliver" => batch'[x] = {}
      /\ NoConcurrentSends'
      /\ \A x \in Workers : batch'[x] = {} \/ (x # w /\ batch'[x] = batch[x])
  BY <1>1, EndHolds DEF Die
<1>3. OutboxTypeOK'
  BY <1>1, <1>2 DEF OutboxTypeOK
<1>4. LockedRowsAreOpen'
  BY <1>1, <1>2 DEF LockedRowsAreOpen
<1>5. QED
  BY <1>2, <1>3, <1>4

(* What a post does to the counters is well typed. *)
LEMMA PostType ==
  ASSUME OutboxTypeOK, NEW e \in Events, NEW outcome
  PROVE  /\ [sent EXCEPT ![e] = CountUp(@)] \in [Events -> 0 .. MaxCount]
         /\ Reached(e, outcome) \in SUBSET Events
<1>1. sent[e] \in 0 .. MaxCount /\ sent \in [Events -> 0 .. MaxCount] /\ received \in SUBSET Events
  BY DEF OutboxTypeOK
<1>2. CountUp(sent[e]) \in 0 .. MaxCount
  BY <1>1, CountUpType
<1>3. QED
  BY <1>1, <1>2 DEF Reached

(* Posting an event changes no row and no lock. *)
LEMMA SendHolds ==
  ASSUME HoldInv, NEW w \in Workers, NEW e \in Events, NEW outcome, Send(w, e, outcome)
  PROVE  HoldInv'
<1> USE DEF HoldInv
<1>1. /\ UNCHANGED <<status, attempts, wpc, batch, crashes>>
      /\ tried' = [tried EXCEPT ![w] = tried[w] \cup {e}]
      /\ e \in batch[w]
  BY DEF Send, rows, IsNext
<1>2. accepted' = accepted \/ accepted' = [accepted EXCEPT ![w] = accepted[w] \cup {e}]
  BY DEF Send
<1>3. sent' \in [Events -> 0 .. MaxCount] /\ received' \in SUBSET Events
  BY PostType DEF Send
<1>4. OutboxTypeOK'
  <2>1. tried' \in [Workers -> SUBSET Events] /\ accepted' \in [Workers -> SUBSET Events]
    BY <1>1, <1>2 DEF OutboxTypeOK
  <2>2. \A x \in Workers : accepted'[x] \subseteq tried'[x] /\ tried'[x] \subseteq batch'[x]
    BY <1>1, <1>2 DEF OutboxTypeOK
  <2>3. \A x \in Workers : wpc'[x] # "deliver" => batch'[x] = {}
    BY <1>1 DEF OutboxTypeOK
  <2>4. QED
    BY <1>1, <1>3, <2>1, <2>2, <2>3 DEF OutboxTypeOK
<1>5. QED
  BY <1>1, <1>4 DEF NoConcurrentSends, LockedRowsAreOpen

(* Every reachable state is well typed, no two workers hold one event, and a   *)
(* held row is pending with attempts left.                                     *)
THEOREM HoldCorrect == OutboxSpec => []HoldInv
<1>1. OutboxInit => HoldInv
  BY LimitsAssumption DEF OutboxInit, HoldInv, OutboxTypeOK, NoConcurrentSends, LockedRowsAreOpen
<1>2. HoldInv /\ [OutboxNext]_outboxVars => HoldInv'
  <2> SUFFICES ASSUME HoldInv, [OutboxNext]_outboxVars PROVE HoldInv'
    OBVIOUS
  <2>1. CASE \E e \in Events : Emit(e)
    <3>1. PICK e \in Events : Emit(e)
      BY <2>1
    <3>2. OutboxTypeOK'
      BY <3>1 DEF HoldInv, OutboxTypeOK, Emit, worker, world
    <3>3. NoConcurrentSends'
      BY <3>1 DEF HoldInv, NoConcurrentSends, Emit, worker
    <3>4. LockedRowsAreOpen'
      BY <3>1 DEF HoldInv, OutboxTypeOK, LockedRowsAreOpen, Emit, worker
    <3>5. QED
      BY <3>2, <3>3, <3>4 DEF HoldInv
  <2>2. ASSUME NEW w \in Workers, Restart(w) PROVE HoldInv'
    BY <2>2 DEF HoldInv, OutboxTypeOK, NoConcurrentSends, LockedRowsAreOpen, Restart, rows, world
  <2>3. ASSUME NEW w \in Workers, CrashWorker(w) PROVE HoldInv'
    BY <2>3, DieHolds DEF HoldInv, OutboxTypeOK, CrashWorker, world
  <2>4. ASSUME NEW w \in Workers, NEW e \in Events, NEW outcome, SendRaises(w, e, outcome) PROVE HoldInv'
    BY <2>4, DieHolds, PostType DEF HoldInv, SendRaises
  <2>5. CASE UNCHANGED outboxVars
    BY <2>5 DEF HoldInv, OutboxTypeOK, NoConcurrentSends, LockedRowsAreOpen, outboxVars, rows, worker, world
  <2>6. QED
    BY <2>1, <2>2, <2>3, <2>4, <2>5, PollHolds, SendHolds, CommitHolds DEF OutboxNext, Work
<1>3. QED
  BY <1>1, <1>2, PTL DEF OutboxSpec

(* Two workers never hold the same event. *)
THEOREM SendsAreExclusive == OutboxSpec => []NoConcurrentSends
<1>1. HoldInv => NoConcurrentSends
  BY DEF HoldInv
<1>2. QED
  BY <1>1, HoldCorrect, PTL

(* Every reachable state is well typed; in particular no row ever counts more *)
(* than the configured attempts.                                              *)
THEOREM OutboxTypeCorrect == OutboxSpec => []OutboxTypeOK
<1>1. HoldInv => OutboxTypeOK
  BY DEF HoldInv
<1>2. QED
  BY <1>1, HoldCorrect, PTL

(* What n8n accepted reached it, in the private state of a worker as in the    *)
(* committed rows.                                                             *)
AcceptedInv == AcceptedWasReceived /\ DeliveredWasReceived

(* What n8n accepted, and what is marked as delivered, did reach n8n. *)
THEOREM ReceiptCorrect == OutboxSpec => []AcceptedInv
<1>1. OutboxInit => AcceptedInv
  BY DEF OutboxInit, AcceptedInv, AcceptedWasReceived, DeliveredWasReceived
<1>2. HoldInv /\ AcceptedInv /\ [OutboxNext]_outboxVars => AcceptedInv'
  <2> SUFFICES ASSUME HoldInv, AcceptedInv, [OutboxNext]_outboxVars PROVE AcceptedInv'
    OBVIOUS
  <2> USE DEF HoldInv, OutboxTypeOK, AcceptedInv, AcceptedWasReceived, DeliveredWasReceived
  <2>1. ASSUME NEW e \in Events, Emit(e) PROVE AcceptedInv'
    BY <2>1 DEF Emit, worker, world
  <2>2. ASSUME NEW w \in Workers, Poll(w) \/ Restart(w) PROVE AcceptedInv'
    BY <2>2 DEF Poll, Restart, rows, world
  <2>3. ASSUME NEW w \in Workers, NEW e \in Events, NEW outcome \in Outcomes, Send(w, e, outcome)
        PROVE  AcceptedInv'
    <3>1. status' = status /\ received \subseteq received'
      BY <2>3 DEF Send, Reached, rows
    <3>2. ASSUME NEW x \in Workers PROVE accepted'[x] \subseteq received'
      <4>1. CASE outcome = "accepted"
        BY <2>3, <3>1, <4>1 DEF Send, Reached
      <4>2. CASE outcome # "accepted"
        BY <2>3, <3>1, <4>2 DEF Send, Succeeds
      <4>3. QED
        BY <4>1, <4>2
    <3>3. QED
      BY <3>1, <3>2
  <2>4. ASSUME NEW w \in Workers, CommitBatch(w) PROVE AcceptedInv'
    BY <2>4 DEF CommitBatch, EndTransaction, world
  <2>5. ASSUME NEW w \in Workers, CrashWorker(w) PROVE AcceptedInv'
    BY <2>5 DEF CrashWorker, Die, EndTransaction, rows, world
  <2>6. ASSUME NEW w \in Workers, NEW e \in Events, NEW outcome, SendRaises(w, e, outcome)
        PROVE  AcceptedInv'
    <3>1. status' = status /\ received \subseteq received'
      BY <2>6 DEF SendRaises, Die, Reached, rows
    <3>2. \A x \in Workers : accepted'[x] \subseteq accepted[x]
      BY <2>6 DEF SendRaises, Die, EndTransaction
    <3>3. QED
      BY <3>1, <3>2
  <2>7. CASE UNCHANGED outboxVars
    BY <2>7 DEF outboxVars, rows, worker, world
  <2>8. QED
    BY <2>1, <2>2, <2>3, <2>4, <2>5, <2>6, <2>7 DEF OutboxNext, Work
<1>3. QED
  BY <1>1, <1>2, HoldCorrect, PTL DEF OutboxSpec

(* An event is only marked as delivered after n8n received it. *)
THEOREM DeliveriesReachedTheConsumer == OutboxSpec => []DeliveredWasReceived
<1>1. AcceptedInv => DeliveredWasReceived
  BY DEF AcceptedInv
<1>2. QED
  BY <1>1, ReceiptCorrect, PTL

(* Once a delivery is committed, no step posts the event again or changes its  *)
(* status.                                                                     *)
THEOREM DeliveryIsFinal == OutboxSpec => NoSendAfterDelivery
<1>1. HoldInv /\ [OutboxNext]_outboxVars =>
        [\A e \in Events : status[e] = "delivered" => sent'[e] = sent[e] /\ status'[e] = status[e]]_outboxVars
  <2> SUFFICES ASSUME HoldInv, [OutboxNext]_outboxVars, NEW e \in Events, status[e] = "delivered"
               PROVE  sent'[e] = sent[e] /\ status'[e] = status[e]
    BY DEF outboxVars, rows, world
  <2> USE DEF HoldInv, OutboxTypeOK
  <2>1. \A w \in Workers : e \notin batch[w]
    BY DEF LockedRowsAreOpen
  <2>2. ASSUME NEW f \in Events, Emit(f) PROVE sent'[e] = sent[e] /\ status'[e] = status[e]
    BY <2>2 DEF Emit, world
  <2>3. ASSUME NEW w \in Workers, Poll(w) \/ Restart(w) \/ CrashWorker(w)
        PROVE  sent'[e] = sent[e] /\ status'[e] = status[e]
    BY <2>3 DEF Poll, Restart, CrashWorker, Die, rows, world
  <2>4. ASSUME NEW w \in Workers, NEW f \in Events, NEW outcome,
               Send(w, f, outcome) \/ SendRaises(w, f, outcome)
        PROVE  sent'[e] = sent[e] /\ status'[e] = status[e]
    BY <2>1, <2>4 DEF Send, SendRaises, Die, IsNext, rows
  <2>5. ASSUME NEW w \in Workers, CommitBatch(w) PROVE sent'[e] = sent[e] /\ status'[e] = status[e]
    BY <2>5 DEF CommitBatch, world
  <2>6. CASE UNCHANGED outboxVars
    BY <2>6 DEF outboxVars, rows, world
  <2>7. QED
    BY <2>2, <2>3, <2>4, <2>5, <2>6 DEF OutboxNext, Work
<1>2. QED
  BY <1>1, HoldCorrect, PTL DEF OutboxSpec, NoSendAfterDelivery

(* No other worker has tried an event that one worker holds. *)
LEMMA InFlightOfHolder ==
  ASSUME HoldInv, NEW w \in Workers, NEW e \in batch[w]
  PROVE  InFlight(e) = IF e \in tried[w] THEN 1 ELSE 0
BY DEF HoldInv, OutboxTypeOK, NoConcurrentSends, InFlight

(* Ending a transaction takes from flight exactly what the worker tried. *)
LEMMA InFlightAfterEnd ==
  ASSUME HoldInv, NEW w \in Workers, NEW e \in Events, EndTransaction(w)
  PROVE  InFlight(e)' = IF e \in tried[w] THEN 0 ELSE InFlight(e)
<1>1. \A x \in Workers : tried'[x] = IF x = w THEN {} ELSE tried[x]
  BY DEF HoldInv, OutboxTypeOK, EndTransaction
<1>2. CASE e \in tried[w]
  <2>1. \A x \in Workers : x # w => e \notin tried[x]
    BY <1>2 DEF HoldInv, OutboxTypeOK, NoConcurrentSends
  <2>2. QED
    BY <1>1, <1>2, <2>1 DEF InFlight
<1>3. CASE e \notin tried[w]
  BY <1>1, <1>3 DEF InFlight
<1>4. QED
  BY <1>2, <1>3

(* The attempts of a row differ from the posts of its event by the post in     *)
(* flight and at most one for each death.                                      *)
THEOREM CountedSends == OutboxSpec => []SendsAreCounted
<1>1. OutboxInit => SendsAreCounted
  <2> SUFFICES ASSUME OutboxInit, NEW e \in Events
               PROVE  /\ attempts[e] + InFlight(e) <= sent[e]
                      /\ sent[e] <= attempts[e] + InFlight(e) + crashes
    BY DEF SendsAreCounted
  <2>1. \A w \in Workers : tried[w] = {}
    BY DEF OutboxInit
  <2>2. InFlight(e) = 0 /\ attempts[e] = 0 /\ sent[e] = 0 /\ crashes = 0
    BY <2>1 DEF OutboxInit, InFlight
  <2>3. QED
    BY <2>2
<1>2. HoldInv /\ SendsAreCounted /\ [OutboxNext]_outboxVars => SendsAreCounted'
  <2> SUFFICES ASSUME HoldInv, SendsAreCounted, [OutboxNext]_outboxVars, NEW e \in Events
               PROVE  /\ attempts'[e] + InFlight(e)' <= sent'[e]
                      /\ sent'[e] <= attempts'[e] + InFlight(e)' + crashes'
    BY DEF SendsAreCounted
  <2> DEFINE Counted == /\ attempts'[e] + InFlight(e)' <= sent'[e]
                        /\ sent'[e] <= attempts'[e] + InFlight(e)' + crashes'
  <2>1. /\ attempts[e] \in Nat /\ sent[e] \in 0 .. MaxCount /\ crashes \in 0 .. MaxCount
        /\ InFlight(e) \in {0, 1}
        /\ attempts[e] + InFlight(e) <= sent[e]
        /\ sent[e] <= attempts[e] + InFlight(e) + crashes
    BY LimitsAssumption DEF HoldInv, OutboxTypeOK, SendsAreCounted, InFlight
  <2>2. ASSUME UNCHANGED <<tried, sent, attempts, crashes>> PROVE Counted
    BY <2>1, <2>2 DEF InFlight
  <2>3. ASSUME NEW w \in Workers, NEW f \in Events, NEW outcome, Send(w, f, outcome) PROVE Counted
    <3>1. UNCHANGED <<attempts, crashes>> /\ tried' = [tried EXCEPT ![w] = tried[w] \cup {f}]
      BY <2>3 DEF Send, rows
    <3>2. CASE f = e
      <4>1. InFlight(e) = 0
        BY <2>3, <3>2, InFlightOfHolder DEF Send, IsNext
      <4>2. InFlight(e)' = 1
        BY <3>1, <3>2 DEF HoldInv, OutboxTypeOK, InFlight
      <4>3. sent'[e] = CountUp(sent[e])
        BY <2>3, <3>2 DEF Send, HoldInv, OutboxTypeOK
      <4>4. attempts[e] < MaxAttempts
        BY <2>3, <3>2 DEF Send, IsNext, HoldInv, LockedRowsAreOpen
      <4>5. attempts[e] + 1 <= sent'[e] /\ sent'[e] <= sent[e] + 1
        BY <2>1, <4>1, <4>3, <4>4, LimitsAssumption DEF CountUp
      <4>6. QED
        BY <2>1, <3>1, <4>1, <4>2, <4>3, <4>5, LimitsAssumption DEF CountUp
    <3>3. CASE f # e
      <4>1. InFlight(e)' = InFlight(e)
        BY <3>1, <3>3 DEF HoldInv, OutboxTypeOK, InFlight
      <4>2. sent'[e] = sent[e]
        BY <2>3, <3>3 DEF Send, HoldInv, OutboxTypeOK
      <4>3. QED
        BY <2>1, <3>1, <4>1, <4>2
    <3>4. QED
      BY <3>2, <3>3
  <2>4. ASSUME NEW w \in Workers, CommitBatch(w) PROVE Counted
    <3>1. UNCHANGED <<sent, crashes>>
      BY <2>4 DEF CommitBatch, world
    <3>2. attempts'[e] = AttemptsAfter(w, e)
      BY <2>4 DEF CommitBatch
    <3>3. InFlight(e)' = IF e \in tried[w] THEN 0 ELSE InFlight(e)
      BY <2>4, InFlightAfterEnd DEF CommitBatch
    <3>4. e \in tried[w] => InFlight(e) = 1
      BY DEF InFlight
    <3>5. QED
      BY <2>1, <3>1, <3>2, <3>3, <3>4 DEF AttemptsAfter
  <2>5. ASSUME NEW w \in Workers, Die(w) PROVE
          /\ attempts'[e] = attempts[e] /\ crashes' = CountUp(crashes)
          /\ InFlight(e)' = IF e \in tried[w] THEN 0 ELSE InFlight(e)
          /\ e \in tried[w] => InFlight(e) = 1
    BY <2>5, InFlightAfterEnd DEF Die, rows, InFlight
  <2>6. ASSUME NEW w \in Workers, CrashWorker(w) PROVE Counted
    <3>1. sent' = sent /\ Die(w)
      BY <2>6 DEF CrashWorker, world
    <3>2. QED
      BY <2>1, <2>5, <3>1, LimitsAssumption DEF CountUp
  <2>7. ASSUME NEW w \in Workers, NEW f \in Events, NEW outcome, SendRaises(w, f, outcome)
        PROVE  Counted
    <3>1. CASE f = e
      <4>1. InFlight(e) = 0 /\ e \notin tried[w]
        BY <2>7, <3>1, InFlightOfHolder DEF SendRaises, IsNext
      <4>2. sent'[e] = CountUp(sent[e]) /\ Die(w)
        BY <2>7, <3>1 DEF SendRaises, HoldInv, OutboxTypeOK
      <4>3. QED
        BY <2>1, <2>5, <4>1, <4>2, LimitsAssumption DEF CountUp
    <3>2. CASE f # e
      <4>1. sent'[e] = sent[e] /\ Die(w)
        BY <2>7, <3>2 DEF SendRaises, HoldInv, OutboxTypeOK
      <4>2. QED
        BY <2>1, <2>5, <4>1, LimitsAssumption DEF CountUp
    <3>3. QED
      BY <3>1, <3>2
  <2>8. QED
    BY <2>2, <2>3, <2>4, <2>6, <2>7
       DEF OutboxNext, Work, Emit, Poll, Restart, outboxVars, rows, worker, world
<1>3. QED
  BY <1>1, <1>2, HoldCorrect, PTL DEF OutboxSpec

(* The workers, with their batches, locks and crashes, implement the abstract  *)
(* delivery: a post of the loop is a Post, the commit of a batch is a Settle.  *)
THEOREM DeliveryRefinement == OutboxSpec => ImplementsDelivery
<1>1. OutboxInit => Abstract!Init
  BY DEF OutboxInit, Abstract!Init
<1>2. HoldInv /\ AcceptedInv /\ SendsAreCounted /\ [OutboxNext]_outboxVars => [Abstract!Next]_(Abstract!delivery)
  <2> SUFFICES ASSUME HoldInv, AcceptedInv, SendsAreCounted, [OutboxNext]_outboxVars
               PROVE  Abstract!Next \/ UNCHANGED Abstract!delivery
    OBVIOUS
  <2>1. ASSUME NEW e \in Events, Emit(e) PROVE Abstract!Next
    BY <2>1 DEF Emit, world, Abstract!Next, Abstract!Emit
  <2>2. ASSUME NEW w \in Workers, Poll(w) \/ Restart(w) \/ CrashWorker(w)
        PROVE  UNCHANGED Abstract!delivery
    BY <2>2 DEF Poll, Restart, CrashWorker, Die, rows, world, Abstract!delivery
  <2>3. ASSUME NEW w \in Workers, NEW e \in Events, NEW outcome,
               Send(w, e, outcome) \/ SendRaises(w, e, outcome)
        PROVE  Abstract!Next
    <3>1. Abstract!Open(e)
      BY <2>3 DEF Send, SendRaises, IsNext, HoldInv, LockedRowsAreOpen, Abstract!Open
    <3>2. Abstract!Post(e)
      BY <2>3, <3>1 DEF Send, SendRaises, Die, rows, Reached, CountUp, Abstract!Post
    <3>3. QED
      BY <3>2 DEF Abstract!Next
  <2>4. ASSUME NEW w \in Workers, CommitBatch(w) PROVE Abstract!Next
    <3>1. accepted[w] \subseteq tried[w] /\ tried[w] \subseteq batch[w] /\ batch[w] \subseteq Events
      BY DEF HoldInv, OutboxTypeOK
    <3>2. accepted[w] \subseteq received
      BY DEF AcceptedInv, AcceptedWasReceived
    <3>3. ASSUME NEW e \in tried[w] PROVE Abstract!Open(e) /\ attempts[e] < sent[e]
      <4>1. InFlight(e) = 1 /\ e \in Events /\ e \in batch[w]
        BY <3>1 DEF InFlight
      <4>2. attempts[e] \in Nat /\ sent[e] \in Nat /\ attempts[e] + 1 <= sent[e]
        BY <4>1, LimitsAssumption DEF HoldInv, OutboxTypeOK, SendsAreCounted
      <4>3. QED
        BY <4>1, <4>2 DEF HoldInv, LockedRowsAreOpen, Abstract!Open
    <3>4. Abstract!Settle(tried[w], accepted[w])
      BY <2>4, <3>1, <3>2, <3>3 DEF CommitBatch, AttemptsAfter, world, Abstract!Settle
    <3>5. tried[w] \in SUBSET Events /\ accepted[w] \in SUBSET tried[w]
      BY <3>1
    <3>6. QED
      BY <3>4, <3>5 DEF Abstract!Next
  <2>5. CASE UNCHANGED outboxVars
    BY <2>5 DEF outboxVars, rows, world, Abstract!delivery
  <2>6. QED
    BY <2>1, <2>2, <2>3, <2>4, <2>5 DEF OutboxNext, Work
<1>3. QED
  BY <1>1, <1>2, HoldCorrect, ReceiptCorrect, CountedSends, PTL DEF OutboxSpec, ImplementsDelivery, Abstract!Spec
=============================================================================
