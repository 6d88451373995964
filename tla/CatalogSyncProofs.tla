------------------------- MODULE CatalogSyncProofs -------------------------
(***************************************************************************)
(* Theorems about CatalogSync, for any number of concurrent syncs, any      *)
(* spreadsheets and any number of edits, failures and crashes.              *)
(***************************************************************************)
EXTENDS CatalogSync, TLAPS

Open(s) == pc[s] \in {"visit", "merge"}

(* The identities a transaction has still to merge. *)
IdsOf(q)   == {q[j].id : j \in DOMAIN q}
IdsLeft(s) == IdsOf(rows[s]) \cup (IF pending[s].some THEN {pending[s].row.id} ELSE {})

(* Only a transaction that has begun its UPDATE holds rows; it goes on until   *)
(* it holds every row that was there then.                                     *)
PhasesFit ==
  \A s \in Syncs :
    /\ ~Open(s) => toVisit[s] = {} /\ \A i \in Ids : holder[i] # s
    /\ pc[s] = "merge" => toVisit[s] = {}
    /\ pending[s].some => pc[s] = "merge"
    /\ pc[s] \in {"update", "visit"} => rows[s] # <<>>
    /\ \A i \in existed[s] : spec[i].exists /\ (i \in toVisit[s] \/ holder[i] = s)
    /\ pc[s] = "visit" => \A i \in Ids : holder[i] = s => i \in existed[s]
    /\ toVisit[s] \subseteq existed[s]

(* Rows that are active exist, and of two transactions the one that began its  *)
(* UPDATE later found every row that the other one found.                      *)
ActiveExist  == \A i \in Ids : spec[i].active => spec[i].exists
ExistedNest  ==
  \A s, t \in Syncs : Open(s) /\ Open(t) => existed[s] \subseteq existed[t] \/ existed[t] \subseteq existed[s]

(* A row that was selected is still there, and as it was if it is locked. *)
PendingFits ==
  \A s \in Syncs : pending[s].some =>
    LET i == pending[s].row.id
    IN  /\ pending[s].loaded.exists => View(s, i).exists
        /\ holder[i] = s => pending[s].loaded = draft[s][i]

(* The download is what its rows make of the mirror, the last of each identity,*)
(* and until the merge begins all of it is still to be merged.                 *)
DownloadFits ==
  \A s \in Syncs : pc[s] \in {"update", "visit", "merge"} =>
    /\ Content(rows[s]) \subseteq download[s]
    /\ pc[s] # "merge" => download[s] \subseteq Content(rows[s])
    /\ \A d \in download[s] : d.id \in IdsOf(rows[s]) => d \in Content(rows[s])
    /\ pending[s].some /\ pending[s].row.id \notin IdsOf(rows[s]) =>
         /\ pending[s].row \in download[s]
         /\ \A d \in download[s] : d.id = pending[s].row.id => d = pending[s].row

(* A value that one of some rows has for a column of an identity. *)
Known(i, c, v, S) == \E d \in S : d.id = i /\ d.data[c] = v

(* A row that came after the UPDATE began has each column from a sync committed *)
(* since; a row that is drafted has it from there, or from the download, unless *)
(* it will be merged again.                                                    *)
UnheldHaveSource ==
  \A s \in Syncs, i \in Ids, c \in Columns :
    Open(s) /\ i \notin existed[s] /\ holder[i] # s /\ spec[i].exists =>
      Known(i, c, spec[i].data[c], beside[s])

DraftsHaveSource ==
  \A s \in Syncs, i \in Ids, c \in Columns : holder[i] = s =>
    \/ spec[i].exists /\ draft[s][i].data[c] = spec[i].data[c]
    \/ Known(i, c, draft[s][i].data[c], download[s])
    \/ i \in IdsLeft(s)

(* A row that is drafted active is one of the download, with all its columns,  *)
(* if the UPDATE has locked it.                                                *)
ActiveHaveSource ==
  \A s \in Syncs, i \in Ids : holder[i] = s /\ draft[s][i].active =>
    \/ [id |-> i, data |-> draft[s][i].data] \in download[s]
    \/ /\ i \notin existed[s]
       /\ \A c \in Columns : Known(i, c, draft[s][i].data[c], download[s] \cup beside[s])
    \/ i \in IdsLeft(s)

(* Only the UPDATE deactivates, and it does not see the rows that came later.  *)
NewStayActive ==
  \A s \in Syncs, i \in Ids :
    holder[i] = s /\ i \notin existed[s] /\ spec[i].active => draft[s][i].active

(* A merge that may leave its row inactive, as one that is complete, sees      *)
(* another active row.                                                         *)
SomeActive ==
  \A s \in Syncs : pc[s] = "merge" =>
    \/ \E i \in Ids : View(s, i).active
    \/ /\ ~AllMerged(s)
       /\ ~(pending[s].some /\ pending[s].loaded.active /\ holder[pending[s].row.id] # s)

(* With nothing committed beside it, what is merged is exactly what was        *)
(* downloaded.                                                                 *)
MergedAreExact ==
  \A s \in Syncs : pc[s] = "merge" /\ beside[s] = {} =>
    \A d \in download[s] : d.id \notin IdsLeft(s) =>
      holder[d.id] = s /\ draft[s][d.id].active /\ draft[s][d.id].data = d.data

(* What an active row with these columns is by a commit that leaves this. *)
Sourced(i, v, l) ==
  \/ [id |-> i, data |-> v] \in l.download
  \/ i \notin l.existed /\ \A c \in Columns : Known(i, c, v[c], l.download \cup l.beside)

CatalogInv ==
  /\ TypeOK /\ PhasesFit /\ ActiveExist /\ ExistedNest /\ PendingFits /\ DownloadFits
  /\ UnheldHaveSource /\ DraftsHaveSource /\ ActiveHaveSource
  /\ NewStayActive /\ SomeActive /\ MergedAreExact /\ MirrorHasASource

-----------------------------------------------------------------------------
(* The operators. *)

(* The records that stand for nothing have their types. *)
LEMMA Defaults ==
  /\ NoSpec \in VehicleCatalogSpec /\ ~NoSpec.exists /\ ~NoSpec.active /\ Fits(NoSpec.data)
  /\ NoRow \in [row : Row, loaded : VehicleCatalogSpec, some : BOOLEAN] /\ ~NoRow.some
<1>1. PICK d \in Data : Fits(d)
  <2>1. PICK v \in Values : v # Oversized
    BY SheetsAssumption
  <2>2. [c \in Columns |-> v] \in Data /\ Fits([c \in Columns |-> v])
    BY <2>1 DEF Data, Fits
  <2> QED BY <2>2
<1>2. (CHOOSE e \in Data : Fits(e)) \in Data /\ Fits(CHOOSE e \in Data : Fits(e))
  BY <1>1
<1>3. NoSpec \in VehicleCatalogSpec /\ ~NoSpec.exists /\ ~NoSpec.active /\ Fits(NoSpec.data)
  BY <1>2 DEF NoSpec, VehicleCatalogSpec
<1>4. PICK i \in Ids : TRUE
  BY SheetsAssumption
<1>5. [id |-> i, data |-> d] \in Row
  BY <1>1 DEF Row
<1>6. (CHOOSE r \in Row : TRUE) \in Row
  BY <1>5
<1>7. NoRow \in [row : Row, loaded : VehicleCatalogSpec, some : BOOLEAN] /\ ~NoRow.some
  BY <1>3, <1>6 DEF NoRow
<1> QED BY <1>3, <1>7

(* What the first row of a download adds to what the others make of it. *)
LEMMA ContentOfTail ==
  ASSUME NEW q \in Seq(Row), q # <<>>
  PROVE  /\ Tail(q) \in Seq(Row) /\ Head(q) \in Row
         /\ IdsOf(q) = IdsOf(Tail(q)) \cup {Head(q).id}
         /\ Content(Tail(q)) \subseteq Content(q)
         /\ Head(q).id \notin IdsOf(Tail(q)) => Head(q) \in Content(q)
         /\ \A d \in Content(q) : d.id \in IdsOf(Tail(q)) => d \in Content(Tail(q))
         /\ \A d \in Content(q) : d.id = Head(q).id /\ d.id \notin IdsOf(Tail(q)) => d = Head(q)
<1> DEFINE t == Tail(q)
<1>1. /\ t \in Seq(Row) /\ Len(t) = Len(q) - 1 /\ Len(q) \in Nat \ {0}
      /\ DOMAIN t = 1..Len(t) /\ DOMAIN q = 1..Len(q)
      /\ \A j \in DOMAIN t : t[j] = q[j + 1] /\ j + 1 \in DOMAIN q
      /\ Head(q) = q[1] /\ 1 \in DOMAIN q
      /\ \A j \in DOMAIN q : q[j] \in Row
      /\ \A j \in DOMAIN q : j # 1 => j - 1 \in DOMAIN t /\ t[j - 1] = q[j]
  OBVIOUS
<1> HIDE DEF t
<1>2. IdsOf(q) = IdsOf(t) \cup {Head(q).id}
  <2>1. \A e \in IdsOf(q) : e \in IdsOf(t) \cup {Head(q).id}
    <3> SUFFICES ASSUME NEW j \in DOMAIN q  PROVE q[j].id \in IdsOf(t) \cup {Head(q).id}
      BY DEF IdsOf
    <3>1. CASE j = 1
      BY <1>1, <3>1
    <3>2. CASE j # 1
      BY <1>1, <3>2 DEF IdsOf
    <3> QED BY <3>1, <3>2
  <2>2. \A e \in IdsOf(t) : e \in IdsOf(q)
    BY <1>1 DEF IdsOf
  <2>3. Head(q).id \in IdsOf(q)
    BY <1>1 DEF IdsOf
  <2> QED BY <2>1, <2>2, <2>3
<1>3. ASSUME NEW d \in Content(t)  PROVE d \in Content(q)
  <2>1. PICK j \in DOMAIN t : d = t[j] /\ \A k \in DOMAIN t : k > j => t[k].id # t[j].id
    BY DEF Content
  <2>2. ASSUME NEW k \in DOMAIN q, k > j + 1  PROVE q[k].id # q[j + 1].id
    <3>1. k # 1 /\ k - 1 > j /\ j \in Nat
      BY <1>1, <2>2
    <3> QED BY <1>1, <2>1, <3>1
  <2>3. j + 1 \in DOMAIN q /\ d = q[j + 1]
    BY <1>1, <2>1
  <2> QED BY <2>2, <2>3 DEF Content
<1>4. ASSUME Head(q).id \notin IdsOf(t)  PROVE Head(q) \in Content(q)
  <2>1. \A k \in DOMAIN q : k > 1 => q[k].id # q[1].id
    BY <1>1, <1>4 DEF IdsOf
  <2> QED BY <1>1, <2>1 DEF Content
<1>5. ASSUME NEW d \in Content(q)
      PROVE  /\ d.id \in IdsOf(t) => d \in Content(t)
             /\ d.id = Head(q).id /\ d.id \notin IdsOf(t) => d = Head(q)
  <2>1. PICK j \in DOMAIN q : d = q[j] /\ \A k \in DOMAIN q : k > j => q[k].id # q[j].id
    BY DEF Content
  <2>2. CASE j = 1
    <3>1. d = Head(q)
      BY <1>1, <2>1, <2>2
    <3>2. d.id \notin IdsOf(t)
      <4> SUFFICES ASSUME NEW k \in DOMAIN t  PROVE t[k].id # d.id
        BY DEF IdsOf
      <4>1. k + 1 > 1 /\ k + 1 \in DOMAIN q /\ t[k] = q[k + 1]
        BY <1>1
      <4> QED BY <2>1, <2>2, <4>1
    <3> QED BY <3>1, <3>2
  <2>3. CASE j # 1
    <3>1. j - 1 \in DOMAIN t /\ d = t[j - 1]
      BY <1>1, <2>1, <2>3
    <3>2. ASSUME NEW k \in DOMAIN t, k > j - 1  PROVE t[k].id # t[j - 1].id
      <4>1. k + 1 \in DOMAIN q /\ k + 1 > j /\ t[k] = q[k + 1]
        BY <1>1, <3>2
      <4> QED BY <2>1, <3>1, <4>1
    <3>3. d \in Content(t) /\ d.id \in IdsOf(t)
      BY <3>1, <3>2 DEF Content, IdsOf
    <3> QED BY <3>3
  <2> QED BY <2>2, <2>3
<1> QED BY <1>1, <1>2, <1>3, <1>4, <1>5 DEF t

(* The content of a sheet is some of its rows. *)
LEMMA ContentIsOfRows ==
  ASSUME NEW q \in Seq(Row)
  PROVE  Content(q) \subseteq Row /\ \A d \in Content(q) : d.id \in IdsOf(q)
BY DEF Content, IdsOf

(* A statement locks and changes one row of one synchronization. *)
LEMMA WriteFacts ==
  ASSUME TypeOK, NEW s \in Syncs, NEW i \in Ids, NEW row \in VehicleCatalogSpec, Write(s, i, row)
  PROVE  /\ holder[i] \in {Nobody, s} /\ holder'[i] = s /\ draft'[s][i] = row
         /\ \A j \in Ids : j # i => holder'[j] = holder[j] /\ draft'[s][j] = draft[s][j]
         /\ \A t \in Syncs : t # s => draft'[t] = draft[t]
         /\ holder' \in [Ids -> Syncs \cup {Nobody}]
         /\ draft' \in [Syncs -> [Ids -> VehicleCatalogSpec]]
BY DEF TypeOK, Write

(* What the flush makes of a row, loaded or new. *)
LEMMA MergedFacts ==
  ASSUME NEW b \in VehicleCatalogSpec, Fits(b.data),
         NEW p \in [row : Row, loaded : VehicleCatalogSpec, some : BOOLEAN], Fits(p.row.data),
         p.loaded.exists => b.exists
  PROVE  /\ Merged(b, p) \in VehicleCatalogSpec /\ Merged(b, p).exists /\ Fits(Merged(b, p).data)
         /\ ~p.loaded.exists => Merged(b, p).active /\ Merged(b, p).data = p.row.data
         /\ p.loaded.exists => Merged(b, p).active = (~p.loaded.active \/ b.active)
         /\ \A c \in Columns : p.loaded.exists => Merged(b, p).data[c] \in {b.data[c], p.row.data[c]}
         /\ p.loaded = b => Merged(b, p).active /\ Merged(b, p).data = p.row.data
<1>1. p.row.data \in Data /\ p.loaded \in VehicleCatalogSpec /\ p.row \in Row
  BY DEF Row
<1>2. CASE ~p.loaded.exists
  BY <1>1, <1>2 DEF Merged, VehicleCatalogSpec
<1>3. CASE p.loaded.exists
  <2>1. PICK a : a = IF p.loaded.active THEN b.active ELSE TRUE
    OBVIOUS
  <2>2. PICK d : d = [c \in Columns |-> IF p.loaded.data[c] = p.row.data[c] THEN b.data[c] ELSE p.row.data[c]]
    OBVIOUS
  <2>3. b.data \in [Columns -> Values] /\ p.row.data \in [Columns -> Values]
    BY <1>1 DEF VehicleCatalogSpec, Data
  <2>4. \A c \in Columns : d[c] \in {b.data[c], p.row.data[c]} /\ d[c] \in Values
    BY <2>2, <2>3
  <2>5. d \in Data
    BY <2>2, <2>4 DEF Data
  <2>6. Fits(d)
    BY <2>4 DEF Fits
  <2>7. a \in BOOLEAN /\ a = (~p.loaded.active \/ b.active)
    BY <1>1, <2>1 DEF VehicleCatalogSpec
  <2>8. Merged(b, p) = [b EXCEPT !.active = a, !.data = d]
    BY <1>3, <2>1, <2>2 DEF Merged, VehicleCatalogSpec
  <2>9. Merged(b, p) \in VehicleCatalogSpec /\ Merged(b, p).exists = b.exists
        /\ Merged(b, p).active = a /\ Merged(b, p).data = d
    BY <2>5, <2>7, <2>8 DEF VehicleCatalogSpec
  <2>10. ASSUME p.loaded = b  PROVE a = TRUE /\ d = p.row.data
    <3>1. \A c \in Columns : d[c] = p.row.data[c]
      BY <2>2, <2>10
    <3>2. d = p.row.data
      BY <2>3, <2>5, <3>1 DEF Data
    <3> QED BY <2>1, <2>10, <3>2 DEF VehicleCatalogSpec
  <2> QED BY <1>3, <2>4, <2>6, <2>7, <2>9, <2>10
<1> QED BY <1>2, <1>3


-----------------------------------------------------------------------------
(* What a step does. *)

Act(s) == Fetch(s) \/ FetchFails(s) \/ Step(s) \/ Crash(s)

(* A sync leaves what belongs to the others as it is, *)
OthersStay(s) ==
  /\ \A t \in Syncs \ {s} :
       /\ pc'[t] = pc[t] /\ rows'[t] = rows[t] /\ toVisit'[t] = toVisit[t] /\ pending'[t] = pending[t]
       /\ download'[t] = download[t] /\ existed'[t] = existed[t] /\ draft'[t] = draft[t]
  /\ \A i \in Ids : holder'[i] = holder[i] \/ {holder[i], holder'[i]} \subseteq {Nobody, s}

(* and changes committed rows, those it holds, only when it commits. *)
SpecStays(s) == spec' = spec /\ last' = last /\ \A t \in Syncs \ {s} : beside'[t] = beside[t]
SpecMoves(s) ==
  /\ pc[s] = "merge" /\ AllMerged(s)
  /\ \A i \in Ids : spec'[i] = View(s, i)
  /\ \A t \in Syncs \ {s} : beside'[t] = beside[t] \cup download[s]
  /\ last' = [download |-> download[s], existed |-> existed[s], beside |-> beside[s], some |-> TRUE]

(* A sync that ends, or fails before it begins, has nothing left. *)
OwnEnded(s) ==
  /\ ~Open(s)' /\ pc'[s] # "update" /\ toVisit'[s] = {} /\ existed'[s] = {} /\ ~pending'[s].some
  /\ \A i \in Ids : holder'[i] # s

(* The end of a transaction gives up its locks and its drafts, and nothing *)
(* else.                                                                   *)
LEMMA CloseFacts ==
  ASSUME TypeOK, NEW s \in Syncs, Close(s)
  PROVE  /\ OthersStay(s) /\ OwnEnded(s)
         /\ holder' \in [Ids -> Syncs \cup {Nobody}]
         /\ draft' \in [Syncs -> [Ids -> VehicleCatalogSpec]]
         /\ \A i \in Ids : /\ draft'[s][i] = NoSpec
                           /\ holder'[i] = IF holder[i] = s THEN Nobody ELSE holder[i]
         /\ pc' \in [Syncs -> {"idle", "update", "visit", "merge", "done"}]
         /\ rows' \in [Syncs -> Seq(Row)] /\ toVisit' \in [Syncs -> SUBSET Ids]
         /\ pending' \in [Syncs -> [row : Row, loaded : VehicleCatalogSpec, some : BOOLEAN]]
         /\ download' \in [Syncs -> SUBSET Row] /\ existed' \in [Syncs -> SUBSET Ids]
<1> USE Defaults, SyncsAssumption
<1>1. pc' = [pc EXCEPT ![s] = Rest(s)] /\ Rest(s) \in {"idle", "done"}
  BY DEF Close, Goto, Rest
<1>2. /\ \A i \in Ids : holder'[i] = IF holder[i] = s THEN Nobody ELSE holder[i]
      /\ holder' \in [Ids -> Syncs \cup {Nobody}]
  BY DEF Close, TypeOK
<1>3. /\ draft' \in [Syncs -> [Ids -> VehicleCatalogSpec]]
      /\ \A t \in Syncs \ {s} : draft'[t] = draft[t]
      /\ \A i \in Ids : draft'[s][i] = NoSpec
  BY DEF Close, TypeOK
<1>4. /\ <<>> \in Seq(Row)
      /\ rows' = [rows EXCEPT ![s] = <<>>] /\ toVisit' = [toVisit EXCEPT ![s] = {}]
      /\ pending' = [pending EXCEPT ![s] = NoRow] /\ download' = [download EXCEPT ![s] = {}]
      /\ existed' = [existed EXCEPT ![s] = {}]
  BY DEF Close
<1>5. OthersStay(s)
  BY <1>1, <1>2, <1>3, <1>4 DEF OthersStay, TypeOK
<1>6. OwnEnded(s)
  <2>1. pc'[s] \in {"idle", "done"} /\ toVisit'[s] = {} /\ existed'[s] = {} /\ pending'[s] = NoRow
    BY <1>1, <1>4 DEF TypeOK
  <2>2. \A i \in Ids : holder'[i] # s
    BY <1>2
  <2> QED BY <2>1, <2>2 DEF OwnEnded, Open
<1>7. /\ rows' \in [Syncs -> Seq(Row)] /\ toVisit' \in [Syncs -> SUBSET Ids]
      /\ pending' \in [Syncs -> [row : Row, loaded : VehicleCatalogSpec, some : BOOLEAN]]
      /\ download' \in [Syncs -> SUBSET Row] /\ existed' \in [Syncs -> SUBSET Ids]
  BY <1>4 DEF TypeOK
<1>8. pc' \in [Syncs -> {"idle", "update", "visit", "merge", "done"}]
  BY <1>1 DEF TypeOK
<1> QED BY <1>2, <1>3, <1>5, <1>6, <1>7, <1>8

(* A failing download ends a synchronization before it has written         *)
(* anything.                                                               *)
LEMMA FetchFailsFacts ==
  ASSUME TypeOK, PhasesFit, NEW s \in Syncs, FetchFails(s)
  PROVE  /\ OthersStay(s) /\ OwnEnded(s) /\ UNCHANGED <<sheet, spec, holder, edits, last, private>>
         /\ pc' \in [Syncs -> {"idle", "update", "visit", "merge", "done"}]
         /\ failures' \in 0..MaxFailures
<1>1. /\ pc[s] = "idle" /\ pc' = [pc EXCEPT ![s] = Rest(s)] /\ Rest(s) \in {"idle", "done"}
      /\ UNCHANGED <<sheet, spec, holder, edits, last, private>>
  BY DEF FetchFails, Goto, Rest
<1>2. toVisit[s] = {} /\ ~pending[s].some /\ \A i \in Ids : holder[i] # s
  BY <1>1 DEF PhasesFit, Open
<1>3. existed[s] = {}
  BY <1>2 DEF PhasesFit, TypeOK
<1>4. failures' \in 0..MaxFailures
  BY BoundsAssumption DEF FetchFails, TypeOK
<1>5. pc' \in [Syncs -> {"idle", "update", "visit", "merge", "done"}] /\ pc'[s] \in {"idle", "done"}
      /\ \A t \in Syncs \ {s} : pc'[t] = pc[t]
  BY <1>1 DEF TypeOK
<1>6. OthersStay(s)
  BY <1>1, <1>5 DEF OthersStay, private
<1>7. OwnEnded(s)
  BY <1>1, <1>2, <1>3, <1>5 DEF OwnEnded, Open, private
<1> QED BY <1>1, <1>4, <1>5, <1>6, <1>7

(* What a row that is written looks like. *)
LEMMA VisitFacts ==
  ASSUME TypeOK, NEW s \in Syncs, NEW i \in Ids, VisitRow(s, i)
  PROVE  LET row == Deactivated(spec[i])
         IN  /\ Write(s, i, row) /\ row \in VehicleCatalogSpec
             /\ row.exists = spec[i].exists /\ ~row.active /\ row.data = spec[i].data
<1>1. spec[i] \in [exists : BOOLEAN, active : BOOLEAN, data : Data]
  BY DEF TypeOK, VehicleCatalogSpec
<1>2. Deactivated(spec[i]) \in VehicleCatalogSpec
  BY <1>1 DEF Deactivated, VehicleCatalogSpec
<1>3. /\ Deactivated(spec[i]).exists = spec[i].exists /\ ~Deactivated(spec[i]).active
      /\ Deactivated(spec[i]).data = spec[i].data
  BY <1>1 DEF Deactivated
<1> QED BY <1>2, <1>3 DEF VisitRow

(* What a flush writes of the row that was merged. *)
LEMMA FlushFacts ==
  ASSUME TypeOK, PendingFits, NEW s \in Syncs, Flush(s)
  PROVE  LET i   == pending[s].row.id
             row == Merged(View(s, i), pending[s])
         IN  /\ i \in Ids /\ View(s, i) \in VehicleCatalogSpec /\ Write(s, i, row)
             /\ row \in VehicleCatalogSpec /\ row.exists /\ Fits(row.data)
             /\ ~pending[s].loaded.exists => row.active /\ row.data = pending[s].row.data
             /\ pending[s].loaded.exists => row.active = (~pending[s].loaded.active \/ View(s, i).active)
             /\ \A c \in Columns : pending[s].loaded.exists =>
                  row.data[c] \in {View(s, i).data[c], pending[s].row.data[c]}
             /\ pending[s].loaded = View(s, i) => row.active /\ row.data = pending[s].row.data
             /\ pc[s] = "merge" /\ pending[s].some /\ pending'[s] = NoRow
<1> DEFINE i   == pending[s].row.id
           row == Merged(View(s, i), pending[s])
<1>1. pending[s] \in [row : Row, loaded : VehicleCatalogSpec, some : BOOLEAN]
  BY DEF TypeOK
<1>2. i \in Ids /\ pending[s].row.data \in Data
  BY <1>1 DEF Row
<1>3. View(s, i) \in VehicleCatalogSpec /\ Fits(View(s, i).data)
  BY <1>2 DEF TypeOK, View
<1>4. /\ Write(s, i, row) /\ pc[s] = "merge" /\ pending[s].some /\ Fits(pending[s].row.data)
      /\ pending'[s] = NoRow
  BY DEF Flush, Refused, TypeOK
<1>5. pending[s].loaded.exists => View(s, i).exists
  BY <1>4 DEF PendingFits
<1> HIDE DEF i
<1> QED BY <1>1, <1>2, <1>3, <1>4, <1>5, MergedFacts DEF i

(* A step of one synchronization leaves the others alone; only the commit  *)
(* changes the table.                                                      *)
LEMMA ActFacts ==
  ASSUME TypeOK, PhasesFit, PendingFits, NEW s \in Syncs, Act(s)
  PROVE  /\ OthersStay(s)
         /\ (Commit(s) /\ SpecMoves(s)) \/ (~Commit(s) /\ SpecStays(s))
         /\ \/ OwnEnded(s)
            \/ Fetch(s) \/ BeginUpdate(s) \/ EndUpdate(s) \/ SelectSpec(s) \/ Flush(s)
            \/ \E i \in Ids : VisitRow(s, i)
<1>1. CASE Fetch(s)
  BY <1>1 DEF Fetch, Goto, OthersStay, SpecStays, Commit, TypeOK
<1>2. CASE FetchFails(s)
  BY <1>2, FetchFailsFacts DEF FetchFails, SpecStays, Commit, private
<1>3. CASE BeginUpdate(s)
  BY <1>3 DEF BeginUpdate, Goto, OthersStay, SpecStays, Commit, TypeOK
<1>4. CASE EndUpdate(s)
  BY <1>4 DEF EndUpdate, Goto, OthersStay, SpecStays, Commit, TypeOK, private
<1>5. CASE SelectSpec(s)
  BY <1>5 DEF SelectSpec, Goto, OthersStay, SpecStays, Commit, AllMerged, TypeOK
<1>6. CASE \E i \in Ids : VisitRow(s, i)
  <2>1. PICK i \in Ids : VisitRow(s, i)
    BY <1>6
  <2>2. Write(s, i, Deactivated(spec[i])) /\ Deactivated(spec[i]) \in VehicleCatalogSpec
    BY <2>1, VisitFacts
  <2>3. OthersStay(s)
    BY <2>1, <2>2, WriteFacts DEF VisitRow, OthersStay, TypeOK
  <2> QED BY <1>6, <2>1, <2>3 DEF VisitRow, SpecStays, Commit
<1>7. CASE Flush(s)
  <2>1. PICK i \in Ids, row \in VehicleCatalogSpec : Write(s, i, row)
    BY <1>7, FlushFacts
  <2>2. OthersStay(s)
    BY <1>7, <2>1, WriteFacts DEF Flush, OthersStay, TypeOK
  <2> QED BY <1>7, <2>2 DEF Flush, SpecStays, Commit, AllMerged
<1>8. CASE FlushFails(s)
  BY <1>8, CloseFacts DEF FlushFails, SpecStays, Commit, AllMerged, Refused
<1>9. ASSUME Commit(s)
      PROVE  OthersStay(s) /\ SpecMoves(s) /\ OwnEnded(s)
  BY <1>9, CloseFacts DEF Commit, SpecMoves, TypeOK
<1>10. CASE DeadlockAbort(s) /\ ~Commit(s)
  BY <1>10, CloseFacts DEF DeadlockAbort, SpecStays
<1>11. CASE Crash(s) /\ ~Commit(s)
  BY <1>11, CloseFacts DEF Crash, SpecStays
<1> QED BY <1>1, <1>2, <1>3, <1>4, <1>5, <1>6, <1>7, <1>8, <1>9, <1>10, <1>11 DEF Act, Step


(* The end of a transaction keeps the types ... *)
LEMMA CloseTypes ==
  ASSUME TypeOK, NEW s \in Syncs, Close(s),
         spec' \in [Ids -> VehicleCatalogSpec], \A i \in Ids : Fits(spec'[i].data),
         sheet' = sheet, edits' = edits, failures' \in 0..MaxFailures,
         beside' \in [Syncs -> SUBSET Row],
         last' \in [download : SUBSET Row, existed : SUBSET Ids, beside : SUBSET Row, some : BOOLEAN]
  PROVE  TypeOK'
<1>1. \A t \in Syncs, i \in Ids : draft'[t][i].exists <=> holder'[i] = t
  <2> SUFFICES ASSUME NEW t \in Syncs, NEW i \in Ids  PROVE draft'[t][i].exists <=> holder'[i] = t
    OBVIOUS
  <2>1. CASE t = s
    BY <2>1, CloseFacts, Defaults DEF OwnEnded
  <2>2. CASE t # s
    BY <2>2, CloseFacts, SyncsAssumption DEF OthersStay, TypeOK
  <2> QED BY <2>1, <2>2
<1>2. \A t \in Syncs, i \in Ids : Fits(draft'[t][i].data)
  <2> SUFFICES ASSUME NEW t \in Syncs, NEW i \in Ids  PROVE Fits(draft'[t][i].data)
    OBVIOUS
  <2>1. CASE t = s
    BY <2>1, CloseFacts, Defaults
  <2>2. CASE t # s
    BY <2>2, CloseFacts DEF OthersStay, TypeOK
  <2> QED BY <2>1, <2>2
<1>3. sheet' \in Sheets /\ edits' \in 0..MaxEdits
  BY DEF TypeOK
<1> QED BY <1>1, <1>2, <1>3, CloseFacts DEF TypeOK

(* ... as a statement does ... *)
LEMMA WriteTypes ==
  ASSUME TypeOK, NEW s \in Syncs, NEW i \in Ids, NEW row \in VehicleCatalogSpec, Write(s, i, row),
         row.exists, Fits(row.data), spec' = spec
  PROVE  /\ \A t \in Syncs, j \in Ids : draft'[t][j].exists <=> holder'[j] = t
         /\ \A t \in Syncs, j \in Ids : Fits(draft'[t][j].data) /\ Fits(spec'[j].data)
<1> SUFFICES ASSUME NEW t \in Syncs, NEW j \in Ids
             PROVE  /\ draft'[t][j].exists <=> holder'[j] = t
                    /\ Fits(draft'[t][j].data) /\ Fits(spec'[j].data)
  OBVIOUS
<1>1. (draft[t][j].exists <=> holder[j] = t) /\ Fits(draft[t][j].data) /\ Fits(spec'[j].data)
  BY DEF TypeOK
<1>2. CASE t = s /\ j = i
  BY <1>1, <1>2, WriteFacts
<1>3. CASE t = s /\ j # i
  BY <1>1, <1>3, WriteFacts
<1>4. CASE t # s /\ j = i
  BY <1>1, <1>4, WriteFacts, SyncsAssumption
<1>5. CASE t # s /\ j # i
  BY <1>1, <1>5, WriteFacts
<1> QED BY <1>2, <1>3, <1>4, <1>5

(* ... and so every step. *)
LEMMA ActTypes ==
  ASSUME TypeOK, PhasesFit, PendingFits, NEW s \in Syncs, Act(s)
  PROVE  TypeOK'
<1>1. CASE Fetch(s)
  <2>1. sheet \in Seq(Row) /\ Content(sheet) \subseteq Row
    BY SheetsAssumption, ContentIsOfRows DEF TypeOK
  <2> QED BY <1>1, <2>1 DEF Fetch, Goto, TypeOK
<1>2. CASE FetchFails(s)
  BY <1>2, FetchFailsFacts DEF TypeOK, private
<1>3. CASE BeginUpdate(s)
  BY <1>3 DEF BeginUpdate, Goto, TypeOK
<1>4. CASE EndUpdate(s)
  BY <1>4 DEF EndUpdate, Goto, TypeOK, private
<1>5. CASE SelectSpec(s)
  <2>1. rows[s] \in Seq(Row) /\ rows[s] # <<>>
    BY <1>5 DEF SelectSpec, TypeOK
  <2>2. Tail(rows[s]) \in Seq(Row) /\ Head(rows[s]) \in Row /\ Head(rows[s]).id \in Ids
    BY <2>1, ContentOfTail DEF Row
  <2>3. View(s, Head(rows[s]).id) \in VehicleCatalogSpec
    BY <2>2 DEF View, TypeOK
  <2>4. rows' \in [Syncs -> Seq(Row)]
        /\ pending' \in [Syncs -> [row : Row, loaded : VehicleCatalogSpec, some : BOOLEAN]]
    BY <1>5, <2>2, <2>3 DEF SelectSpec, TypeOK
  <2> QED BY <1>5, <2>4 DEF SelectSpec, TypeOK
<1>6. CASE \E i \in Ids : VisitRow(s, i)
  <2>1. PICK i \in Ids : VisitRow(s, i)
    BY <1>6
  <2>2. spec[i].exists
    BY <2>1 DEF VisitRow, PhasesFit
  <2>8. Fits(spec[i].data)
    BY DEF TypeOK
  <2>3. PICK row \in VehicleCatalogSpec : Write(s, i, row) /\ row.exists /\ Fits(row.data)
    BY <2>1, <2>2, <2>8, VisitFacts
  <2>4. spec' = spec
    BY <2>1 DEF VisitRow
  <2>5. /\ \A t \in Syncs, j \in Ids : draft'[t][j].exists <=> holder'[j] = t
        /\ \A t \in Syncs, j \in Ids : Fits(draft'[t][j].data) /\ Fits(spec'[j].data)
    BY <2>3, <2>4, WriteTypes
  <2>6. toVisit' \in [Syncs -> SUBSET Ids]
    BY <2>1 DEF VisitRow, TypeOK
  <2>7. /\ holder' \in [Ids -> Syncs \cup {Nobody}]
        /\ draft' \in [Syncs -> [Ids -> VehicleCatalogSpec]]
    BY <2>3, WriteFacts
  <2> QED BY <2>1, <2>5, <2>6, <2>7 DEF VisitRow, TypeOK
<1>7. CASE Flush(s)
  <2>1. PICK i \in Ids, row \in VehicleCatalogSpec : Write(s, i, row) /\ row.exists /\ Fits(row.data)
    BY <1>7, FlushFacts
  <2>2. spec' = spec
    BY <1>7 DEF Flush
  <2>3. /\ \A t \in Syncs, j \in Ids : draft'[t][j].exists <=> holder'[j] = t
        /\ \A t \in Syncs, j \in Ids : Fits(draft'[t][j].data) /\ Fits(spec'[j].data)
    BY <2>1, <2>2, WriteTypes
  <2>4. pending' \in [Syncs -> [row : Row, loaded : VehicleCatalogSpec, some : BOOLEAN]]
    BY <1>7, Defaults DEF Flush, TypeOK
  <2>5. /\ holder' \in [Ids -> Syncs \cup {Nobody}]
        /\ draft' \in [Syncs -> [Ids -> VehicleCatalogSpec]]
    BY <2>1, WriteFacts
  <2>6. UNCHANGED <<sheet, spec, pc, rows, toVisit, failures, edits, download, existed, beside, last>>
    BY <1>7 DEF Flush
  <2> QED BY <2>3, <2>4, <2>5, <2>6 DEF TypeOK
<1>8. CASE FlushFails(s)
  <2>1. Close(s) /\ UNCHANGED <<sheet, spec, failures, edits, beside, last>>
    BY <1>8 DEF FlushFails
  <2> QED BY <2>1, CloseTypes DEF TypeOK
<1>9. CASE Commit(s)
  <2>1. spec' \in [Ids -> VehicleCatalogSpec] /\ \A i \in Ids : Fits(spec'[i].data)
    BY <1>9 DEF Commit, View, TypeOK
  <2>2. beside' \in [Syncs -> SUBSET Row]
    BY <1>9 DEF Commit, TypeOK
  <2>3. last' \in [download : SUBSET Row, existed : SUBSET Ids, beside : SUBSET Row, some : BOOLEAN]
    BY <1>9 DEF Commit, TypeOK
  <2> QED BY <1>9, <2>1, <2>2, <2>3, CloseTypes DEF Commit, TypeOK
<1>10. CASE DeadlockAbort(s)
  BY <1>10, CloseTypes DEF DeadlockAbort, TypeOK
<1>11. CASE Crash(s)
  <2>1. failures' \in 0..MaxFailures
    BY <1>11, BoundsAssumption DEF Crash, TypeOK
  <2> QED BY <1>11, <2>1, CloseTypes DEF Crash, TypeOK
<1> QED BY <1>1, <1>2, <1>3, <1>4, <1>5, <1>6, <1>7, <1>8, <1>9, <1>10, <1>11 DEF Act, Step


(* Rows and phases of the other synchronizations are as before. *)
LEMMA OthersFacts ==
  ASSUME TypeOK, NEW s \in Syncs, OthersStay(s), NEW t \in Syncs \ {s}
  PROVE  /\ \A i \in Ids : (holder'[i] = t <=> holder[i] = t) /\ draft'[t][i] = draft[t][i]
         /\ Open(t)' = Open(t) /\ IdsLeft(t)' = IdsLeft(t) /\ AllMerged(t)' = AllMerged(t)
<1>1. t # s /\ t # Nobody /\ t \in Syncs
  BY SyncsAssumption
<1>2. ASSUME NEW i \in Ids  PROVE (holder'[i] = t <=> holder[i] = t) /\ draft'[t][i] = draft[t][i]
  BY <1>1 DEF OthersStay
<1>3. pc'[t] = pc[t] /\ rows'[t] = rows[t] /\ pending'[t] = pending[t]
  BY DEF OthersStay
<1> QED BY <1>2, <1>3 DEF Open, IdsLeft, AllMerged

(* A committed row is never deleted. *)
LEMMA SpecFacts ==
  ASSUME TypeOK, PhasesFit, PendingFits, NEW s \in Syncs, Act(s), NEW i \in Ids
  PROVE  /\ spec[i].exists => spec'[i].exists
         /\ spec'[i] # spec[i] => spec'[i] = draft[s][i] /\ holder[i] = s /\ Commit(s)
<1>1. spec'[i] = spec[i] \/ (Commit(s) /\ spec'[i] = View(s, i))
  BY ActFacts DEF SpecMoves, SpecStays
<1> QED BY <1>1 DEF View, TypeOK

(* Only a transaction that has begun its UPDATE holds rows, and it goes on *)
(* to every row it has found.                                              *)
LEMMA ActPhases ==
  ASSUME TypeOK, PhasesFit, PendingFits, NEW s \in Syncs, Act(s)
  PROVE  PhasesFit'
<1>0. OthersStay(s)
  BY ActFacts
<1> DEFINE Fit(t) == /\ ~Open(t) => toVisit[t] = {} /\ \A i \in Ids : holder[i] # t
                     /\ pc[t] = "merge" => toVisit[t] = {}
                     /\ pending[t].some => pc[t] = "merge"
                     /\ pc[t] \in {"update", "visit"} => rows[t] # <<>>
                     /\ \A i \in existed[t] : spec[i].exists /\ (i \in toVisit[t] \/ holder[i] = t)
                     /\ pc[t] = "visit" => \A i \in Ids : holder[i] = t => i \in existed[t]
                     /\ toVisit[t] \subseteq existed[t]
<1> SUFFICES ASSUME NEW t \in Syncs  PROVE Fit(t)'
  BY DEF PhasesFit
<1>1. Fit(t) /\ existed[t] \subseteq Ids
  BY DEF PhasesFit, TypeOK
<1>2. CASE t # s
  <2>1. /\ \A i \in Ids : holder'[i] = t <=> holder[i] = t
        /\ Open(t)' = Open(t)
    BY <1>0, <1>2, OthersFacts
  <2>2. /\ pc'[t] = pc[t] /\ rows'[t] = rows[t] /\ toVisit'[t] = toVisit[t]
        /\ pending'[t] = pending[t] /\ existed'[t] = existed[t]
    BY <1>0, <1>2 DEF OthersStay
  <2>3. \A i \in Ids : spec[i].exists => spec'[i].exists
    BY SpecFacts
  <2> QED BY <1>1, <2>1, <2>2, <2>3
<1>3. ASSUME t = s, OwnEnded(s)  PROVE Fit(s)'
  BY <1>3 DEF OwnEnded, Open
<1>4. ASSUME t = s, Fetch(s)  PROVE Fit(s)'
  <2>1. pc[s] = "idle" /\ pc'[s] = "update" /\ sheet # <<>> /\ rows'[s] = sheet
        /\ UNCHANGED <<spec, holder, toVisit, pending, existed>>
    BY <1>4 DEF Fetch, Goto, TypeOK
  <2> QED BY <1>1, <1>4, <2>1 DEF Open
<1>5. ASSUME t = s, BeginUpdate(s)  PROVE Fit(s)'
  <2>1. pc[s] = "update" /\ pc'[s] = "visit" /\ toVisit'[s] = {i \in Ids : spec[i].exists}
        /\ existed'[s] = toVisit'[s] /\ UNCHANGED <<spec, holder, rows, pending>>
    BY <1>5 DEF BeginUpdate, Goto, TypeOK
  <2> QED BY <1>1, <1>5, <2>1 DEF Open
<1>6. ASSUME t = s, EndUpdate(s)  PROVE Fit(s)'
  <2>1. pc[s] = "visit" /\ pc'[s] = "merge" /\ toVisit[s] = {}
        /\ UNCHANGED <<spec, holder, rows, pending, existed, toVisit>>
    BY <1>6 DEF EndUpdate, Goto, TypeOK, private
  <2> QED BY <1>1, <1>6, <2>1 DEF Open
<1>7. ASSUME t = s, SelectSpec(s)  PROVE Fit(s)'
  <2>1. pc[s] = "merge" /\ UNCHANGED <<pc, spec, holder, existed, toVisit>>
    BY <1>7 DEF SelectSpec
  <2> QED BY <1>1, <1>7, <2>1 DEF Open
<1>8. ASSUME t = s, Flush(s)  PROVE Fit(s)'
  <2>1. PICK i \in Ids, row \in VehicleCatalogSpec : Write(s, i, row) /\ pc[s] = "merge" /\ pending'[s] = NoRow
    BY <1>8, FlushFacts
  <2>2. UNCHANGED <<spec, pc, existed, toVisit>>
    BY <1>8 DEF Flush
  <2>3. \A j \in Ids : holder[j] = s => holder'[j] = s
    BY <2>1, WriteFacts
  <2> QED BY <1>1, <1>8, <2>1, <2>2, <2>3, Defaults DEF Open
<1>9. ASSUME t = s, NEW i \in Ids, VisitRow(s, i)  PROVE Fit(s)'
  <2>1. pc[s] = "visit" /\ i \in toVisit[s] /\ toVisit'[s] = toVisit[s] \ {i}
        /\ UNCHANGED <<spec, pc, rows, pending, existed>>
    BY <1>9 DEF VisitRow, TypeOK
  <2>2. \A j \in Ids : (j # i => holder'[j] = holder[j]) /\ holder'[i] = s
    BY <1>9, VisitFacts, WriteFacts
  <2> QED BY <1>1, <1>9, <2>1, <2>2 DEF Open
<1> QED BY <1>2, <1>3, <1>4, <1>5, <1>6, <1>7, <1>8, <1>9, ActFacts

(* A row that is active exists. *)
LEMMA ActExist ==
  ASSUME TypeOK, PhasesFit, PendingFits, ActiveExist, NEW s \in Syncs, Act(s)
  PROVE  ActiveExist'
<1> SUFFICES ASSUME NEW i \in Ids, spec'[i].active  PROVE spec'[i].exists
  BY DEF ActiveExist
<1>1. holder[i] = s => draft[s][i].exists
  BY DEF TypeOK
<1> QED BY <1>1, SpecFacts DEF ActiveExist

(* Of two transactions the later UPDATE goes on to have found what the     *)
(* earlier one did.                                                        *)
LEMMA ActNest ==
  ASSUME TypeOK, PhasesFit, PendingFits, ExistedNest, NEW s \in Syncs, Act(s)
  PROVE  ExistedNest'
<1>0. OthersStay(s)
  BY ActFacts
<1>1. \A t \in Syncs \ {s} : existed'[t] = existed[t] /\ Open(t)' = Open(t)
  BY <1>0, OthersFacts DEF OthersStay
<1>2. CASE BeginUpdate(s)
  <2>1. existed'[s] = {i \in Ids : spec[i].exists}
    BY <1>2 DEF BeginUpdate, TypeOK
  <2>2. \A t \in Syncs : existed[t] \subseteq existed'[s]
    BY <2>1 DEF PhasesFit, TypeOK
  <2> QED BY <1>1, <2>2 DEF ExistedNest
<1>3. CASE OwnEnded(s)
  BY <1>1, <1>3 DEF OwnEnded, ExistedNest
<1>4. CASE Fetch(s)
  <2>1. ~Open(s)'
    BY <1>4 DEF Fetch, Goto, Open, TypeOK
  <2> QED BY <1>1, <2>1 DEF ExistedNest
<1>5. CASE EndUpdate(s) \/ SelectSpec(s) \/ Flush(s) \/ \E i \in Ids : VisitRow(s, i)
  <2>1. Open(s) /\ existed'[s] = existed[s]
    BY <1>5 DEF EndUpdate, SelectSpec, Flush, VisitRow, private, Open
  <2> QED BY <1>1, <2>1 DEF ExistedNest
<1> QED BY <1>2, <1>3, <1>4, <1>5, ActFacts


(* A row that was selected is still there, and as it was if it is locked. *)
LEMMA ActPending ==
  ASSUME TypeOK, PhasesFit, PendingFits, NEW s \in Syncs, Act(s)
  PROVE  PendingFits'
<1>0. OthersStay(s)
  BY ActFacts
<1> SUFFICES ASSUME NEW t \in Syncs, pending'[t].some, NEW i \in Ids, i = pending'[t].row.id
             PROVE  /\ pending'[t].loaded.exists => View(t, i)'.exists
                    /\ holder'[i] = t => pending'[t].loaded = draft'[t][i]
  <2>1. TypeOK'
    BY ActTypes
  <2>2. \A t \in Syncs : pending'[t].row.id \in Ids
    BY <2>1 DEF TypeOK, Row
  <2> QED BY <2>2 DEF PendingFits, View
<1>1. CASE t # s
  <2>1. pending'[t] = pending[t] /\ draft'[t][i] = draft[t][i] /\ (holder'[i] = t <=> holder[i] = t)
    BY <1>0, <1>1, OthersFacts DEF OthersStay
  <2>2. spec[i].exists => spec'[i].exists
    BY SpecFacts
  <2> QED BY <2>1, <2>2 DEF PendingFits, View
<1>2. CASE t = s
  <2>1. CASE OwnEnded(s)
    BY <1>2, <2>1 DEF OwnEnded
  <2>2. CASE Fetch(s)
    BY <1>2, <2>2 DEF Fetch, PhasesFit
  <2>3. CASE BeginUpdate(s)
    BY <1>2, <2>3 DEF BeginUpdate, PhasesFit
  <2>4. CASE EndUpdate(s)
    BY <1>2, <2>4 DEF EndUpdate, private, PhasesFit
  <2>5. CASE SelectSpec(s)
    <3>1. pending'[s] = [row |-> Head(rows[s]), loaded |-> View(s, Head(rows[s]).id), some |-> TRUE]
          /\ UNCHANGED <<spec, holder, draft>>
      BY <2>5 DEF SelectSpec, TypeOK
    <3> QED BY <1>2, <3>1 DEF View
  <2>6. CASE Flush(s)
    BY <1>2, <2>6, FlushFacts, Defaults
  <2>7. CASE \E j \in Ids : VisitRow(s, j)
    BY <1>2, <2>7 DEF VisitRow, PhasesFit
  <2> QED BY <2>1, <2>2, <2>3, <2>4, <2>5, <2>6, <2>7, ActFacts
<1> QED BY <1>1, <1>2

(* Every row of the download is merged, waits for the flush or is left to  *)
(* visit.                                                                  *)
LEMMA ActDownload ==
  ASSUME TypeOK, PhasesFit, PendingFits, DownloadFits, NEW s \in Syncs, Act(s)
  PROVE  DownloadFits'
<1>0. OthersStay(s)
  BY ActFacts
<1> DEFINE Fit(t) == pc[t] \in {"update", "visit", "merge"} =>
                     /\ Content(rows[t]) \subseteq download[t]
                     /\ pc[t] # "merge" => download[t] \subseteq Content(rows[t])
                     /\ \A d \in download[t] : d.id \in IdsOf(rows[t]) => d \in Content(rows[t])
                     /\ pending[t].some /\ pending[t].row.id \notin IdsOf(rows[t]) =>
                          /\ pending[t].row \in download[t]
                          /\ \A d \in download[t] : d.id = pending[t].row.id => d = pending[t].row
<1> SUFFICES ASSUME NEW t \in Syncs  PROVE Fit(t)'
  BY DEF DownloadFits
<1>1. Fit(t)
  BY DEF DownloadFits
<1>2. CASE t # s
  BY <1>0, <1>1, <1>2 DEF OthersStay
<1>3. ASSUME t = s, OwnEnded(s)  PROVE Fit(s)'
  BY <1>3 DEF OwnEnded, Open
<1>4. ASSUME t = s, Fetch(s)  PROVE Fit(s)'
  <2>1. pc[s] = "idle" /\ pending' = pending /\ rows'[s] = sheet /\ download'[s] = Content(sheet)
    BY <1>4 DEF Fetch, TypeOK
  <2>2. ~pending'[s].some
    BY <2>1 DEF PhasesFit
  <2> QED BY <2>1, <2>2
<1>5. ASSUME t = s, BeginUpdate(s) \/ EndUpdate(s) \/ \E i \in Ids : VisitRow(s, i)  PROVE Fit(s)'
  <2>1. pc[s] \in {"update", "visit"}
        /\ UNCHANGED <<rows, download, pending>>
    BY <1>5 DEF BeginUpdate, EndUpdate, VisitRow, private
  <2> QED BY <1>1, <1>5, <2>1
<1>6. ASSUME t = s, SelectSpec(s)  PROVE Fit(s)'
  <2> DEFINE q == rows[s]
  <2>1. /\ pc[s] = "merge" /\ q \in Seq(Row) /\ q # <<>> /\ rows'[s] = Tail(q)
        /\ pc' = pc /\ pending'[s].row = Head(q) /\ download'[s] = download[s] /\ download[s] \subseteq Row
    BY <1>6 DEF SelectSpec, TypeOK
  <2> HIDE DEF q
  <2>2. /\ IdsOf(q) = IdsOf(Tail(q)) \cup {Head(q).id}
        /\ Content(Tail(q)) \subseteq Content(q)
        /\ Head(q).id \notin IdsOf(Tail(q)) => Head(q) \in Content(q)
        /\ \A d \in Content(q) : d.id \in IdsOf(Tail(q)) => d \in Content(Tail(q))
        /\ \A d \in Content(q) : d.id = Head(q).id /\ d.id \notin IdsOf(Tail(q)) => d = Head(q)
    BY <2>1, ContentOfTail
  <2>3. /\ Content(q) \subseteq download[s]
        /\ \A d \in download[s] : d.id \in IdsOf(q) => d \in Content(q)
    BY <1>1, <1>6, <2>1 DEF q
  <2> QED BY <2>1, <2>2, <2>3
<1>7. ASSUME t = s, Flush(s)  PROVE Fit(s)'
  <2>1. pc[s] = "merge" /\ pending'[s] = NoRow /\ UNCHANGED <<pc, rows, download>>
    BY <1>7, FlushFacts DEF Flush
  <2> QED BY <1>1, <1>7, <2>1, Defaults
<1> QED BY <1>2, <1>3, <1>4, <1>5, <1>6, <1>7, ActFacts


(* Before its UPDATE a sync holds nothing; the merge holds every row the       *)
(* UPDATE found.                                                               *)
LEMMA HeldFacts ==
  ASSUME TypeOK, PhasesFit, NEW s \in Syncs
  PROVE  /\ ~Open(s) => \A i \in Ids : holder[i] # s
         /\ pc[s] = "merge" => \A i \in Ids : holder[i] # s => i \notin existed[s]
         /\ AllMerged(s) => IdsLeft(s) = {}
<1>1. AllMerged(s) => IdsLeft(s) = {}
  BY DEF AllMerged, IdsLeft, IdsOf
<1>2. pc[s] = "merge" => \A i \in Ids : holder[i] # s => i \notin existed[s]
  BY DEF PhasesFit
<1> QED BY <1>1, <1>2 DEF PhasesFit

(* How the steps that leave the sync open change what it holds. *)
LEMMA OwnFacts ==
  ASSUME TypeOK, PhasesFit, PendingFits, NEW s \in Syncs, Act(s), Open(s)'
  PROVE  /\ spec' = spec /\ beside'[s] \subseteq beside[s]
         /\ \/ BeginUpdate(s) /\ \A i \in Ids : holder'[i] # s
            \/ /\ EndUpdate(s) \/ SelectSpec(s) \/ Flush(s) \/ \E i \in Ids : VisitRow(s, i)
               /\ Open(s) /\ ~BeginUpdate(s) /\ UNCHANGED <<download, existed, beside>>
         /\ EndUpdate(s) => UNCHANGED <<holder, draft>> /\ IdsLeft(s)' = IdsLeft(s)
         /\ SelectSpec(s) => UNCHANGED <<holder, draft>> /\ IdsLeft(s)' = IdsLeft(s)
<1>1. ~OwnEnded(s) /\ ~Fetch(s)
  BY DEF OwnEnded, Fetch, Goto, Open, TypeOK
<1>2. CASE BeginUpdate(s)
  <2>1. pc[s] = "update" /\ spec' = spec /\ holder' = holder /\ beside'[s] = {}
    BY <1>2 DEF BeginUpdate, TypeOK
  <2>2. \A i \in Ids : holder'[i] # s
    BY <2>1, HeldFacts DEF Open
  <2>3. ~EndUpdate(s) /\ ~SelectSpec(s)
    BY <2>1 DEF EndUpdate, SelectSpec
  <2> QED BY <1>2, <2>1, <2>2, <2>3
<1>3. CASE EndUpdate(s) \/ SelectSpec(s) \/ Flush(s) \/ \E i \in Ids : VisitRow(s, i)
  <2>1. Open(s) /\ ~BeginUpdate(s) /\ UNCHANGED <<spec, download, existed, beside>>
    BY <1>3 DEF BeginUpdate, EndUpdate, SelectSpec, Flush, VisitRow, private, Open
  <2>2. EndUpdate(s) => UNCHANGED <<holder, draft>> /\ IdsLeft(s)' = IdsLeft(s)
    BY DEF EndUpdate, private, IdsLeft
  <2>3. ASSUME SelectSpec(s)  PROVE UNCHANGED <<holder, draft>> /\ IdsLeft(s)' = IdsLeft(s)
    <3>1. /\ ~pending[s].some /\ pending'[s].some /\ pending'[s].row = Head(rows[s])
          /\ rows'[s] = Tail(rows[s]) /\ rows[s] \in Seq(Row) /\ rows[s] # <<>>
          /\ UNCHANGED <<holder, draft>>
      BY <2>3 DEF SelectSpec, TypeOK
    <3>2. IdsOf(rows[s]) = IdsOf(Tail(rows[s])) \cup {Head(rows[s]).id}
      BY <3>1, ContentOfTail
    <3> QED BY <3>1, <3>2 DEF IdsLeft
  <2> QED BY <1>3, <2>1, <2>2, <2>3
<1> QED BY <1>1, <1>2, <1>3, ActFacts

(* A row that came after the UPDATE has each column from a sync committed  *)
(* since ...                                                               *)
LEMMA ActUnheld ==
  ASSUME TypeOK, PhasesFit, PendingFits, UnheldHaveSource, DraftsHaveSource, NEW s \in Syncs, Act(s)
  PROVE  UnheldHaveSource'
<1>0. OthersStay(s)
  BY ActFacts
<1> SUFFICES ASSUME NEW t \in Syncs, NEW i \in Ids, NEW c \in Columns,
                    Open(t)', i \notin existed'[t], holder'[i] # t, spec'[i].exists
             PROVE  Known(i, c, spec'[i].data[c], beside'[t])
  BY DEF UnheldHaveSource
<1>1. CASE t # s
  <2>1. Open(t) /\ i \notin existed[t] /\ holder[i] # t
    BY <1>0, <1>1, OthersFacts DEF OthersStay
  <2>2. beside[t] \subseteq beside'[t]
    BY <1>1, ActFacts DEF SpecMoves, SpecStays
  <2>3. spec[i].exists => Known(i, c, spec[i].data[c], beside[t])
    BY <2>1 DEF UnheldHaveSource
  <2>4. CASE spec'[i] = spec[i]
    BY <2>2, <2>3, <2>4 DEF Known
  <2>5. CASE spec'[i] # spec[i]
    <3>1. spec'[i] = draft[s][i] /\ holder[i] = s /\ Commit(s)
      BY <2>5, SpecFacts
    <3>2. AllMerged(s) /\ download[s] \subseteq beside'[t]
      BY <1>1, <3>1, ActFacts DEF SpecMoves
    <3>3. i \notin IdsLeft(s)
      BY <3>2, HeldFacts
    <3>4. \/ spec[i].exists /\ draft[s][i].data[c] = spec[i].data[c]
          \/ Known(i, c, draft[s][i].data[c], download[s])
      BY <3>1, <3>3 DEF DraftsHaveSource
    <3> QED BY <2>2, <2>3, <3>1, <3>2, <3>4 DEF Known
  <2> QED BY <2>4, <2>5
<1>2. CASE t = s
  <2>1. CASE BeginUpdate(s)
    BY <1>2, <2>1 DEF BeginUpdate, TypeOK
  <2>2. CASE ~BeginUpdate(s)
    <3>1. Open(s) /\ UNCHANGED <<spec, existed, beside>>
      BY <1>2, <2>2, OwnFacts
    <3>2. holder[i] # s
      <4>1. EndUpdate(s) \/ SelectSpec(s) => holder' = holder
        BY <1>2, OwnFacts
      <4>2. ASSUME Flush(s)  PROVE holder[i] = s => holder'[i] = s
        BY <4>2, FlushFacts, WriteFacts
      <4>3. ASSUME NEW j \in Ids, VisitRow(s, j)  PROVE holder[i] = s => holder'[i] = s
        BY <4>3, VisitFacts, WriteFacts
      <4> QED BY <1>2, <2>2, <4>1, <4>2, <4>3, OwnFacts
    <3> QED BY <1>2, <3>1, <3>2 DEF UnheldHaveSource
  <2> QED BY <2>1, <2>2
<1> QED BY <1>1, <1>2


(* What the steps that write a row make of it, and where its data comes from. *)
LEMMA FlushSource ==
  ASSUME TypeOK, PhasesFit, PendingFits, DownloadFits, UnheldHaveSource, NEW s \in Syncs, Flush(s),
         NEW i \in Ids, i = pending[s].row.id
  PROVE  /\ \A c \in Columns :
              \/ i \in IdsLeft(s)'
              \/ Known(i, c, draft'[s][i].data[c], download[s])
              \/ /\ spec[i].exists /\ draft'[s][i].data[c] = spec[i].data[c]
                 /\ Known(i, c, spec[i].data[c], beside[s])
         /\ i \in IdsLeft(s)' \/ [id |-> i, data |-> draft'[s][i].data] \in download[s] \/ i \notin existed[s]
         /\ i \notin existed[s] /\ spec[i].active => draft'[s][i].active
         /\ beside[s] = {} => draft'[s][i].active /\ draft'[s][i].data = pending[s].row.data
         /\ \/ draft'[s][i].active
            \/ pending[s].loaded.active /\ holder[i] # s /\ ~View(s, i).active
<1> DEFINE r   == pending[s].row
           row == Merged(View(s, i), pending[s])
<1>1. /\ View(s, i) \in VehicleCatalogSpec /\ Write(s, i, row)
      /\ row \in VehicleCatalogSpec
      /\ ~pending[s].loaded.exists => row.active /\ row.data = r.data
      /\ pending[s].loaded.exists => row.active = (~pending[s].loaded.active \/ View(s, i).active)
      /\ \A c \in Columns : pending[s].loaded.exists => row.data[c] \in {View(s, i).data[c], r.data[c]}
      /\ pending[s].loaded = View(s, i) => row.active /\ row.data = r.data
      /\ pc[s] = "merge" /\ pending[s].some /\ pending'[s] = NoRow
  BY FlushFacts
<1> HIDE DEF row
<1>2. draft'[s][i] = row
  BY <1>1, WriteFacts
<1>3. /\ holder[i] = s => pending[s].loaded = View(s, i)
      /\ pending[s].loaded.exists => View(s, i).exists
  BY <1>1 DEF PendingFits, View
<1>4. holder[i] # s => i \notin existed[s] /\ View(s, i) = spec[i]
  BY <1>1, HeldFacts DEF View
<1>5. holder[i] # s /\ spec[i].exists => \A c \in Columns : Known(i, c, spec[i].data[c], beside[s])
  BY <1>1, <1>4 DEF UnheldHaveSource, Open
<1>6. r = [id |-> i, data |-> r.data]
  <2>1. r \in Row
    BY DEF TypeOK
  <2> QED BY <2>1 DEF Row
<1>7. i \in IdsLeft(s)' \/ [id |-> i, data |-> r.data] \in download[s]
  <2>1. rows' = rows
    BY DEF Flush
  <2>2. CASE i \in IdsOf(rows[s])
    BY <2>1, <2>2 DEF IdsLeft
  <2>3. CASE i \notin IdsOf(rows[s])
    BY <1>1, <1>6, <2>3 DEF DownloadFits
  <2> QED BY <2>2, <2>3
<1>12. \A c \in Columns : i \in IdsLeft(s)' \/ Known(i, c, r.data[c], download[s])
  BY <1>7 DEF Known
<1>8. CASE ~pending[s].loaded.exists
  BY <1>1, <1>2, <1>7, <1>8, <1>12
<1>9. CASE holder[i] = s
  BY <1>1, <1>2, <1>3, <1>7, <1>9, <1>12
<1>10. CASE pending[s].loaded.exists /\ holder[i] # s
  <2>1. /\ spec[i].exists /\ View(s, i) = spec[i] /\ i \notin existed[s]
        /\ \A c \in Columns : /\ row.data[c] \in {spec[i].data[c], r.data[c]}
                              /\ Known(i, c, spec[i].data[c], beside[s])
    BY <1>1, <1>3, <1>4, <1>5, <1>10
  <2>2. row.active = (~pending[s].loaded.active \/ spec[i].active)
        /\ spec[i].active \in BOOLEAN /\ pending[s].loaded.active \in BOOLEAN
    BY <1>1, <1>10, <2>1 DEF TypeOK, VehicleCatalogSpec
  <2>3. \/ row.active
        \/ pending[s].loaded.active /\ ~View(s, i).active
    BY <2>1, <2>2
  <2>4. beside[s] # {}
    BY <2>1, SheetsAssumption DEF Known
  <2> QED BY <1>2, <1>7, <1>10, <1>12, <2>1, <2>2, <2>3, <2>4
<1> QED BY <1>8, <1>9, <1>10

(* The rows that a flush does not touch. *)
LEMMA FlushOthers ==
  ASSUME TypeOK, PendingFits, NEW s \in Syncs, Flush(s), NEW i \in Ids, i # pending[s].row.id
  PROVE  /\ holder'[i] = holder[i] /\ draft'[s][i] = draft[s][i]
         /\ i \in IdsLeft(s)' <=> i \in IdsLeft(s)
<1>1. PICK row \in VehicleCatalogSpec : Write(s, pending[s].row.id, row)
  BY FlushFacts
<1>2. holder'[i] = holder[i] /\ draft'[s][i] = draft[s][i]
  BY <1>1, WriteFacts, FlushFacts
<1>3. rows' = rows /\ pending[s].some /\ ~pending'[s].some
  BY FlushFacts, Defaults DEF Flush
<1> QED BY <1>2, <1>3 DEF IdsLeft

(* ... a draft has it from there, from the table or from the download ... *)
LEMMA ActDrafts ==
  ASSUME TypeOK, PhasesFit, PendingFits, DownloadFits, UnheldHaveSource, DraftsHaveSource,
         NEW s \in Syncs, Act(s)
  PROVE  DraftsHaveSource'
<1>0. OthersStay(s) /\ PhasesFit' /\ TypeOK'
  BY ActFacts, ActPhases, ActTypes
<1> SUFFICES ASSUME NEW t \in Syncs, NEW i \in Ids, NEW c \in Columns, holder'[i] = t
             PROVE  \/ spec'[i].exists /\ draft'[t][i].data[c] = spec'[i].data[c]
                    \/ Known(i, c, draft'[t][i].data[c], download'[t])
                    \/ i \in IdsLeft(t)'
  BY DEF DraftsHaveSource
<1>1. holder[i] = t =>
        \/ spec[i].exists /\ draft[t][i].data[c] = spec[i].data[c]
        \/ Known(i, c, draft[t][i].data[c], download[t])
        \/ i \in IdsLeft(t)
  BY DEF DraftsHaveSource
<1>2. CASE t # s
  <2>1. /\ holder[i] = t /\ draft'[t][i] = draft[t][i] /\ download'[t] = download[t]
        /\ IdsLeft(t)' = IdsLeft(t)
    BY <1>0, <1>2, OthersFacts DEF OthersStay
  <2>2. spec'[i] = spec[i]
    BY <1>2, <2>1, SpecFacts
  <2> QED BY <1>1, <2>1, <2>2
<1>3. CASE t = s
  <2>1. Open(s)'
    BY <1>0, <1>3 DEF PhasesFit
  <2>2. spec' = spec /\ ~BeginUpdate(s) /\ UNCHANGED <<download, existed, beside>>
    BY <1>3, <2>1, OwnFacts
  <2>3. CASE EndUpdate(s) \/ SelectSpec(s)
    <3>1. UNCHANGED <<holder, draft>> /\ IdsLeft(s)' = IdsLeft(s)
      BY <2>1, <2>3, OwnFacts
    <3>2. holder'[i] = holder[i] /\ draft'[s][i] = draft[s][i]
      BY <3>1
    <3> QED BY <1>1, <1>3, <2>2, <3>1, <3>2
  <2>4. CASE Flush(s)
    <3>1. CASE i = pending[s].row.id
      <4>1. \/ i \in IdsLeft(s)'
            \/ Known(i, c, draft'[s][i].data[c], download[s])
            \/ spec[i].exists /\ draft'[s][i].data[c] = spec[i].data[c]
        BY <2>4, <3>1, FlushSource
      <4> QED BY <1>3, <2>2, <4>1
    <3>2. CASE i # pending[s].row.id
      BY <1>1, <1>3, <2>2, <2>4, <3>2, FlushOthers
    <3> QED BY <3>1, <3>2
  <2>5. ASSUME NEW j \in Ids, VisitRow(s, j)
        PROVE  \/ spec'[i].exists /\ draft'[s][i].data[c] = spec'[i].data[c]
               \/ Known(i, c, draft'[s][i].data[c], download'[s])
               \/ i \in IdsLeft(s)'
    <3>1. rows' = rows /\ pending' = pending /\ spec[j].exists
      BY <2>5 DEF VisitRow, PhasesFit
    <3>2. CASE i = j
      BY <1>3, <2>2, <2>5, <3>1, <3>2, VisitFacts, WriteFacts
    <3>3. CASE i # j
      <4>1. holder[i] = s /\ draft'[s][i] = draft[s][i]
        BY <1>3, <2>5, <3>3, VisitFacts, WriteFacts
      <4> QED BY <1>1, <1>3, <2>2, <3>1, <4>1 DEF IdsLeft
    <3> QED BY <3>2, <3>3
  <2> QED BY <1>3, <2>1, <2>2, <2>3, <2>4, <2>5, OwnFacts
<1> QED BY <1>2, <1>3

(* ... and an active draft not from the table. *)
LEMMA ActActives ==
  ASSUME TypeOK, PhasesFit, PendingFits, DownloadFits, UnheldHaveSource, ActiveHaveSource,
         NEW s \in Syncs, Act(s)
  PROVE  ActiveHaveSource'
<1>0. OthersStay(s) /\ PhasesFit' /\ TypeOK'
  BY ActFacts, ActPhases, ActTypes
<1> DEFINE Fit(t, i) ==
      \/ [id |-> i, data |-> draft[t][i].data] \in download[t]
      \/ /\ i \notin existed[t]
         /\ \A c \in Columns : Known(i, c, draft[t][i].data[c], download[t] \cup beside[t])
      \/ i \in IdsLeft(t)
<1> SUFFICES ASSUME NEW t \in Syncs, NEW i \in Ids, holder'[i] = t, draft'[t][i].active
             PROVE  Fit(t, i)'
  BY DEF ActiveHaveSource
<1>1. holder[i] = t /\ draft[t][i].active => Fit(t, i)
  BY DEF ActiveHaveSource
<1>2. CASE t # s
  <2>1. /\ holder[i] = t /\ draft'[t][i] = draft[t][i] /\ download'[t] = download[t]
        /\ IdsLeft(t)' = IdsLeft(t)
    BY <1>0, <1>2, OthersFacts DEF OthersStay
  <2>2. beside[t] \subseteq beside'[t]
    BY <1>2, ActFacts DEF SpecMoves, SpecStays
  <2>3. existed'[t] = existed[t]
    BY <1>0, <1>2 DEF OthersStay
  <2>4. \A c \in Columns : Known(i, c, draft[t][i].data[c], download[t] \cup beside[t])
                       => Known(i, c, draft'[t][i].data[c], download'[t] \cup beside'[t])
    BY <2>1, <2>2 DEF Known
  <2> QED BY <1>1, <2>1, <2>3, <2>4
<1>3. CASE t = s
  <2>1. Open(s)'
    BY <1>0, <1>3 DEF PhasesFit
  <2>2. spec' = spec /\ ~BeginUpdate(s) /\ UNCHANGED <<download, existed, beside>>
    BY <1>3, <2>1, OwnFacts
  <2>3. CASE EndUpdate(s) \/ SelectSpec(s)
    <3>1. UNCHANGED <<holder, draft>> /\ IdsLeft(s)' = IdsLeft(s)
      BY <2>1, <2>3, OwnFacts
    <3>2. holder'[i] = holder[i] /\ draft'[s][i] = draft[s][i]
      BY <3>1
    <3> QED BY <1>1, <1>3, <2>2, <3>1, <3>2
  <2>4. CASE Flush(s)
    <3>1. CASE i = pending[s].row.id
      <4>1. \A c \in Columns :
              \/ i \in IdsLeft(s)'
              \/ Known(i, c, draft'[s][i].data[c], download[s])
              \/ /\ spec[i].exists /\ draft'[s][i].data[c] = spec[i].data[c]
                 /\ Known(i, c, spec[i].data[c], beside[s])
        BY <2>4, <3>1, FlushSource
      <4>2. \A c \in Columns : i \in IdsLeft(s)' \/ Known(i, c, draft'[s][i].data[c], download[s] \cup beside[s])
        BY <4>1 DEF Known
      <4>3. i \in IdsLeft(s)' \/ [id |-> i, data |-> draft'[s][i].data] \in download[s] \/ i \notin existed[s]
        BY <2>4, <3>1, FlushSource
      <4> QED BY <1>3, <2>2, <4>2, <4>3
    <3>2. CASE i # pending[s].row.id
      BY <1>1, <1>3, <2>2, <2>4, <3>2, FlushOthers
    <3> QED BY <3>1, <3>2
  <2>5. ASSUME NEW j \in Ids, VisitRow(s, j)  PROVE Fit(s, i)'
    <3>1. rows' = rows /\ pending' = pending
      BY <2>5 DEF VisitRow
    <3>2. i # j /\ holder[i] = s /\ draft'[s][i] = draft[s][i]
      BY <1>3, <2>5, VisitFacts, WriteFacts
    <3> QED BY <1>1, <1>3, <2>2, <3>1, <3>2 DEF IdsLeft
  <2> QED BY <1>3, <2>1, <2>2, <2>3, <2>4, <2>5, OwnFacts
<1> QED BY <1>2, <1>3

(* A row that came after the UPDATE stays as active as it is. *)
LEMMA ActNew ==
  ASSUME TypeOK, PhasesFit, PendingFits, DownloadFits, UnheldHaveSource, NewStayActive,
         NEW s \in Syncs, Act(s)
  PROVE  NewStayActive'
<1>0. OthersStay(s) /\ PhasesFit' /\ TypeOK'
  BY ActFacts, ActPhases, ActTypes
<1> SUFFICES ASSUME NEW t \in Syncs, NEW i \in Ids, holder'[i] = t, i \notin existed'[t], spec'[i].active
             PROVE  draft'[t][i].active
  BY DEF NewStayActive
<1>1. holder[i] = t /\ i \notin existed[t] /\ spec[i].active => draft[t][i].active
  BY DEF NewStayActive
<1>2. CASE t # s
  <2>1. /\ holder[i] = t /\ draft'[t][i] = draft[t][i] /\ existed'[t] = existed[t]
    BY <1>0, <1>2, OthersFacts DEF OthersStay
  <2>2. spec'[i] = spec[i]
    BY <1>2, <2>1, SpecFacts
  <2> QED BY <1>1, <2>1, <2>2
<1>3. CASE t = s
  <2>1. Open(s)'
    BY <1>0, <1>3 DEF PhasesFit
  <2>2. spec' = spec /\ ~BeginUpdate(s) /\ UNCHANGED <<download, existed, beside>>
    BY <1>3, <2>1, OwnFacts
  <2>3. CASE EndUpdate(s) \/ SelectSpec(s)
    <3>1. UNCHANGED <<holder, draft>> /\ IdsLeft(s)' = IdsLeft(s)
      BY <2>1, <2>3, OwnFacts
    <3>2. holder'[i] = holder[i] /\ draft'[s][i] = draft[s][i]
      BY <3>1
    <3> QED BY <1>1, <1>3, <2>2, <3>1, <3>2
  <2>4. CASE Flush(s)
    <3>1. CASE i = pending[s].row.id
      BY <1>3, <2>2, <2>4, <3>1, FlushSource
    <3>2. CASE i # pending[s].row.id
      BY <1>1, <1>3, <2>2, <2>4, <3>2, FlushOthers
    <3> QED BY <3>1, <3>2
  <2>5. ASSUME NEW j \in Ids, VisitRow(s, j)  PROVE draft'[s][i].active
    <3>1. j \in existed[s]
      BY <2>5 DEF VisitRow, PhasesFit
    <3>2. holder[i] = s /\ draft'[s][i] = draft[s][i]
      BY <1>3, <2>2, <2>5, <3>1, VisitFacts, WriteFacts
    <3> QED BY <1>1, <1>3, <2>2, <3>2
  <2> QED BY <1>3, <2>1, <2>2, <2>3, <2>4, <2>5, OwnFacts
<1> QED BY <1>2, <1>3


(* The sync that commits may leave a row inactive that another one still sees  *)
(* as active; that other one then holds or sees another active row.            *)
LEMMA ActSome ==
  ASSUME TypeOK, PhasesFit, PendingFits, DownloadFits, UnheldHaveSource, ActiveExist, ExistedNest,
         NewStayActive, SomeActive, NEW s \in Syncs, Act(s)
  PROVE  SomeActive'
<1>0. OthersStay(s)
  BY ActFacts
<1> DEFINE Kept(t) == pending[t].some /\ pending[t].loaded.active /\ holder[pending[t].row.id] # t
           Fit(t)  == (\E i \in Ids : View(t, i).active) \/ (~AllMerged(t) /\ ~Kept(t))
<1> SUFFICES ASSUME NEW t \in Syncs, pc'[t] = "merge"  PROVE Fit(t)'
  BY DEF SomeActive
<1>1. pc[t] = "merge" => Fit(t)
  BY DEF SomeActive
<1>2. CASE t # s
  <2>1. /\ pc[t] = "merge" /\ pending'[t] = pending[t] /\ AllMerged(t)' = AllMerged(t)
        /\ \A i \in Ids : (holder'[i] = t <=> holder[i] = t) /\ draft'[t][i] = draft[t][i]
        /\ pending[t].row.id \in Ids
    <3>1. pending[t].row \in Row
      BY DEF TypeOK
    <3>2. /\ AllMerged(t)' = AllMerged(t)
          /\ \A i \in Ids : (holder'[i] = t <=> holder[i] = t) /\ draft'[t][i] = draft[t][i]
      BY <1>0, <1>2, OthersFacts
    <3> QED BY <1>0, <1>2, <3>1, <3>2 DEF OthersStay, Row
  <2>2. CASE ~AllMerged(t) /\ ~Kept(t)
    BY <2>1, <2>2
  <2>3. ASSUME NEW i \in Ids, View(t, i).active  PROVE \E k \in Ids : View(t, k)'.active
    <3>1. CASE holder[i] = t \/ spec'[i] = spec[i]
      BY <2>1, <2>3, <3>1 DEF View
    <3>2. CASE holder[i] # t /\ spec'[i] # spec[i]
      <4>1. spec'[i] = draft[s][i] /\ holder[i] = s /\ Commit(s)
        BY <3>2, SpecFacts
      <4>2. /\ pc[s] = "merge" /\ AllMerged(s)
            /\ \A k \in Ids : spec'[k] = View(s, k)
        BY <4>1, ActFacts DEF SpecMoves
      <4>3. CASE draft[s][i].active
        BY <2>1, <3>2, <4>1, <4>3 DEF View
      <4>4. CASE ~draft[s][i].active
        <5>1. spec[i].active
          BY <2>3, <3>2 DEF View
        <5>2. i \in existed[s]
          BY <4>1, <4>4, <5>1 DEF NewStayActive
        <5>3. i \notin existed[t]
          BY <2>1, <3>2, HeldFacts
        <5>4. existed[t] \subseteq existed[s]
          BY <2>1, <4>2, <5>2, <5>3 DEF ExistedNest, Open
        <5>5. PICK k \in Ids : View(s, k).active
          BY <4>2 DEF SomeActive
        <5>6. CASE holder[k] # t
          BY <2>1, <4>2, <5>5, <5>6 DEF View
        <5>7. CASE holder[k] = t
          <6>1. holder[k] # s /\ spec[k].active
            BY <1>2, <5>5, <5>7 DEF View
          <6>2. k \notin existed[t]
            BY <4>2, <5>4, <6>1, HeldFacts
          <6>3. draft[t][k].active
            BY <5>7, <6>1, <6>2 DEF NewStayActive
          <6> QED BY <2>1, <5>7, <6>3 DEF View
        <5> QED BY <5>6, <5>7
      <4> QED BY <4>3, <4>4
    <3> QED BY <3>1, <3>2
  <2> QED BY <1>1, <2>1, <2>2, <2>3
<1>3. CASE t = s
  <2>1. CASE OwnEnded(s) \/ Fetch(s) \/ BeginUpdate(s) \/ \E i \in Ids : VisitRow(s, i)
    BY <1>3, <2>1 DEF OwnEnded, Open, Fetch, BeginUpdate, VisitRow, Goto, TypeOK
  <2>2. CASE EndUpdate(s)
    <3>1. rows[s] # <<>> /\ ~pending[s].some /\ pending' = pending /\ rows' = rows
      BY <2>2 DEF EndUpdate, PhasesFit, private
    <3> QED BY <1>3, <3>1 DEF AllMerged
  <2>3. CASE SelectSpec(s)
    <3>1. /\ pending'[s].some /\ pending'[s].loaded = View(s, pending'[s].row.id)
          /\ UNCHANGED <<holder, draft, spec>>
      BY <2>3 DEF SelectSpec, TypeOK
    <3>2. pending'[s].row.id \in Ids
      <4>1. TypeOK'
        BY ActTypes
      <4> QED BY <4>1 DEF TypeOK, Row
    <3> QED BY <1>3, <3>1, <3>2 DEF AllMerged, View
  <2>4. CASE Flush(s)
    <3> DEFINE i == pending[s].row.id
    <3>1. i \in Ids /\ holder'[i] = s /\ pc[s] = "merge" /\ pending[s].some /\ ~pending'[s].some
          /\ spec' = spec
      <4>1. PICK row \in VehicleCatalogSpec : Write(s, i, row)
        BY <2>4, FlushFacts
      <4>2. i \in Ids /\ pc[s] = "merge" /\ pending[s].some /\ pending'[s] = NoRow
        BY <2>4, FlushFacts
      <4>3. holder'[i] = s
        BY <4>1, <4>2, WriteFacts
      <4> QED BY <2>4, <4>2, <4>3, Defaults DEF Flush
    <3>2. CASE draft'[s][i].active
      BY <1>3, <3>1, <3>2 DEF View
    <3>3. CASE ~draft'[s][i].active
      <4>1. pending[s].loaded.active /\ holder[i] # s /\ ~View(s, i).active
        BY <2>4, <3>1, <3>3, FlushSource
      <4>2. PICK k \in Ids : View(s, k).active
        BY <1>1, <1>3, <3>1, <4>1
      <4>3. holder'[k] = holder[k] /\ draft'[s][k] = draft[s][k]
        BY <2>4, <4>1, <4>2, FlushOthers
      <4> QED BY <1>3, <3>1, <4>2, <4>3 DEF View
    <3> QED BY <3>2, <3>3
  <2> QED BY <2>1, <2>2, <2>3, <2>4, ActFacts
<1> QED BY <1>2, <1>3

(* With nothing committed beside it, what is merged is what was            *)
(* downloaded.                                                             *)
LEMMA ActMerged ==
  ASSUME TypeOK, PhasesFit, PendingFits, DownloadFits, UnheldHaveSource, MergedAreExact,
         NEW s \in Syncs, Act(s)
  PROVE  MergedAreExact'
<1>0. OthersStay(s) /\ TypeOK'
  BY ActFacts, ActTypes
<1> SUFFICES ASSUME NEW t \in Syncs, pc'[t] = "merge", beside'[t] = {},
                    NEW d \in download'[t], d.id \notin IdsLeft(t)'
             PROVE  holder'[d.id] = t /\ draft'[t][d.id].active /\ draft'[t][d.id].data = d.data
  BY DEF MergedAreExact
<1>1. d.id \in Ids /\ d \in Row
  BY <1>0 DEF TypeOK, Row
<1>2. pc[t] = "merge" /\ beside[t] = {} /\ d \in download[t] /\ d.id \notin IdsLeft(t)
      => holder[d.id] = t /\ draft[t][d.id].active /\ draft[t][d.id].data = d.data
  BY DEF MergedAreExact
<1>3. CASE t # s
  <2>1. /\ (holder'[d.id] = t <=> holder[d.id] = t) /\ draft'[t][d.id] = draft[t][d.id]
        /\ IdsLeft(t)' = IdsLeft(t) /\ pc'[t] = pc[t] /\ download'[t] = download[t]
    BY <1>0, <1>1, <1>3, OthersFacts DEF OthersStay
  <2>2. beside[t] = {}
    BY <1>3, ActFacts DEF SpecMoves, SpecStays
  <2> QED BY <1>2, <2>1, <2>2
<1>4. CASE t = s
  <2>1. Open(s)' /\ ~BeginUpdate(s) /\ ~\E i \in Ids : VisitRow(s, i)
    BY <1>4 DEF Open, BeginUpdate, VisitRow, Goto, TypeOK
  <2>2. UNCHANGED <<spec, download, beside>>
    BY <2>1, OwnFacts
  <2>3. CASE EndUpdate(s)
    <3>1. pc[s] = "visit" /\ rows' = rows /\ pending' = pending /\ ~pending[s].some
      BY <2>3 DEF EndUpdate, private, PhasesFit
    <3>4. d \in download[s] /\ rows[s] \in Seq(Row)
      BY <1>4, <2>2 DEF TypeOK
    <3>2. d \in Content(rows[s])
      BY <3>1, <3>4 DEF DownloadFits
    <3>3. d.id \in IdsLeft(s)'
      BY <3>1, <3>2, <3>4, ContentIsOfRows DEF IdsLeft
    <3> QED BY <1>4, <3>3
  <2>4. CASE SelectSpec(s)
    <3>1. UNCHANGED <<holder, draft>> /\ IdsLeft(s)' = IdsLeft(s) /\ pc[s] = "merge"
      BY <2>1, <2>4, OwnFacts DEF SelectSpec
    <3> QED BY <1>2, <1>4, <2>2, <3>1
  <2>5. CASE Flush(s)
    <3>1. pc[s] = "merge" /\ pending[s].some /\ ~pending'[s].some /\ rows' = rows
      BY <2>5, FlushFacts, Defaults DEF Flush
    <3>2. CASE d.id # pending[s].row.id
      BY <1>1, <1>2, <1>4, <2>2, <2>5, <3>1, <3>2, FlushOthers
    <3>3. CASE d.id = pending[s].row.id
      <4>1. d.id \notin IdsOf(rows[s])
        BY <1>4, <3>1 DEF IdsLeft
      <4>2. d = pending[s].row
        BY <1>4, <2>2, <3>1, <3>3, <4>1 DEF DownloadFits
      <4>3. draft'[s][d.id].active /\ draft'[s][d.id].data = d.data
        BY <1>1, <1>4, <2>2, <2>5, <3>3, <4>2, FlushSource
      <4>4. holder'[d.id] = s
        BY <2>5, <3>3, FlushFacts, WriteFacts
      <4> QED BY <1>4, <4>3, <4>4
    <3> QED BY <3>2, <3>3
  <2> QED BY <2>1, <2>3, <2>4, <2>5, OwnFacts
<1> QED BY <1>3, <1>4

(* So what a commit leaves active comes from its download or from a sync   *)
(* beside it.                                                              *)
LEMMA ActMirror ==
  ASSUME CatalogInv, NEW s \in Syncs, Act(s)
  PROVE  MirrorHasASource'
<1> USE DEF CatalogInv
<1>1. CASE ~Commit(s)
  <2>1. spec' = spec /\ last' = last
    BY <1>1, ActFacts DEF SpecStays
  <2> QED BY <2>1 DEF MirrorHasASource, Mirror, MayBeMixed
<1>2. CASE Commit(s)
  <2>1. /\ pc[s] = "merge" /\ AllMerged(s) /\ IdsLeft(s) = {}
        /\ \A i \in Ids : spec'[i] = View(s, i)
        /\ last'.download = download[s] /\ last'.existed = existed[s] /\ last'.beside = beside[s]
    BY <1>2, ActFacts, HeldFacts DEF SpecMoves
  <2>2. ASSUME NEW i \in Ids, spec'[i].active
        PROVE  Sourced(i, spec'[i].data, last')
    <3>1. CASE holder[i] = s
      <4>1. spec'[i] = draft[s][i]
        BY <2>1, <3>1 DEF View
      <4> QED BY <2>1, <2>2, <3>1, <4>1 DEF ActiveHaveSource, Sourced
    <3>2. CASE holder[i] # s
      <4>1. spec'[i] = spec[i] /\ spec[i].exists /\ i \notin existed[s]
        BY <2>1, <2>2, <3>2, HeldFacts DEF View, ActiveExist
      <4>2. \A c \in Columns : Known(i, c, spec'[i].data[c], beside[s])
        BY <2>1, <3>2, <4>1 DEF UnheldHaveSource, Open
      <4>3. \A c \in Columns : Known(i, c, spec'[i].data[c], download[s] \cup beside[s])
        BY <4>2 DEF Known
      <4> QED BY <2>1, <4>1, <4>3 DEF Sourced
    <3> QED BY <3>1, <3>2
  <2>3. \E i \in Ids : spec'[i].active
    BY <2>1 DEF SomeActive
  <2>4. ASSUME beside[s] = {}, NEW d \in download[s]  PROVE d \in Mirror'
    <3>1. d.id \in Ids /\ d = [id |-> d.id, data |-> d.data]
      BY DEF TypeOK, Row
    <3>2. holder[d.id] = s /\ draft[s][d.id].active /\ draft[s][d.id].data = d.data
      BY <2>1, <2>4 DEF MergedAreExact
    <3>3. spec'[d.id].active /\ spec'[d.id].data = d.data
      BY <2>1, <3>1, <3>2 DEF View
    <3> QED BY <3>1, <3>3 DEF Mirror
  <2>5. (\A e \in Mirror : e \in last.download \/ MayBeMixed(e))'
    BY <2>2 DEF Mirror, MayBeMixed, Sourced, Known
  <2>7. ASSUME beside[s] = {}, NEW i \in Ids, spec'[i].active
        PROVE  [id |-> i, data |-> spec'[i].data] \in download[s]
    <3>1. PICK c \in Columns : TRUE
      BY SheetsAssumption
    <3>2. CASE holder[i] # s
      <4>1. spec'[i] = spec[i] /\ spec[i].exists /\ i \notin existed[s]
        BY <2>1, <2>7, <3>2, HeldFacts DEF View, ActiveExist
      <4>2. Known(i, c, spec[i].data[c], beside[s])
        BY <2>1, <3>2, <4>1 DEF UnheldHaveSource, Open
      <4> QED BY <2>7, <4>2 DEF Known
    <3>3. CASE holder[i] = s
      <4>1. spec'[i] = draft[s][i]
        BY <2>1, <3>3 DEF View
      <4>2. CASE [id |-> i, data |-> draft[s][i].data] \in download[s]
        BY <4>1, <4>2
      <4>3. CASE Known(i, c, draft[s][i].data[c], download[s] \cup beside[s])
        <5>1. PICK d \in download[s] : d.id = i
          BY <2>7, <4>3 DEF Known
        <5>2. draft[s][i].data = d.data
          BY <2>1, <2>7, <5>1 DEF MergedAreExact
        <5>3. d = [id |-> i, data |-> d.data]
          <6>1. d \in Row
            BY <5>1 DEF TypeOK
          <6> QED BY <5>1, <6>1 DEF Row
        <5> QED BY <4>1, <5>1, <5>2, <5>3
      <4> QED BY <2>1, <2>7, <3>3, <4>1, <4>2, <4>3 DEF ActiveHaveSource
    <3> QED BY <3>2, <3>3
  <2>6. Mirror' # {}
    BY <2>3 DEF Mirror
  <2>8. beside[s] = {} => Mirror' = download[s]
    BY <2>4, <2>7 DEF Mirror
  <2> QED BY <2>1, <2>5, <2>6, <2>8 DEF MirrorHasASource
<1> QED BY <1>1, <1>2

-----------------------------------------------------------------------------
(* The inductive invariant. *)

(* The invariant holds at first. *)
LEMMA CatalogStarts ==
  ASSUME Init
  PROVE  CatalogInv
<1>1. TypeOK
  <2>1. /\ failures \in 0..MaxFailures /\ edits \in 0..MaxEdits
        /\ <<>> \in Seq(Row) /\ last \in [download : SUBSET Row, existed : SUBSET Ids, beside : SUBSET Row, some : BOOLEAN]
    BY BoundsAssumption DEF Init, NoSync
  <2> QED BY <2>1, Defaults, SyncsAssumption, SheetsAssumption DEF Init, TypeOK
<1>2. /\ \A s \in Syncs : pc[s] = "idle" /\ toVisit[s] = {} /\ existed[s] = {} /\ pending[s] = NoRow
      /\ \A i \in Ids : spec[i] = NoSpec /\ \A s \in Syncs : holder[i] # s
  BY SyncsAssumption DEF Init
<1>3. PhasesFit /\ ActiveExist /\ ExistedNest /\ PendingFits /\ DownloadFits
  BY <1>2, Defaults DEF PhasesFit, ActiveExist, ExistedNest, PendingFits, DownloadFits, Open
<1>4. UnheldHaveSource /\ DraftsHaveSource /\ ActiveHaveSource /\ NewStayActive /\ SomeActive /\ MergedAreExact
  BY <1>2 DEF UnheldHaveSource, DraftsHaveSource, ActiveHaveSource, NewStayActive, SomeActive,
              MergedAreExact, Open
<1>5. MirrorHasASource
  BY <1>2, Defaults DEF Init, NoSync, MirrorHasASource, Mirror
<1> QED BY <1>1, <1>3, <1>4, <1>5 DEF CatalogInv

(* So it does after a step that changes the sheet or the counters only ... *)
LEMMA CatalogStays ==
  ASSUME CatalogInv, spec' = spec, holder' = holder, pc' = pc, last' = last, UNCHANGED private, TypeOK'
  PROVE  CatalogInv'
<1>1. (PhasesFit /\ ActiveExist /\ ExistedNest)'
  BY DEF CatalogInv, private, PhasesFit, ActiveExist, ExistedNest, Open
<1>2. (PendingFits /\ DownloadFits)'
  BY DEF CatalogInv, private, PendingFits, DownloadFits, View
<1>3. (UnheldHaveSource /\ DraftsHaveSource /\ ActiveHaveSource)'
  BY DEF CatalogInv, private, UnheldHaveSource, DraftsHaveSource, ActiveHaveSource, Open, IdsLeft
<1>4. (NewStayActive /\ SomeActive)'
  BY DEF CatalogInv, private, NewStayActive, SomeActive, AllMerged, View
<1>5. (MergedAreExact /\ MirrorHasASource)'
  BY DEF CatalogInv, private, MergedAreExact, MirrorHasASource, Mirror, MayBeMixed, IdsLeft
<1> QED BY <1>1, <1>2, <1>3, <1>4, <1>5 DEF CatalogInv

(* ... and after every step. *)
LEMMA CatalogStep ==
  ASSUME CatalogInv, [Next]_vars
  PROVE  CatalogInv'
<1>1. CASE UNCHANGED vars
  <2>1. TypeOK'
    BY <1>1 DEF CatalogInv, vars, private, TypeOK
  <2> QED BY <1>1, <2>1, CatalogStays DEF vars
<1>2. CASE Edit
  <2>1. TypeOK'
    BY <1>2, BoundsAssumption DEF CatalogInv, Edit, private, TypeOK
  <2> QED BY <1>2, <2>1, CatalogStays DEF Edit
<1>3. ASSUME NEW s \in Syncs, Act(s)  PROVE CatalogInv'
  <2> USE DEF CatalogInv
  <2>1. TypeOK' /\ PhasesFit' /\ PendingFits' /\ DownloadFits'
    BY <1>3, ActTypes, ActPhases, ActPending, ActDownload
  <2>2. ActiveExist' /\ ExistedNest' /\ NewStayActive'
    BY <1>3, ActExist, ActNest, ActNew
  <2>3. UnheldHaveSource' /\ DraftsHaveSource' /\ ActiveHaveSource'
    BY <1>3, ActUnheld, ActDrafts, ActActives
  <2>4. SomeActive' /\ MergedAreExact' /\ MirrorHasASource'
    BY <1>3, ActSome, ActMerged, ActMirror
  <2> QED BY <2>1, <2>2, <2>3, <2>4
<1> QED BY <1>1, <1>2, <1>3 DEF Next, Act

(* Everything above holds in every reachable state. *)
THEOREM CatalogHolds == Spec => []CatalogInv
<1>1. Init => CatalogInv
  BY CatalogStarts
<1>2. CatalogInv /\ [Next]_vars => CatalogInv'
  BY CatalogStep
<1> QED BY <1>1, <1>2, PTL DEF Spec

(* A transaction drafts only rows it has locked, and nothing is stored that    *)
(* does not fit its column.                                                    *)
THEOREM CatalogTypes == Spec => []TypeOK
<1>1. CatalogInv => TypeOK
  BY DEF CatalogInv
<1> QED BY <1>1, CatalogHolds, PTL

(* Whatever syncs of the worker and of administrators run at the same time and *)
(* wherever they fail, every active row of the catalogue that was there when   *)
(* the sync committed last began to write is, with all its columns, one that   *)
(* it downloaded, and a row that came since has each of its columns from that  *)
(* download or from one committed during that sync; no reader finds the        *)
(* catalogue empty once a sync has succeeded, and a sync without another       *)
(* commit beside it leaves exactly what it downloaded (sync_catalog).          *)
THEOREM TheMirrorHasASource == Spec => []MirrorHasASource
<1>1. CatalogInv => MirrorHasASource
  BY DEF CatalogInv
<1> QED BY <1>1, CatalogHolds, PTL

=============================================================================
