---------------------------- MODULE CatalogSync ----------------------------
(***************************************************************************)
(* The mirror of the spreadsheet of vehicle specifications: sync_catalog,  *)
(* run for ever by the worker and on demand by administrators, as          *)
(* concurrent READ COMMITTED transactions of one table.                    *)
(***************************************************************************)
EXTENDS Naturals, Sequences, FiniteSets

CONSTANTS
  Worker,       \* the process of catalog_worker.run
  Admins,       \* calls of POST /vehicle-catalog/sync
  Nobody,       \* the holder of a row nobody has locked
  Ids,          \* (brand, model, version)
  Columns,      \* the remaining columns of a row
  Values,       \* what they may hold
  Oversized,    \* a value that a column of the table is too short for
  Sheets,       \* what the spreadsheet may hold: sequences of rows
  FirstSheet,
  MaxEdits,     \* bound: how often the spreadsheet is edited
  MaxFailures   \* bound: how many downloads or transactions are lost

Syncs == {Worker} \cup Admins
Data  == [Columns -> Values]
Row   == [id : Ids, data : Data]

Fits(d) == \A c \in Columns : d[c] # Oversized

ASSUME SyncsAssumption  == Worker \notin Admins /\ Nobody \notin Syncs
ASSUME SheetsAssumption == /\ Sheets \subseteq Seq(Row) /\ FirstSheet \in Sheets
                           /\ Oversized \in Values /\ Values # {Oversized}
                           /\ Columns # {} /\ Ids # {}
ASSUME BoundsAssumption == MaxEdits \in Nat /\ MaxFailures \in Nat

VARIABLES
  sheet,     \* the spreadsheet; <<>> when parse_catalog rejects what it holds
  spec,      \* committed rows of vehicle_catalog_specs
  holder,    \* who has locked or is inserting each of them
  draft,     \* the rows a transaction has written
  pc, rows,  \* rows of the download that are still to be merged
  toVisit,   \* rows the UPDATE has still to visit
  pending,   \* the merged row that is not flushed yet
  failures, edits,
  (* For the properties: what each transaction downloaded, the rows that were *)
  (* there when its UPDATE began and what was committed since then, and these  *)
  (* of the transaction committed last.                                        *)
  download, existed, beside, last

private == <<draft, rows, toVisit, pending, download, existed, beside>>
vars    == <<sheet, spec, holder, pc, failures, edits, last, private>>

VehicleCatalogSpec == [exists : BOOLEAN, active : BOOLEAN, data : Data]

NoSpec == [exists |-> FALSE, active |-> FALSE, data |-> CHOOSE d \in Data : Fits(d)]
NoRow  == [row |-> CHOOSE r \in Row : TRUE, loaded |-> NoSpec, some |-> FALSE]
NoSync == [download |-> {}, existed |-> {}, beside |-> {}, some |-> FALSE]

(* What the rows of a download make of the mirror: of two rows with one        *)
(* identity the later one counts.                                              *)
Content(s) ==
  {s[i] : i \in {j \in DOMAIN s : \A k \in DOMAIN s : k > j => s[k].id # s[j].id}}

(* The type of every variable; no transaction drafts a row it has not locked,  *)
(* and none stores what does not fit.                                          *)
TypeOK ==
  /\ sheet \in Sheets
  /\ spec \in [Ids -> VehicleCatalogSpec]
  /\ holder \in [Ids -> Syncs \cup {Nobody}]
  /\ draft \in [Syncs -> [Ids -> VehicleCatalogSpec]]
  /\ \A s \in Syncs, i \in Ids : draft[s][i].exists <=> holder[i] = s
  /\ \A s \in Syncs, i \in Ids : Fits(draft[s][i].data) /\ Fits(spec[i].data)
  /\ pc \in [Syncs -> {"idle", "update", "visit", "merge", "done"}]
  /\ rows \in [Syncs -> Seq(Row)]
  /\ toVisit \in [Syncs -> SUBSET Ids]
  /\ pending \in [Syncs -> [row : Row, loaded : VehicleCatalogSpec, some : BOOLEAN]]
  /\ failures \in 0..MaxFailures /\ edits \in 0..MaxEdits
  /\ download \in [Syncs -> SUBSET Row] /\ beside \in [Syncs -> SUBSET Row]
  /\ existed \in [Syncs -> SUBSET Ids]
  /\ last \in [download : SUBSET Row, existed : SUBSET Ids, beside : SUBSET Row, some : BOOLEAN]

Init ==
  /\ sheet = FirstSheet
  /\ spec = [i \in Ids |-> NoSpec]
  /\ holder = [i \in Ids |-> Nobody]
  /\ draft = [s \in Syncs |-> [i \in Ids |-> NoSpec]]
  /\ pc = [s \in Syncs |-> "idle"]
  /\ rows = [s \in Syncs |-> <<>>]
  /\ toVisit = [s \in Syncs |-> {}]
  /\ pending = [s \in Syncs |-> NoRow]
  /\ failures = 0 /\ edits = 0
  /\ download = [s \in Syncs |-> {}] /\ beside = [s \in Syncs |-> {}]
  /\ existed = [s \in Syncs |-> {}]
  /\ last = NoSync

-----------------------------------------------------------------------------
(* Operators whose comment begins with "Mutant" are wrong on purpose: putting *)
(* one in the place of the definition that follows it must break a property.  *)

Goto(s, phase) == pc' = [pc EXCEPT ![s] = phase]

(* A row as the statements of s see it: its own version, or the committed one. *)
View(s, i) == IF holder[i] = s THEN draft[s][i] ELSE spec[i]

Write(s, i, row) ==
  /\ holder[i] \in {Nobody, s}
  /\ holder' = [holder EXCEPT ![i] = s]
  /\ draft' = [draft EXCEPT ![s][i] = row]

(* The worker waits for its next round, whatever the outcome of this one; a    *)
(* request has been answered.                                                  *)
Rest(s) == IF s = Worker THEN "idle" ELSE "done"

(* Ends the transaction of s. *)
Close(s) ==
  /\ Goto(s, Rest(s))
  /\ holder' = [i \in Ids |-> IF holder[i] = s THEN Nobody ELSE holder[i]]
  /\ draft' = [draft EXCEPT ![s] = [i \in Ids |-> NoSpec]]
  /\ rows' = [rows EXCEPT ![s] = <<>>]
  /\ toVisit' = [toVisit EXCEPT ![s] = {}]
  /\ pending' = [pending EXCEPT ![s] = NoRow]
  /\ download' = [download EXCEPT ![s] = {}]
  /\ existed' = [existed EXCEPT ![s] = {}]

Edit ==
  /\ edits < MaxEdits /\ edits' = edits + 1
  /\ sheet' \in Sheets \ {sheet}
  /\ UNCHANGED <<spec, holder, pc, failures, last, private>>

(* fetch_catalog: the whole spreadsheet is parsed before anything is written. *)
Fetch(s) ==
  /\ pc[s] = "idle" /\ sheet # <<>> /\ Goto(s, "update")
  /\ rows' = [rows EXCEPT ![s] = sheet]
  /\ download' = [download EXCEPT ![s] = Content(sheet)]
  /\ UNCHANGED <<sheet, spec, holder, draft, toVisit, pending, failures, edits, existed, beside, last>>

(* The download fails, or parse_catalog rejects it. *)
FetchFails(s) ==
  /\ pc[s] = "idle" /\ Goto(s, Rest(s))
  /\ \/ sheet = <<>> /\ UNCHANGED failures
     \/ failures < MaxFailures /\ failures' = failures + 1
  /\ UNCHANGED <<sheet, spec, holder, edits, last, private>>

(* UPDATE vehicle_catalog_specs SET active = false: it visits the rows that    *)
(* are committed when it begins, in any order, and waits for the locked ones.  *)
BeginUpdate(s) ==
  /\ pc[s] = "update" /\ Goto(s, "visit")
  /\ toVisit' = [toVisit EXCEPT ![s] = {i \in Ids : spec[i].exists}]
  /\ existed' = [existed EXCEPT ![s] = {i \in Ids : spec[i].exists}]
  /\ beside' = [beside EXCEPT ![s] = {}]
  /\ UNCHANGED <<sheet, spec, holder, draft, rows, pending, failures, edits, download, last>>

(* Mutant: the rows are not deactivated first. *)
LeftActive(row) == row

Deactivated(row) == [row EXCEPT !.active = FALSE]

VisitRow(s, i) ==
  /\ pc[s] = "visit" /\ i \in toVisit[s]
  /\ Write(s, i, Deactivated(spec[i]))
  /\ toVisit' = [toVisit EXCEPT ![s] = @ \ {i}]
  /\ UNCHANGED <<sheet, spec, pc, rows, pending, failures, edits, download, existed, beside, last>>

EndUpdate(s) ==
  /\ pc[s] = "visit" /\ toVisit[s] = {} /\ Goto(s, "merge")
  /\ UNCHANGED <<sheet, spec, holder, failures, edits, last, private>>

(* The SELECT of the next row; its attributes are assigned in the session. *)
SelectSpec(s) ==
  /\ pc[s] = "merge" /\ ~pending[s].some /\ rows[s] # <<>>
  /\ pending' = [pending EXCEPT ![s] =
       [row |-> Head(rows[s]), loaded |-> View(s, Head(rows[s]).id), some |-> TRUE]]
  /\ rows' = [rows EXCEPT ![s] = Tail(@)]
  /\ UNCHANGED <<sheet, spec, holder, draft, pc, toVisit, failures, edits, download, existed, beside, last>>

(* Mutant: a row that exists is activated again and keeps its data. *)
Reactivated(current, p) ==
  IF p.loaded.exists THEN [current EXCEPT !.active = TRUE]
  ELSE [exists |-> TRUE, active |-> TRUE, data |-> p.row.data]

(* What the flush makes of the row: the INSERT writes all of it, the UPDATE    *)
(* only the columns that differ from those the SELECT loaded, which are not    *)
(* those of the row any more when another sync has committed it meanwhile.     *)
Merged(current, p) ==
  IF p.loaded.exists
  THEN [current EXCEPT
          !.active = IF p.loaded.active THEN @ ELSE TRUE,
          !.data = [c \in Columns |-> IF p.loaded.data[c] = p.row.data[c] THEN @[c] ELSE p.row.data[c]]]
  ELSE [exists |-> TRUE, active |-> TRUE, data |-> p.row.data]

(* The database refuses the row: it is too long, or its identity was taken     *)
(* since the SELECT.                                                           *)
Refused(s) ==
  /\ pending[s].some
  /\ \/ ~Fits(pending[s].row.data)
     \/ ~pending[s].loaded.exists /\ spec[pending[s].row.id].exists

(* The autoflush before the next statement. *)
Flush(s) ==
  /\ pc[s] = "merge" /\ pending[s].some /\ ~Refused(s)
  /\ Write(s, pending[s].row.id, Merged(View(s, pending[s].row.id), pending[s]))
  /\ pending' = [pending EXCEPT ![s] = NoRow]
  /\ UNCHANGED <<sheet, spec, pc, rows, toVisit, failures, edits, download, existed, beside, last>>

(* An IntegrityError or a DataError rolls everything back. *)
FlushFails(s) ==
  /\ pc[s] = "merge" /\ Refused(s)
  /\ Close(s)
  /\ UNCHANGED <<sheet, spec, failures, edits, beside, last>>

AllMerged(s) == ~pending[s].some /\ rows[s] = <<>>

Commit(s) ==
  /\ pc[s] = "merge" /\ AllMerged(s)
  /\ spec' = [i \in Ids |-> View(s, i)]
  /\ last' = [download |-> download[s], existed |-> existed[s], beside |-> beside[s], some |-> TRUE]
  /\ beside' = [t \in Syncs |-> IF t = s THEN {} ELSE beside[t] \cup download[s]]
  /\ Close(s)
  /\ UNCHANGED <<sheet, failures, edits>>

-----------------------------------------------------------------------------
(* The rows the next statement of s waits for. *)
Wanted(s) ==
  CASE pc[s] = "visit" -> toVisit[s]
    [] pc[s] = "merge" /\ pending[s].some /\ ~Refused(s) -> {pending[s].row.id}
    [] OTHER -> {}

Blocked(s) == Wanted(s) # {} /\ \A i \in Wanted(s) : holder[i] \notin {Nobody, s}

Deadlocked(s) ==
  \E S \in SUBSET Syncs :
    s \in S /\ \A t \in S : Blocked(t) /\ \A i \in Wanted(t) : holder[i] \in S

(* PostgreSQL cancels one transaction of a cycle. *)
DeadlockAbort(s) ==
  /\ Deadlocked(s)
  /\ Close(s)
  /\ UNCHANGED <<sheet, spec, failures, edits, beside, last>>

(* The connection is lost or the process dies; Docker restarts the worker.     *)
Crash(s) ==
  /\ pc[s] \notin {"idle", "done"} /\ failures < MaxFailures
  /\ failures' = failures + 1
  /\ Close(s)
  /\ UNCHANGED <<sheet, spec, edits, beside, last>>

Step(s) ==
  \/ BeginUpdate(s) \/ EndUpdate(s) \/ SelectSpec(s) \/ Flush(s) \/ FlushFails(s) \/ Commit(s)
  \/ \E i \in Ids : VisitRow(s, i)
  \/ DeadlockAbort(s)

Next ==
  \/ Edit
  \/ \E s \in Syncs : Fetch(s) \/ FetchFails(s) \/ Step(s) \/ Crash(s)

Spec == Init /\ [][Next]_vars

(* The worker begins a round again and again, and every sync that has begun    *)
(* goes on: PostgreSQL queues the statements that wait for a row, so that none *)
(* of them is overtaken for ever by the rounds of the worker.                  *)
FairSpec ==
  /\ Spec
  /\ WF_vars(Fetch(Worker))
  /\ \A s \in Syncs : SF_vars(Step(s))

-----------------------------------------------------------------------------
Mirror == {[id |-> i, data |-> spec[i].data] : i \in {j \in Ids : spec[j].active}}

(* A row of which no download may know: another sync inserted it after the    *)
(* UPDATE of the last one began, so the UPDATE did not lock it, and what the   *)
(* flush leaves of the other one stands in it.  Each column still comes from a *)
(* row that one of them downloaded for this identity.                          *)
MayBeMixed(r) ==
  /\ r.id \notin last.existed
  /\ \A c \in Columns :
       \E d \in last.download \cup last.beside : d.id = r.id /\ d.data[c] = r.data[c]

(* Whatever runs at the same time, an active row that was there when the last  *)
(* sync began to write is, with all its columns, one which that sync           *)
(* downloaded, and one that came since has each of its columns from that sync  *)
(* or from those committed during it.  Once a sync has succeeded the readers   *)
(* never find an empty catalogue, not between the deactivation and the last    *)
(* row, nor after any failure; and one during which no other was committed     *)
(* leaves exactly what it downloaded.                                          *)
MirrorHasASource ==
  /\ \A r \in Mirror : r \in last.download \/ MayBeMixed(r)
  /\ last.some => Mirror # {} /\ (last.beside = {} => Mirror = last.download)

(* When the spreadsheet stays as it is and is valid, the mirror comes to be    *)
(* exactly it, whatever earlier and concurrent syncs left behind.              *)
MirrorCatchesUp ==
  <>[](sheet # <<>> /\ \A r \in Content(sheet) : Fits(r.data))
    => <>[](Mirror = Content(sheet))
=============================================================================
