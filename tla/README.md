# A formal model of LogiSync

LogiSync (`src/`) is a FastAPI application over PostgreSQL with a Next.js front
end.  Operators close the day of a vehicle, the back end keeps its odometer and
costs, raises maintenance alerts, announces them to n8n through an outbox,
mirrors a Google spreadsheet of vehicle specifications, and looks after logins
and lost passwords.

Almost everything that can go wrong in it beyond the reach of its unit tests
(which run one request at a time over SQLite) happens between transactions: API
requests run in a pool of threads, two workers run beside them, all of them
share tables at READ COMMITTED, and clients, mail and webhooks fail or answer
late.  The browser adds its own: tabs share one token, and answers come in any
order.  The repository also holds the scripts with which people and agents keep its
specifications and documents: Node processes that share files and, but for one, take no
lock.  The modules therefore follow the code statement by statement wherever
another transaction or process can influence the result, and abstract the data.

## 1. Inventory

| Component | State | Operations | Interacts with |
|---|---|---|---|
| Daily closings, `api.py` 502-596 | `vehicles.odometer_km`, `operational_records` | `create_operation` | evaluates maintenance in its transaction |
| Maintenance, `maintenance.py`, `api.py` 899-982 | rules, executions, alerts, `outbox_events` | `create_maintenance_rule`, `create_maintenance_execution`, `list_maintenance_alerts`, all through `evaluate_maintenance` | reads the odometer, writes the outbox |
| Outbox worker, `outbox.py`, `outbox_worker.py` | status and attempts of the events | `deliver_pending_events`, restart by Docker | n8n |
| Password recovery, `password_reset.py` | tokens, passwords, quotas | `request_password_reset`, `confirm_password_reset` | SMTP, shares a table with the throttle |
| Password login, `auth.py` | `auth_login_throttles` | `authenticate_with_throttle` | the users |
| Catalogue mirror, `catalog.py`, `catalog_worker.py`, `api.py` 415-426 | `vehicle_catalog_specs` | `sync_catalog` by the worker and by administrators | Google Sheets |
| Google sign-in, `api.py` 133-300 | exchange codes, `google_subject` | login, callback, exchange | Google, the browser |
| Organizations and users, `api.py` 303-360, `main.py` 68-84 | organizations, users | registration, new user, first administrator | |
| Integrations, `api.py` 621-737 | receipts, fuel prices, technical data | two imports | the closings read the consumption; no code reads the prices |
| Expenses and reports, `api.py` 599-618, 740-888 | expenses, the amounts of records and rules | one insert, three reports of one to six SELECTs | read what closings and rules write |
| Web application, `operations-dashboard.tsx` | token, session, lists on the screen | sign in and out, load, submit | every endpoint |
| Captures, backlog, packages, `.agents/skills/` 01, 02, 03 | `specs/inbox`, `specs/backlog`, six folders of packages, a lock | `capturar_inbox`, `iniciar_backlog`, `iniciar_spec` | people and an external CLI move packages |
| Import of `MVP.md`, `specsfy-mvp-milestone-interviewer` | a milestone folder, backlog items, drafts | `importar_mvp` | runs the three scripts above as children |
| Context documents, skills `setup`, `stack`, `database`, `add-rule`, `documentator` | `STACK.md`, `RULES.md`, `DATABASE.md`, `SPECKIT.md`, `AGENTS.md`, documentation | seven scripts that rewrite blocks of a document | each other's documents, people's notes |
| Scripts that judge a document or report on the project | none | verdicts | |
| Migrations, compose, backup | none of their own | | |

What is hard in each, and what makes it correct:

* **Closings.** The idempotency key is looked up before the vehicle is locked,
  the record is computed from an odometer read under the lock, and the unique
  index decides last.  Correct means: the committed closings of a vehicle are a
  ledger without gaps or overlaps, one per key, and every client is answered.
* **Alerts.** Only closings lock the vehicle; the other three evaluate the same
  rules beside them from copies that may be stale.  Correct means: what the
  outbox says is what the alerts say, resolved alerts stay resolved, and one
  rule has one open alert.
* **Outbox.** A batch is posted row by row and committed once; a crash in
  between repeats posts.  Correct means: no two workers hold one event, none is
  posted after it was recorded as delivered, delivered means received.
* **Passwords.** Requests and confirmations of one account revoke the same
  tokens in different orders, and the mail is sent after the commit.  Correct
  means: a link works once, older links die with it, calls end.
* **Logins.** Missing rows cannot be locked, the clock is read before the locks,
  a success deletes what failures count.  Correct means: every failure counts
  exactly once up to the limit, a blocked identity stays out.
* **Integrations.** Both imports share one table of receipts, look a key up
  before they know that they own it, and read the vehicle without a lock.  Correct
  means: one receipt per key, answered to every repetition; a price exactly when its
  receipt exists; technical data that only receipts explain.
* **Sessions.** Addresses are wanted by registrations, administrators and starting
  servers at once; the callback of Google reads an account and links it without a
  lock; a code may be presented twice.  Correct means: an address has one account and
  every organisation has one, a link never changes, a code yields one token.
* **Web application.** A load is seven requests and then one for each vehicle, each
  with the token of its moment; tabs share that token, and what a page began goes
  on after a sign-out, a 401 or another sign-in.  Correct means: a screen never mixes
  organisations, a submission reaches the organisation of its vehicle or
  none, and the page does not wait for what will not come.
* **Catalogue.** The mirror is deactivated and rebuilt in one transaction, two
  of which may run at once.  Correct means: readers see a whole spreadsheet and
  the mirror catches up with it.
* **Reports.** A report is several SELECTs, each of which sees what was committed by
  then; amounts are rounded where they are stored and shares where they are shown; one
  screen recomputes what another one reads.  Correct means: shorter periods hold
  no more than longer ones, shares add up to the whole but for the rounding, and two
  reports about one month agree.
* **Specifications.** Names are chosen by looking at a folder first; a process may be killed
  between any two system calls; the lock is a directory a killed owner leaves
  behind; an import runs other scripts and may lose any of them.  Correct means: two
  packages never share a number, nobody writes over another's file, only faults leave
  something behind, and what an import has done so far can be traced.
* **Context documents.** A script reads a document, replaces its block and writes the whole,
  which empties it for a moment.  Correct means: what people wrote stays, rows one script has
  confirmed survive the others, and a check that finds nothing stale is right.

`PROJECT.json` lists every hazard at its line.

## 2. Modules

| Module | Models | Used by |
|---|---|---|
| `Ledger` | abstract: closings as one indivisible step | `Fleet` implements it |
| `Fleet` | the four handlers that evaluate maintenance | `MCFleet`, `FleetProofs` |
| `Delivery` | abstract: what the outbox promises for an event | `Outbox` implements it |
| `Outbox` | the workers, n8n, crashes and restarts | `MCOutbox`, `IntegrationsProofs` |
| `PasswordReset` | requests and confirmations | `MCPasswordReset`, `PasswordResetProofs` |
| `LoginThrottle` | logins with a password | `MCLoginThrottle`, `LoginThrottleProofs` |
| `CatalogSync` | the syncs of the catalogue | `MCCatalogSync`, `CatalogSyncProofs` |
| `Integrations` | the imports of prices and technical data | `MCIntegrations`, `IntegrationsProofs` |
| `Sessions` | accounts, Google sign-in, tokens | `Dashboard` extends it |
| `Dashboard` | the web application in the tabs of a browser, composed with `Sessions` | `MCDashboard`, `DashboardProofs` |
| `Reports` | the amounts of closings and expenses, and the three reports | `MCReports`, `ReportsProofs` |
| `SpecFiles` | captures, backlog items and packages | `MvpImport` extends it |
| `MvpImport` | the import of `MVP.md`, composed with the scripts it runs | `ContextFiles` extends it |
| `ContextFiles` | the scripts that rewrite documents; the specification of all skill scripts | `MCContextFiles`, `ContextFilesProofs` |

`Fleet` and `Outbox` meet at the events: a commit of `Fleet` creates the rows
that `Emit` of `Outbox` lets appear.  `Fleet` and `Reports` meet at the closings: `Close` of
`Reports` is the commit of a closing of `Fleet`, with its amounts.  `Fleet` implements
`Ledger` and `Outbox` implements `Delivery` by `INSTANCE ... WITH`; each implementation
is a property of a run and a theorem.  `Dashboard` implements the `Sessions` it extends, which is a
theorem.

### How state and actions correspond to the code

Committed tables are variables.  What a transaction has read or written and not
committed is a private variable of the call, indexed by the call, and becomes
visible in its commit action.  `pc` says which statement comes next.  A row lock
is a variable that names its holder; a statement that needs a held row is
disabled, which is how PostgreSQL makes it wait.  A unique index makes an insert
wait for an uncommitted row with the same key and fail on a committed one.

**Fleet.** `ClosingCheckKey`, `ClosingLock`, `ClosingInsert` are the lookup, the
`SELECT ... FOR UPDATE` with its checks and the flush of `create_operation`;
`RuleStart`, `ExecutionStart`, `ListStart` and `ChildInsert` are the other
handlers up to their evaluation; `LoadRules`, `ReadCycle`, `EvaluateRule`, `FlushAlert` are
`evaluate_maintenance`, one rule at a time: the latest execution and the open alert are two
SELECTs, between which others may commit; `Commit` ends all four; `Abort` is
any rollback from outside.  Each request is one transaction; a lost answer and a
retry are two requests with one key.  `began` is `created_at`, which PostgreSQL
sets to the start of the transaction.  Simplifications: `date.today()` is read
at the start; the lock that an UPDATE of an alert holds between flush and commit
is not represented, so the model has more interleavings than the database
allows; deadlocks are covered by `Abort`; no handler changes the status of a
vehicle, so `ActiveVehicles` is a constant; a null interval is 0, which the
schema admits for no rule; money is reduced to whether a fuel cost could be
determined, because no other amount influences control; `Reports` has the amounts.

**Outbox.** `Poll` is the `SELECT ... FOR UPDATE SKIP LOCKED` of a batch, `Send`
one post with its outcome (accepted; received but unanswered; never received),
`SendRaises` an exception the loop does not catch, `CommitBatch` the one commit,
`CrashWorker` and `Restart` what Docker does; workers may die, of either, without end.
`Configured` says whether there are a webhook and a secret, without which nothing is polled.
Posts and deaths are counted for the properties only: from `MaxCount` on the counters stand
still (`CountUp`) while the workers go on.  `CreatedAt` orders the events and
transactions may commit in another order.

**PasswordReset.** `RequestStart` is the clean-up, `ConsumeQuota` the quota (its
two rows are locked in one fixed order until the commit, which makes the
transaction indivisible), `RevokeBegin` and `RevokeRow` the UPDATE that visits
the tokens committed when it began, `RequestCommit`, `SendMail`, `DisableToken`
the rest of a request; `ConfirmStart`, `ConfirmLock`, `ConfirmCheck`,
`ConfirmWrite`, `ConfirmCommit` a confirmation.  Transactions that wait for each
other in a cycle are cancelled one by one (`DeadlockAbort`).  The two DELETEs of the clean-up
are one step: they are of different tables and committed together, and what the first one has
deleted stays locked, so no other order of statements leaves other rows.  No code changes the active flag
of a user, so the inactive user of `password_reset.py:207` cannot arise between a request,
which asks for an active one (158), and its confirmation.  Hashes are identities; the neutral
answer is left out.

**LoginThrottle.** `Find` is `_find_bucket`, first of the identity and then of the
source; `Refuse`, `Accept`, `Reject` are the three ways on; `Lookup`, `Insert`,
`Retry` are `_get_or_create_bucket` with its savepoint, `Count` the loop body,
`Commit` the end.  A row that is being inserted has a holder and does not exist
yet.  The clean-up waits for all the rows it deletes at once.  Connections that
are lost are left out: they would only release locks.

**CatalogSync.** `BeginUpdate`, `VisitRow`, `EndUpdate` are the UPDATE that
deactivates; `SelectSpec` is the SELECT of the next row, whose attributes change in
the session only; `Flush` is the autoflush before the following statement.  The
UPDATE of the ORM writes only the columns that differ from those it loaded, active among
them, and `Merged` writes column by column, too: a row that another sync has inserted after the
UPDATE of this one began is not locked by it, so it may be committed between `SelectSpec` and
`Flush`, and then keeps the columns that did not differ before.  A spreadsheet is a sequence of
identities with data, a value for each of the `Columns`;
what `parse_catalog` rejects is the empty sequence.  The UPDATE visits rows in any
order, although the order of the table is the likely one.

**Integrations.** `Lookup` is the SELECT of the receipt, `SelectVehicle` that of the
vehicle with 404 and 422, `InsertPrice` the flush of the price.  `db.commit` of the
code flushes first: `InsertReceipt` or, at the unique index, `ReceiptClashes`;
then `UpdateVehicle`, because the unit of work of SQLAlchemy (2.0.43 is pinned) writes
independent classes in the order of their names; then `Commit`.  The UPDATE names the
columns that differ from those read (`Dirty`).  `Concurrent` is the second lookup
after the rollback, `Crash` the death of the server.  Locality, energy type, price and date
are one content; the roles are left out.  Closings lock the same vehicle and write
other columns, so they only delay an import.

**Sessions.** A call is a request, or a start of the server, with its input; accounts and
organisations are named by the calls that insert them.  `CheckBootstrap`,
`SelectOrganization`, `InsertUser`, `CommitUser` are the statements of
`bootstrap_admin`; registrations and new users share the last two.  `SelectAccount` and
`LinkAccount` are the callback from its SELECT to its commit.  The callback is a coroutine
whose database calls block the event loop, and it awaits nothing between the two, so
`EventLoopIsFree` admits one callback at a time; that holds because the image starts one
uvicorn process, and two overlapping processes could overwrite a link.
`StartExchange`, `LockCode`, `UseCode` are the exchange: its one reading of
the clock with the clean-up, the `SELECT ... FOR UPDATE` with its checks, the commit with the
token.  No code changes the role, the organisation or the active flag of an account, so
`get_current_user` refuses a token for its age only (`Expire`), and roles are left out.  The
clock moves only while codes exist; a crash has an effect only after a call's first
statement; wrong passwords are in `LoginThrottle`, the ten minutes of the state and what Google
answers are left out.

**Dashboard.** `stored` is `access_token` in localStorage, `cookie` is `oauth_correlation`;
each tab has a `page`, the states of one component (`authenticated`, `loading`, `due` for the
timer of the effect, `screen`) and the calls its login form is `asking`.  Every page of the
application mounts a component of its own (`Navigate`).  `load` holds requests under way:
the lists of `loadDashboard`, then the summaries, or a submission, with the token they
carry; `ended` is a load that has failed while requests are still unanswered.  `Answer` is what
`apiFetch` does with one answer, the sign-out at a 401 included; `FailLoad`, `AskFinancials`
and `ShowDashboard` are the ways on of `loadDashboard`, `AnswerSubmit` those of
`submitClosing` and `submitMaintenance`.  A request without a token is answered 403 by
FastAPI's `HTTPBearer`, which does not sign out.  `written` records which vehicle was
written to for which organisation.  Simplifications: the form has one submission
under way and the user waits for it before leaving the page; a sign-in on another device
has no effect here; registering from the catalogue, which names no vehicle, is left out.

**Reports.** `Close`, `Spend` and `AddRule` commit what the reports read.  They are one step
each: a closing keeps its vehicle locked until it commits, and the steps before are in `Fleet`.
`Ask` reads `date.today()` once and `Select` is one SELECT of `sampling_history` (two for
each of three periods), `monthly_summary` (one) or `profitability` (two).  `FuelCost`,
`ReserveOf`, `NetProfit` and `Quantized` are the amounts of the code: cents, and hundredths of a
percent, rounded half to even as `Decimal.quantize` does; the 28 digits that `Decimal` keeps
before are exact here, which no scenario can tell apart.  A cost or a date that
the client does not send is 0.  `read` remembers, for the properties only, which rows there
were while a report ran, if there were the same ones at each of its statements.  There is one organisation; the quotients
by kilometre and the margin are left out, since they follow from two amounts of one answer.

**SpecFiles.** A call is a process; `pc` is the system call it makes next.
`ReadSecond`, `CaptureCreate` and `CaptureFill` are the capture: a write with the flag `wx` first
creates the file and then fills it, and a process may die between.  `BacklogScan` reads
the folder, `BacklogCreate` numbers and creates.  `TakeLock` is the `mkdir` of the lock with its
attempts, `ScanFolder` one folder of the six, `MakePackage` to `ReleaseLock` the rest of `iniciar_spec`;
`RemovePackage` is its clean-up after a failing write.  `Transition` moves a package into
the next folder, as the external `specsfy transition` does from outside; it refuses a
package whose text is not yet filled in.  There is no clock: two captures of one second
choose the same member of `Seconds`.  Arguments that a script rejects are `accepted = FALSE`.

**MvpImport.** `request` is what was asked of a process, `job` the child it is running, `stage` and
`theme` where `main` is.  The parent awaits its child (`execFile`, asynchronous), so the child's steps are
steps of the same call.  A kill may end both, or the child, of which the parent hears, or the import
alone, whose child then runs on to its end (`orphans`).  A theme is what the
regular expressions find in it: whether it is pending, what is answered under a label or in a
phrase.  `Gaps` is what remains to be asked.

**ContextFiles.** A document is a sequence of pieces: notes, marks, rows, text of a template.
`Merge`, `Register`, `Detected`, `AddRule` are what the scripts make of one; `Plan` is the list of
documents a run rewrites, in order; `Detect` reads the project, `Open` reads a document
and decides, `Empty` and `Fill` are the two halves of `writeFile`.  Two targets of the
documentator and three templates of the setup stand for their loops.  The projection of
`specs/` into `SPECKIT.md` is read in one moment; titles are left out; people write outside of
the blocks, and marks they have taken away or put in the wrong order are modelled only in
`SPECKIT.md`, the one document whose script looks for them (`DocumentsAssumption`).  The
filters of `block` and `add` are `Picked`, the pieces of a text at given places in their order.
Three things that only the text of a row or a rule decides are facts about it: `Patterns` says which
rows hold a pattern that `String.replace` takes for something else (`Spliced`), `Headers` which start
as the header of their table does and are dropped at the next run (`Stays`), and `Wordings` in
which pieces the words of a rule are found, which is then not added (`Saying`).  Every script but
`registrar_dados_conversados` leaves a document alone that would not change (`NothingNew`).

## 3. Runs

| Run | Question | Bounds | Size |
|---|---|---|---|
| `fleet_ledger` | are closings an indivisible ledger, and answered? | 3 requests, 2 vehicles, 2 keys, 1 rule | a minute |
| `fleet_alerts` | do alerts, outbox and odometer agree? | 3 requests of the four kinds, 2 rules, 2 days | seconds |
| `outbox` | exclusive, counted, settled deliveries | 2 workers, 2 events, 2 attempts, deaths without end, counters to 4 | seconds |
| `password_reset` | single use, revocation, failing mail, progress | 2 requests, 2 confirmations, 2 addresses, 3 instants, 1 crash | 2 minutes |
| `login_throttle` | exact counts, the limit, blocks, progress | 3 logins, 2 identities, 1 source, limit 2, 5 instants | a minute |
| `catalog_sync` | is the mirror the sheet some sync read, whole, and does it catch up? | the worker and 1 request, 2 models, 2 columns, 6 spreadsheets, 2 edits, 1 failure | half a minute |
| `integrations` | do keys, receipts, prices and technical data agree? | 3 calls, 3 keys, 7 bodies of both kinds, 2 fields | half a minute |
| `dashboard` | whole accounts, final links, single use, unmixed screens, writes at home | 8 scenarios of 4 calls, 2 tabs, 2 loads, 2 lists, 2 vehicles, 4 instants | a minute |
| `reports` | do samplings nest, shares add up, reports agree? | 4 scenarios of 6 to 8 requests, 2 vehicles, 4 days over the end of a week and a month | seconds |
| `skill_scripts` | unique numbers, no overwriting, no debris, a trail, notes and rows kept, progress | 15 scenarios of 3 processes, 1 fault, 1 move, 1 change of the project, 3 numbers, 2 attempts | 3 minutes |
| `one_open_alert_per_rule` | finding | as `fleet_alerts` | |
| `one_live_token` | finding | as `password_reset` | |

Why the bounds are enough.  The hazards are races of two transactions over one
row and need two calls; a third one sees what the race left behind (a closing
after a retry, a login after a success, the worker's next round).  Two keys and
two vehicles are the least with which a key can be shared across vehicles and a
vehicle across keys.  Limits, windows and attempts are scaled so that each is
reached, passed and reset within the run: a quota of one with a window of one
instant, a throttle limit of two with block and window of two and a retention of
two within five instants, two attempts of which a crash forgets one.  The clock is
bounded by `MaxNow` and `MaxDay`, crashes of `PasswordReset` by `MaxCrashes`, failures
by `MaxFailures`, edits by `MaxEdits`.  The deaths of the outbox workers are not bounded;
their counters stand still at `MaxCount`, twice the attempts, so that every difference of
`SendsAreCounted` occurs.  Two columns are the least that can be mixed.

`dashboard` fixes which calls are made in eight scenarios, because all combinations
would multiply states without new encounters; `MCDashboard` says what meets in each.
`Opened` and `AtOnce` bound tabs and loads for each: two loads overlap in one tab, two
tabs share one load, and the scenarios of the server alone have no tab.  `Requests` is 2
of the seven lists, the least with which one may be refused while another is under way.

`reports` and `skill_scripts` fix who asks for what, too.  Each scenario of `MCReports`
interleaves writers with one report of each kind it is about; the amounts are chosen so that
a share must be rounded and a cost is informed, calculated or missing.  In
`MCContextFiles` three processes are the least with which a third one meets what two have left;
`MaxNumber` stands for 9999 and `MaxAttempts` for 500, so that numbers and attempts do
run out; one fault is a kill or a failing write, at any system call.

Every module with a state of its own has a type invariant (`ContextFiles` has that of all skill
scripts).  Only `Fleet`'s is listed in a run; all are proved.

`MaxDuration` of `LoginThrottle` is an assumption about the environment: a login
takes less time than a block or a window lasts (15 minutes each in the code).  Without it a login
that has slept longer than a block could count with its old clock and shorten
the block, and one that has slept longer than a window could begin the count anew.

`BlockedIsRefused` is about attempts that begin while a block is in force, and for as long as that
block lasts: an attempt that passed its checks before the block was set may still be
accepted during it, and deletes the row when it is (with a limit of one TLC shows that in a few
steps).  With the limit of two the committed run has too few attempts for one to run beside a
refused one; the theorem covers every number, and a limit of one was checked as well.

Deadlock is checked in `catalog_sync`, where the worker never stops, and in
`integrations`, `reports` and `skill_scripts`, where the only idle step (`AllEnded`, `Over`)
needs every call to have ended: nobody waits for ever.  In the
other runs the calls are finitely many and the system comes to rest.

### Fairness

* `Fleet`: weak fairness of the next statement of each request that was accepted.
  The server does not stop in the middle of a handler unless it dies, which is
  `Abort`.  Arrivals, `Abort` and the calendar are not fair.
* `Outbox`: weak fairness of each worker's loop and of its restart
  (`restart: unless-stopped`).  Deaths are not fair, and nothing bounds them, so
  `EveryEventSettles` names what it needs: a webhook is configured (`Configured`) and from some
  moment on no worker dies (`WorkersSurvive`).  Without either TLC refutes it.
* `PasswordReset`, `LoginThrottle`: weak fairness of "some accepted call makes a
  step", the weakest choice: nothing is assumed about who is served first.
* `Integrations`, `Dashboard`, `Reports`: none; their properties are safety, so their runs may use
  symmetry.
* `ContextFiles`: weak fairness of each process that was started.  The operating system
  runs it; kills, failing writes, moves and changes of the project are not fair.
* `CatalogSync`: weak fairness of the worker's next round, and strong fairness of
  each sync's next statement.  Under weak fairness TLC shows a request overtaken
  for ever by the worker, which locks and releases the row it waits for in
  every round; PostgreSQL queues the waiters of a row, which rules that out.

### Findings

1. `OneOpenAlertPerRule`: three of the four callers of `evaluate_maintenance` do
   not lock the vehicle and no index helps, so two open alerts of one rule can be
   committed; afterwards `db.scalar` resolves one of them only.
2. `OneLiveToken`: two concurrent requests of one account leave two pending links.
   `OldLinksAreDead` says what does hold: confirming either kills both.

Disagreements with a text that no run has to itself:

* A concurrent repetition of a closing fails at the unique index with an error
  nothing catches, where `docs/api-and-integrations.md:21` promises the existing record
  (the branch `KeyIsTaken` of `ClosingInsert`; `import_fuel_price` catches the same error).
* `specs/completed/0001-gestao-logistica/spec.md:372` promises an outbox with "retentativa
  limitada".  A death between the posts and the commit forgets attempts, so an event can be posted
  more often than `outbox_max_attempts`; `SendsAreCounted` says what does hold: one forgotten post
  per death.  The loop catches `HTTPError`, `URLError`, `OSError` and `RuntimeError`
  (`outbox.py:73`), not the `HTTPException` of an answer that is not HTTP: such an answer ends the worker, its
  attempts are rolled back, and the event heads the next batch again.  If it comes every time, the
  retries have no limit and neither this event nor those behind it settle (`SendRaises`, then
  `Restart`, for ever: TLC's counterexample to `EveryEventSettles` without `WorkersSurvive`).
* `docker-compose.yml:133-134` leaves webhook and secret empty unless they are given, and
  `outbox.py:33` then polls nothing: events are stored and stay pending.
* `docs/flows.md:47` calls the mirror read-only.  Three overlapping syncs may nevertheless commit a
  row nobody downloaded: one inserts it, the last one reads it, another one commits it with other
  values, and the last one writes only the columns that differed from what it read.
  `MirrorHasASource` says when that is possible (`MayBeMixed`) and that it is not of a row that was there
  before; the next round of the worker ends it.
* `registrar_dados_conversados.mjs:2` promises to leave the detected part of the map as it is, but
  passes the new block to `String.replace` as a pattern (65): a row with a dollar sign
  before another one, an ampersand or a quote loses a dollar or repeats the block or what is before or
  behind it.  A row whose information starts as the header does is confirmed and dropped by the next
  run (63).  `add_rule.mjs:17` takes a rule for said when its words are anywhere in the document,
  in whatever case, and ends with success.  `NotesStay` and `ConfirmedRowsStay` except the first
  two by name and say the third as it is.
* The net profit of `profitability` has the other expenses subtracted (`api.py:785`), that of the
  monthly summary (`api.py:818`) has not.
  `ReportsAgree` relates the two with that difference.  Expenses of no vehicle are in the
  sampling of the organisation and in no vehicle's report.
* In the first days of a month the week of a sampling reaches back before the month, so the
  month may hold less than the week; `SamplingNests` orders the periods by their beginning.
  The server's `date.today()` and the month of the browser may differ by a day.
* The skill `specsfy-05-tasks` rejects cyclic dependencies; `validate_tasks.mjs` accepts some.
  `next_task.mjs` fails after the last task although `specsfy-07-implement` sets that state.
  `analyze_change.mjs` does not see a changed test strategy.
* An import whose child failed cannot be run again, because its milestone folder exists; its
  skill describes one inbox entry for each theme.  Answers given to the interviewer as
  `[pergunta material]` are not found under `[Pergunta material]`, so they never reach the draft, and
  the replacement of `[...]` in a draft also rewrites the check boxes of its tasks.

Some behaviours are not findings because nothing written forbids them.  When the
mirror is still empty and three syncs overlap, the last one may find a row
active that is deactivated before it flushes, and then leaves it inactive until
the next round.  `MirrorHasASource` allows that, `MirrorCatchesUp` ends it.  In the
browser, a load that began before a sign-out may end after another user has signed in,
and then shows the former user's fleet until the next load; a late 401 of an old token removes the
new one; a tab whose token another tab removed keeps its page while the server answers every request with
403; the totals, the summaries and the catalogue survive a sign-out in memory.  A vehicle
registered from the catalogue goes to the organisation of the token of that moment.  A
code leaves the address before it is exchanged, so an exchange that fails cannot be repeated,
and every submission has a new idempotency key, so a form sent again after a lost answer is a
new closing.  A password link may be used after it expired when its confirmation waited
for the lock, because the clock is read first.  Two scripts that write one document at
once lose what either has put into it, as does a kill between `Empty` and
`Fill`: `damaged` takes such documents out of the properties, for nothing protects them.  Two backlog items with different slugs may get one number.
A package that moves on while `iniciar_spec` scans the folders may be seen twice but is not
missed, since both follow the order of the states; the walk behind `SPECKIT.md`
has another order and may miss it until the next run.

## 4. Proofs

The eight modules of proofs hold for every number of requests, vehicles, rules, keys, workers,
events, attempts, calls, tabs, spreadsheets, processes and packages.  They use the named
assumptions of the modules they are about: inputs of the right shape, bounds that are
naturals, names that differ, and sets that are not empty where a default is chosen from them.
Assumptions that say more are

* `AccountsAssumption` (`Sessions`): accounts from before a behaviour have different
  addresses, as `uq_users_email` held then, too;
* `TimesAssumption` (`LoginThrottle`): `MaxDuration` as above;
* `PackagesAssumption` (`SpecFiles`): packages from before have different numbers of at
  most `MaxNumber`; `iniciar_spec.mjs` reads four digits and writes no more;
* `ScenariosAssumption` (`ContextFiles`): a process that is no import runs one job, for itself;
* `DocumentsAssumption` (`ContextFiles`): a document is at first in order (`InOrder`): each block has one
  start mark and one end mark behind it, or neither, and between them is nothing but what
  scripts list there.  `SPECKIT.md` may have marks that do not match instead, which
  `upsertManagedBlock` refuses.  This is about what people do to a document by hand: `merge` and
  its likes look for the two marks separately, and with only one of them, or with an end before the
  start, building the same project again changes the document; a note inside a block is replaced
  with the block.  What somebody confirms is a row, and no mark;
* `PatternsAssumption` (`ContextFiles`): a row has at most one pattern of `String.replace`;
* `SheetsAssumption` (`CatalogSync`): the spreadsheets are sequences of rows, and there are a column
  and a value that fits it;
* `ProjectAssumption` (`ContextFiles`): the project says something, and its changes are counted;
* `CalendarAssumption`, `VehiclesAssumption`, `ScenariosAssumption` (`Reports`): months and weeks begin on
  given days, of which the first is one; a consumption, the price and every amount that is
  sent is a natural number, and no rule is for every 0 km, as the schemas of `schemas.py` demand
  (`Valid`); there are finitely many vehicles and requests.

Every argument has one shape: an inductive invariant, a conjunction of named parts, of which a
lemma for each says that a step keeps it; the listed theorems follow from it.  TLC checked each
invariant on the constants of a run before it was proved.

**Fleet.** `TypeCorrect` proves `TypeOK`.  None of the properties of the ledger
is inductive alone: that kilometres are closed once depends on the odometer a
closing read being current when it commits, and that keys are unique depends on
the key being reserved between flush and commit.  The inductive invariant is

    LedgerInv == LockedReadIsCurrent /\ KeyIsReserved /\ RowsOfFinishedRequests
                 /\ OneRecordPerKey /\ EveryKilometreClosedOnce

`LockedReadIsCurrent` is the heart: a closing past its lock owns the row
(`OthersUntouched` shows nobody takes it away), and only a commit of the owner
changes the odometer (`OnlyCommitsTouchTheLedger`).  `LockedReadStep`, `KeyStep`,
`KilometresStep` prove the parts, `LedgerCorrect` puts them together, and
`KilometresClosedOnce`, `KeysAreUnique`, `LockedReadsAreCurrent`,
`LedgerMonotonic` follow.  `Refinement` proves that `Fleet` implements `Ledger`:
a commit of a closing is `Close` of the record it adds, everything else stutters.

Of the alerts, `AlertsInv` says that rows are of finished transactions, that a transaction has
announced nothing before its commit, and that what it plans for a rule fits the row it has
read: with `AlertMoves`, the outbox says what the alerts say (`AlertsAlwaysAnnounced`) and
a resolved alert stays resolved, whatever stale copy another evaluation holds.
`ClosingsInv` adds that a new alert that has been flushed holds its vehicle's row
(`NewAlertsShare`), which nobody else may then lock (`LocksExclude`), so that nobody opens
an alert while a closing is about to (`NewAlertIsAlone`); and that, as long as there are only
closings, the execution one has read is still the latest (`CyclesStand`) and what it has
decided is what it would decide now (`DecisionsStand`).
`ClosingsLeaveAlertsExact` follows.

**Outbox** (in `IntegrationsProofs`, the other part of the back end that deals with receipts).
`HoldInv` (types, one holder per event, held rows are pending with
attempts left) is inductive and gives `SendsAreExclusive`.  `AcceptedInv` adds that
what a worker took for accepted was received; without it "delivered means
received" is not inductive, because the posts of a batch are recorded later.
`CountedSends` bounds posts by attempts, deaths and posts in flight, counting
with the theorems on finite sets; `DeliveryIsFinal` and `DeliveryRefinement`
follow from these.

**Integrations.** `TypeCorrect` carries what ties locks and drafts to phases.
`ReceiptInv` adds the properties themselves and that between insert and commit the
key is reserved and has no committed receipt; a loser therefore finds the winner's
receipt after its rollback, which is why 409 is never answered.
`DataInv` says that the values a call has read are current in every field nobody
overtook and that who holds a vehicle imports into it; `DataFollowReceipts` follows at the
commit, where a field left out of the UPDATE had the imported value already.

**PasswordReset.** `ResetInv` has two parts that carry the rest.  `RevokedIsHeld`: what a
transaction has revoked stays locked by it until it commits, so nobody else judges the row.
`OldLinksAreGathered`: a confirmation that has read the tokens of its account has every
one that existed when it began either on its list, among those it revoked, or dead
already; tokens inserted later are not promised anything, which is why `OneLiveToken` fails
and `OldLinksStayDead` holds.  `ALinkResetsOnce` is proved beside it, and
`TokensNeverComeBack` says that no token is pending again once it is not.

**LoginThrottle.** `FailuresAreCounted` alone is not inductive: it needs that what an attempt has
loaded is the row it holds, with its own failure added (`SeenFits`), that a clock is at most
`MaxDuration` old (`ClocksFit`), that a row inserted between a look at it and its lock is hardly
older than the look (`NewRowsAreYoung`), and that the window of a row has not ended for
any failure it remembers (`MemoryFits`); the sets of failures are counted with the theorems on
finite sets.  `CountedAreFree` says that a failure is counted on a row that was not blocked as
its attempt began, or that is hardly older; so no step ends a block early (`BlocksStand`), and
`BlockedAreRefused` follows.

**CatalogSync.** The UPDATE of a sync visits what existed when it began (`existed`, a variable
for the properties only).  Rows are never deleted, so the sets of two open transactions are nested (`ExistedNest`), and
one of the two waits for the rows of the other.
`UnheldHaveSource`, `DraftsHaveSource` and `ActiveHaveSource` say of every row where its data came
from: whole, if it existed when the UPDATE of its sync began and is therefore locked by it, and column by
column if it came since; `NewStayActive` and `SomeActive` that the mirror is not emptied by two syncs together,
`MergedAreExact` that a sync with no other beside it commits exactly its download.
`TheMirrorHasASource` follows at the commit.

**Sessions and Dashboard.** `AccountsInv`: an address is reserved between an insert and its commit.
`LinkInv`: one callback at a time is between its SELECT and its commit (the event loop),
so what it has read of the link is current; codes follow links.  `SessionsInv`: an
exchange past its lock owns an unused code, and every token has a source.  These are invariants
of `Sessions` (`SessionsHold`).  `DashboardImplementsSessions` shows that the browser adds no
step to the server, so they hold under it (`AccountsStayWholeAlways`, `OneTokenPerCode`,
`LinksNeverChange`).  `DashboardInv` adds that a request's token was issued and that its
answers are of the organisation of that token, from which `ScreensAreOfOneOrganization`,
`WritesAlwaysStayAtHome` and `LoadingAlwaysHasACause` follow.

**The files of the skill scripts.** `ContextFilesProofs` proves about `Spec`, in which scripts,
imports and the scripts of the documents interleave; `StepsAreFileSteps` says that a step of the
latter only moves its own process.  `FilesInv` ties each file to the step of its author.  The
numbers rest on two parts: who is between `mkdir` and `rm` of the lock has it (`LockFits`),
and no package in a folder that a scan has passed has a higher number than the scan has found
(`ScansFit`), since packages only move forward, in the order of the scan.  That nobody
else's file is written over rests on `PackagesFit`, `BacklogsFit` and `InboxesFit`: the file a process is
about to fill is where it made it and is its own.  `UnspecifiedFit` and `EmptyFit` name the
author of every unfinished file.  `NumbersAreUnique`,
`DebrisComesOfFaults` and `FilesStayWithTheirAuthors` follow.  The induction over folders
that the scan needs is one over the least counterexample (`LeastNatural`).

**The trail of an import.** `ImportLeavesATrail` is not inductive: it says nothing of the theme an
import is at.  `TrailInv` adds to `FilesInv` what is there of it at each stage (`PresentFits`): the
Inbox is kept exactly if the theme cannot be developed, and whole once its script has returned; the
backlog item has the gaps of the theme; there is no package until its script makes one, and
the draft has the number that the item is about to name.  `MilestoneFits` says that an import at its
themes has made M01, `TrailFits` that no kind of file is there twice or before the one it comes from
and that a theme that is yet to come has none, `PastFits` that the themes behind are imported.  The
argument: the steps of a behaviour change the files of a theme only through the import that is at
it, or by moving its package (`InboxSteps`, `ItemSteps`, `SpecSteps`); an import goes from stage to stage in the
one way of `ImportPaths`; whoever goes on has imported its theme (`CompletedIsImported`), and it
stays so while packages are moved (`ImportedIsKept`).  `ImportsLeaveATrail` follows, for any
number of themes and of imports.

**The documents that are built.** `BuiltIsUpToDate` speaks of the moment when a build is done;
`BuildInv` adds what holds on the way.  A document that is built is always clean, that is,
free of marks or with one pair in order, even while it is empty; what a build is going to write is
what building it again would leave alone (`TextsFit`); and whatever a build has dealt with is up to
date as long as it is whole and the builds that have begun have read the same project (`BuiltFit`).  The last
condition must be about the builds with each other: with the project as it is now it would not be
inductive, for the project can change and change back.  The core is a lemma about `Merge` alone
(`MergeFits`): merging into a clean text gives a clean text that merging again leaves alone, which
rests on what can be said of three texts put together (`Pieces`).  `PlanFits` says that no
other script ever opens a document that is built.  `BuiltStaysUpToDate` follows, for any number of
runs, versions and pieces.

**Notes and rows.** `NotesStay` and `ConfirmedRowsStay` speak of whole documents; `NotesInv` adds to
`BuildInv` what holds while runs read and write them (`DocumentFits`, for every document that no
overlap or kill has damaged).  One run at a time is between reading and writing it
(`OneWrites`).  A document into which a pattern has put something counts as damaged, for its notes
and blocks are no longer what they were.  While nobody fills it, it has the notes of the first document and is in order (`Preserved`); so has the text that
a run is going to write (`WriterFits`).  That text remembers every row of the document, which
is needed because a script that finds its row there ends without writing, beside a run that has read the
document before (`Remembers`); and both the document and that text have what every finished run has
confirmed (`RowsKept`).  The steps rest on `UpdatedKeeps`: whatever a script makes of a text in order
has its notes, remembers its rows and confirms what the script was asked for.  This is proved
about the operators, for texts of any pieces and length: each of them changes a text in one place
(`Around`, `Changed`), puts its content between its own marks (`MergeFills`, `FilledKeeps`) or a rule
below its heading (`InsertedKeeps`), and leaves every other block where it is (`OrderAround`,
`ListsAround`, `PairsApart`); what a filter keeps follows from an induction over the places of the text
(`Picking`, `NotesAround`, `AllButOne`).  `DocumentsHold` is the invariant, `NotesAreKept` and
`RowsAreKept` follow, and `TypesHold` gives `TypeOK`.

**Reports.** The sums of a report are sums over sets of rows, and a report sees the
rows in several instants.  `BookInv` says what a row is (its fuel cost and its reserve are no negative amounts, its net profit is
the revenue without both), which request it comes from, and how far a report is.  `NestInv` says of
every answer a sampling has got so far that it is at most what the same SELECT would return now, and at
most what a later SELECT has returned for a wider period (`SamplingGrows`: sums of naturals grow with
the rows and with the period).  `SamplingsNest` follows: a row committed between two SELECTs
may make the longer period hold more, never less.
`SharesMakeAWhole` follows from the rounding (`QuantizedRounds`: half to even is at most half a unit off, so
three shares of one whole are at most one unit off together).  `HistoryInv` says that
there is one history of the rows, indexed by their number, and that a report whose statements all saw
`n` rows was computed from those of the history: two such reports have seen the same rows.  `ReportsAgreeToTheCent` is then an
equation about one set of rows: a sum is the sum of the sums for each vehicle (`SumByKey`,
`ColumnByVehicle`), and a sum of `a - b - c` the difference of sums (`SumLinear`, `ColumnNet`).
That `SumFunction` and `FoldSet` of the community modules return what one expects is itself proved
(`FoldExists`, `FoldUnique`, `SumTaken`), for every finite set.

What proving changed.  `BlockedIsRefused` was stated too strongly and was false with a limit of
one.  `KmSeverity`, `DaySeverity` and `Entry` had a CASE with overlapping guards, which TLC
reads in order and the logic does not; they are IF now, in the order of the code.  The assumptions
on sets that must not be empty, on old accounts, on old packages, on the marks of old
documents and on the amounts the reports sum up were tacit before.

**Only model-checked.** Everything temporal under fairness
(`EveryRequestAnswered`, `EveryEventSettles`, `EveryCallEnds`,
`EveryAttemptEnds`, `MirrorCatchesUp`, `EveryScriptEnds`) is out of the prover's reach, as is
`ENABLED`.  Every safety property of the passing runs is stated by a theorem.  The
library's theorems of induction take an operator as a parameter, which the provers
cannot instantiate.  Where an induction is needed here it is one over a *set*: of naturals
(`LeastNatural`, `Counting`) or of finite sets (`Growing`, `Unfolding`).

## 5. Plan

Done, in this order: `Ledger`, `Fleet` and its proofs; `Delivery`, `Outbox` and its
proofs; `PasswordReset`; `LoginThrottle`; `CatalogSync`; `Integrations` and its
proofs; `Sessions`; `Dashboard`; `Reports`; `SpecFiles`, `MvpImport` and `ContextFiles`; the proofs
of the alerts, of `Sessions`, `Dashboard`, `PasswordReset`, `LoginThrottle`, `CatalogSync` and of
the files of the skill scripts, of the trail of an import, of the documents that are built, of
what people and scripts put into all of them, and of the reports.  Left:

1. `TaskFlow`: the verdicts of `validate_tasks` and the order in which `next_task` gives the tasks of
   an accepted plan; the alignment of `parse_catalog`; `register_vehicle_from_catalog`.
2. Liveness of the page: every load ends when the network answers.

## 6. Not modelled

Hashing, HMAC, JWT encoding, mail and webhook bodies, CORS, logging, Sentry and the
layout of pages have no state that another part depends on.  Migrations run once
and in order; their tables are read from `models.py`.  Backup and restore scripts
and compose files are configuration; only the
restart policy and the set of worker services enter the models.  Of the scripts of the agent skills,
those that judge one document (`validate_*`, `next_task`, `progress`, `analyze_change` and the like)
and those that report on the project read files and print: they keep no state and meet nobody.  PostgreSQL, n8n,
Google Sheets and SMTP are environments, modelled by what the code can observe
of them.

Running: `tlc -workers 2 -config X.cfg M` for a run of `PROJECT.json`, `tlapm M.tla`
for a proof module.
