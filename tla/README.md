# Verification of the meal management system

This directory holds TLA+ models of the meal management system, TLC configurations
that check them on small instances, and TLAPS proofs about them.  Every definition is
translated from the code under `src/`; `PROJECT.json` gives the lines each one models.

## 1. Inventory: the system and its parts

The system records canteen meals.  Employees and visitors carry QR credentials, waiters
scan them, administrators manage people, credentials and emails.  A Python service
(FastAPI) over MySQL or PostgreSQL holds all state; browsers hold only what they need to
repeat a request.  Transactions run at READ COMMITTED, so **the row locks that each
operation takes, and their order, are the concurrency control**.

| Component | State | Operations | What is hard |
| --- | --- | --- | --- |
| Meal serving (`meals.py`, `auth.py`) | `serving_requests`, `scan_attempts`, `servings`, `meals`, `visitor_authorizations`, allowances | `_receive`, `_process`, `_create_serving`, `_mark_interrupted`, `reconcile_received`, `authorize`, `revoke`, `correct_meal_type` | a scan is two transactions, each of which may fail, be retried or lose its acknowledgement; concurrent scans of one person; retries of one request id |
| QR emails (`email_queue.py`, `email_worker.py`, `email_dispatcher.py`, `email_actions.py`, `email_lifecycle.py`) | `email_queue`, the dispatcher thread, the provider | enqueue, approve, claim, deliver, record, cancel, poll | an external side effect between two commits; three kinds of sender; a daily limit |
| Credentials (`qr.py`) | `qr_credentials` | issue, replace, revoke, resend | every change must also cancel the emails it makes invalid |
| Visitor batches (`visitor_batches.py`) | batches, allocations | create, approve_emails, prepare_single | counts taken without a lock that covers them |
| Employees (`employees.py`, `bulk_employees.js`) | employees, archives, grants, import batches; the import page's marker in session storage | register, register_bulk, update, photo, set_active, archive, meal type grants | replay of a lost import; counts confirmed from a preview; rows and the object store written apart |
| Scan client (`scan_app*.js`, `scanner_state.js`, `scanner_recovery.js`, `scanner_api.js`, `scan_app.py`, `scan_receipts.py`) | one pending operation in each page, its marker in session storage, the scanner cookie, `scan_app_requests` | open, activate, scan, retry, recover, reset, reload | lost and late answers, reloads, several tabs |
| Staff scanner (`scanner.js`, `scan_state.js`) | the same with authorizations | the same | the same |
| Staff accounts (`accounts.py`, `auth.py`) | accounts, roles, sessions | bootstrap, create, roles, activate, login, logout | the last administrator; sessions that outlive rights |
| Scanner phones and limits (`scanner_phones.py`, `scanner_access.py`) | phones, codes, limiter buckets | create, activate, authorize, revoke, consume | single-use codes raced for |
| Catalogue (`catalog.py`) | locations, scanners, meal types, departments | create, update, activate | changes under a running scan; people who join a department that closes |
| Database (`database.py`) | connections | transaction, retry_transaction, savepoint | dead locks, unknown commits |
| Photo storage (`storage.py`) | objects in a folder or a bucket | put, delete | an answer that is lost leaves an object |
| Mail providers (`delivery.py`) | none | send | accepted or not, and not told |
| Schema and migrations (`migrations.py`) | tables, triggers, `schema_migrations`, a server lock | apply, baseline, inspect | statements that commit one by one; a lock that goes with its connection |
| Backup and transfer (`backup.py`, `transfer.py`) | a backup directory, a destination database, two server locks, a client process | create_local_backup, restore_aiven_backup | a source that is written to meanwhile; work shared with a process and a runner that have locks of their own |
| Test data reset (`test_data_reset.py`) | the database, photos, `reset-state.json` | run | a run that stops anywhere and is repeated |
| HTTP layer, screens | browser pages, cookies | | modelled where a page or a handler keeps something: the scan app, the import page, the photo upload |
| Queries, reports, staff scanner, deployment | little of their own | | not modelled: reads, an older screen, operations |


How they interact: the HTTP layer turns a request into one call of a service; services
share state only through the database (rows and row locks).  Scans read what employees,
credentials, accounts and the catalogue change.  Emails are made and cancelled by the
employee, credential and batch services, and sent by the worker, which the dispatcher
thread, the administrators' requests and the command line call.  The scan client talks to
the serving component through `scan_app.py` and learns a lost result from
`scan_receipts.py`.

What makes each part correct:

* **Serving.** One request is served at most once; an employee gets a meal type at most
  once in the lock window; an allowance is used exactly once per serving; an authorization
  is used only in its scope; what the caller is told, and what the audit row says, is true
  of the servings.
* **Emails.** No email is delivered twice; nothing is sent without approval, or to the
  owner of a credential that is no longer valid; what a row and an answer say is true of
  the mailbox; approved bulk emails are eventually sent; the daily limit holds.
* **Scan client.** What the waiter is shown agrees with the meal record, also afterwards;
  the waiter is told at most once to hand out a meal; a new request starts only when the
  last one can no longer be served behind the waiter's back; a request belongs to the
  browser identity whose page created it.
* **Accounts and phones.** There is always an active administrator; a code activates one
  phone; revoked phones and ended sessions stay out.
* **Registry.** A lost import is repeated as itself and answered with what it did; nobody
  joins a closed department; a bulk change is the one that was confirmed, and the trail
  tells it; a recorded photo is stored; removal is final.
* **Operator tools.** A backup marked complete is one state of the source; a restore
  reports success only of its own work; the migration ledger tells what took effect; a
  reset, however often repeated, gives no id twice, loses no photo and ends complete.

`PROJECT.json` lists the hazards of the code line by line with the properties that would
catch them.

## 2. Modules

| Module | What it is |
| --- | --- |
| `Serving.tla` | the scan service: tables, row locks, handlers, failures |
| `MealLedger.tla` | what serving promises: an abstract ledger that decides each request once |
| `ServingInvariant.tla` | the inductive invariant of `Serving`, in named parts |
| `ServingProofs.tla` | theorems about `Serving`: requests, locks, the lock window |
| `ServingLedgerProofs.tla` | theorems about `Serving`: answers, allowances, authorizations, and that it implements `MealLedger` |
| `ServingMC.tla` | instances for TLC |
| `EmailDelivery.tla` | the email queue, senders, provider and the operations on owners |
| `EmailOutbox.tla` | what delivery promises of each email: taken once, delivered at most once |
| `EmailInvariant.tla` | the inductive invariant of `EmailDelivery`, in named parts |
| `EmailProofs.tla` | theorems about `EmailDelivery`, and that it implements `EmailOutbox` |
| `EmailDeliveryMC.tla` | instances for TLC |
| `ScanClient.tla` | the public scan app: pages, storage, cookie, network, and the server side that binds requests |
| `ScanPromise.tla` | what the scan app promises about each request: decided once, handed out at most once and only if served |
| `ScanClientMC.tla` | instances for TLC |
| `ScanInvariant.tla` | the inductive invariant of `ScanClient`, in named parts |
| `ScanProofs.tla` | theorems about `ScanClient`, and that it implements `ScanPromise` |
| `StaffAccess.tla` | accounts, roles, sessions and activation codes, with the row locks of their operations |
| `StaffAccessProofs.tla` | the inductive invariant of `StaffAccess` and the theorems about it |
| `StaffAccessMC.tla` | an instance for TLC |
| `Registry.tla` | employees, departments, meal types, imports with their page, photos and visitor batches, as concurrent requests |
| `RegistryProofs.tla` | theorems about it |
| `RegistryMC.tla` | an instance for TLC |
| `Migrations.tla` | the migration ledger and its runners, on MySQL and PostgreSQL |
| `DatabaseTransfer.tla` | backup and restore; its destination is the database of `Migrations`, which it EXTENDS |
| `DatabaseTransferMC.tla` | an instance for TLC |
| `TransferInvariant.tla` | the inductive invariant of `DatabaseTransfer`, in named parts |
| `TransferProofs.tla` | theorems about `DatabaseTransfer` and the migrations in it |
| `TestDataReset.tla` | the test data reset, with its inductive invariant |
| `TestDataResetProofs.tla` | theorems about it |
| `TestDataResetMC.tla` | an instance for TLC |

`Serving` and `ScanClient` meet at one request: `ScanClient` keeps of the scan service what
`MealLedger` promises of it, a request decided once.  The emails share only the credentials
with the other two.  `StaffAccess` is where the people and phones come from that the others
take as given: `Serving` deactivates a member of staff and `ScanClient` revokes a phone in
one step, which `StaffAccess` shows in full.  `Registry` has the other half of what
`EmailDelivery` does to employees and batches: there their emails, here their rows, locks
and replays.  `DatabaseTransfer` composes backup, restore and `Migrations`: a restore is
also a runner, and other runners work at its destination.

### Serving and the code

One **call** is one invocation of `record` or `read`: it has its own handler (`pc`, the
scan it was given, the payload fingerprint, its open plan) and the attempt row it inserts.
The tables are `request`, `attempt`, `servings` (with the meals of a serving folded into
its quantity), `used` and `closed` (the allowance rows), and the authorization kept with
its request.  Row locks are explicit: `locks[c]` is what the transaction of call `c`
holds, `Lock` waits for exclusive rows, `Unlock` is the end of the transaction.

`Authenticate`, `Receive` and `ReceiveFails` are the two transactions of `_receive`;
`Begin` to `Commit` are `_process` cut at each point where it waits for a lock (request,
scanner, employee, credential), because there other calls may change what it has not read
yet; `RollBack` is a failing transaction, retried or not; `Commit(c, FALSE)` is a commit
whose acknowledgement is lost; `MarkInterrupted` and `Reconcile` are the two ways an
attempt is closed without a decision; `Crash` may come at any time.  `Change` collects the
administrators' operations a scan can race with.

Left out of `Serving`, beyond formatting: malformed UUIDs and `record_invalid` (they only
append an attempt with no request), device location (inactive locations are merged into
inactive scanners, and a scanner moves only by hand-written SQL), the derived
`exhausted_at` of one meal type, `IDEMPOTENCY_PROOF_UNAVAILABLE` (no reachable state gives
it), the session row that serialises two calls of one staff session, and corrections and
voids.

### Emails and the code

A row of `email_queue` is an element of the sequence `queue`; `mark` is `last_error`, where
a claim token is the name of the sender.  A sender goes through `check` (the daily limit,
its own transaction), `look`/`claim` (`_claim`), `lookAgain`/`deliver` (`_deliver` up to
the provider), `provider`, `record`.  `look` is apart because `lock_email` reads a
visitor's allocation before it waits for the credential's lock.  The delivering transaction
keeps the owner's lock while the provider answers, which is what `Locks` says.  `SendFails`
is a failing transaction, or a failing commit whose writes are there all the same; `Crash`
is the death of the process in any step.  Revoke, replace, update of the address,
set_active, archive, issue, batches, and a visitor's last meal are actions that take the
same locks.  `inbox` is the provider's side, which the code cannot see.

Left out of `EmailDelivery`: payload encryption and its failures, the dispatcher's back-off
delays, counters and snapshot, `DISABLED`, `LEGACY` rows (they take the branches of bulk
rows), and who the approving administrator is.  Requests other than the worker's and the
two counting ones are one step: their locks are taken and released in it.

### The scan client and the code

One browser has several tabs.  They share `cookie`; each has a `page` (`openScanner` in two
halves, `renderActivation`, `renderScanner`), the scope it serves under (`servingScope`),
the pending operation of `scan_app_operation.js` and `core.js` (`held`, `token`, `result`,
`started`), and its `marker` in session storage.  A read is a `call`: it carries the cookie
of the moment it was sent and the scope whose CSRF token it bears, which another tab may
have made different.  The server works it off in the steps `Reserve` (cookie, phone,
`_reserve`), `Receive` and `Decide`, which are the committed transactions; a page that gave
up (`Disconnect`, `Reload`) leaves its read behind, and the read may still arrive, be
decided, or `Vanish`.  `Recover` is the look-up of `recover`, with the server's answer in
the same step, since it only reads.  `handed` and `refused` are what the waiter saw.

The transport's silent reconnect after a 401 or 403 is part of `Receives`: it either finds
the same scope and repeats the read, which is a `Retry`, or answers
`SCANNER_SCOPE_CHANGED`, which leaves the serving unconfirmed.

Left out of `ScanClient`: camera, decoding and wording; the values of meal types (a flag
says that one is selected, and a page that unselects it is like one that never did); a
marker of which one of the two keys could be written or cleared; development mode, where no
phone is needed; rejections by an account that is no longer the scanner's, because the
application protects that account and its settings, and only hand-written SQL changes them.
The answers `IDEMPOTENCY_KEY_REUSED`, and `REQUEST_MISMATCH` for another browser's request,
are defences that this page does not run into: a restored request cannot be rescanned (see
`scan_reload`), and a page repeats a request only under the scope it was created in.

### Accounts, codes and the code

A worker carries out one request in one transaction.  `pc` is the row it waits for:
`administration` (the row of `system_locks` that `_lock_administration` takes), `session`
and `actor` (the two rows of `require_actor`'s join, in the order the join reaches them),
`target` (the account, session or phone the request is about), and `commit`.  `locks[w]`
are the rows it has; `plan` is what it read and will write after waiting.  The writes of a
request and its commit are one step, because nobody sees the writes before: bootstrap,
create, set_active, set_roles, update, login, logout, create_code, revoke and
activate_code have an action each.  `AddressTaken` is the unique key that catches two
requests for one address, which `update` does not serialise.  `RollBack` is a deadlock,
time-out or dead worker, after which the three operations under `retry_transaction` may
start again; a wait for each other, which `set_active` and `require_actor` can get into,
ends with it.  `tokens` and `given` are what people were told; `epoch` counts what ends an
account's sessions.

Left out of `StaffAccess`: names and passwords (a request that does not know one changes
nothing), the protected scanner account, phones activated by the emergency secret or
adopted from before codes, and the limiter of attempts.

### The registry and the code

A worker carries out one request; `pc` names the next statement that waits for rows:
`actor` (`require_actor`, which locks the administrator's account, so that requests of one
administrator wait for each other), `employees` (`FOR UPDATE`), `department` (`_department`,
`FOR SHARE`), `code` (the insert under the unique employee code), `types` (the active meal
types, `FOR SHARE`), `batch`, `departments` and `name` (`register_bulk` and
`_import_departments`), `row` and `type` (`catalog.py`), `visitors`, `commit`.  `held` and
`shared` are the rows it has, `plan` what it read before it waits again, which is what makes
a stale read possible.  Its writes become visible at the commit, in an action for each
operation; `Committed` is the commit with or without its acknowledgement, `RollBack` the
end without one.  A key that is inserted is locked like a row: who inserts the same waits.

`page` is `BulkEmployeeImport`: the request id, the file and whether it was submitted, with
`Submit`, `Answered` (which refusals end an import, by code and status) and `Reload`.
`Preview` is `preview_meal_types_bulk`, whose count the bulk change has to meet.  The photo
upload runs through `look`, `put`, its transaction, and `delete` after a refusal
(`employee_photo_upload`); `FailedPut` is what each store may leave behind.

Left out of `Registry`: QRs and emails of employees (`EmailDelivery`), sessions
(`StaffAccess`), names, addresses, parsing of files, and rows of one import that differ in
department or meal types.

### Migrations, backup, restore and the code

`Migrations` cuts a run at every statement that commits on its own: `Connect` (the server
lock), `Check`, `CreateLedger`, `Validate`, `BeginMigration` (the `APPLYING` row),
`Statement`, `EndMigration`.  `done` counts how often each statement took effect.  In
PostgreSQL a migration and its row are one commit, so `Statement` leaves no trace there.
`StopRun` is a failing statement, a broken connection or a dead process; the lock goes with
the connection.

`DatabaseTransfer` has one backup and several restores.  The source is a version that every
write raises; the backup's stages are its steps, and between any two of them the source, the
photo folder and the environment file may change.  A restore goes through the transfer
lock, the migration lock, the check for an empty destination, the import by its client
process (`ImportPart`, which goes on without its restore), triggers, comparison, migration
and report.  `Disconnect` takes away the connection and with it the locks, which the restore
notices when it next uses it; `Die` ends it.

Left out: file permissions, symbolic links, checksums of files nobody else writes, TLS, the
decryption of QRs, reserved addresses and the other rules on settings.

### The reset and the code

One run at a time; `mem` is what the process knows, `file` is `reset-state.json`, written in
two steps because `write_text` empties it first.  `Truncate` and `RestoreCounter` are one
statement each, which commits on its own; `Stop` may come at any time.  The order that the
command prints is kept: the applications are down during a run (`Begin`), and may be up
before it is repeated, which is when they insert with small ids, record photos and activate
phones.  `issued`, `halfway` and `lost` are history: the greatest id a table ever gave, and
the keys of truncated rows.

Left out: the comparison of guards, triggers and kept tables, which nothing changes during a
run, the snapshot's id, the dry run and the prompt.

## 3. Runs

Each cfg is an instance of its `MC` module.

| Run | Question | Answer |
| --- | --- | --- |
| `serving_employee` | Do two concurrent scans about one employee, with retries, renames, revocations, failures and crashes, keep every safety property and implement the ledger? | holds |
| `serving_visitor` | The same for allowances and for shared credentials with details or authorizations | holds |
| `serving_progress` | Is every call answered, and is the inductive invariant of the proof invariant? | holds |
| `email_employee` | Can an employee's email be delivered twice, while invalid, or be misreported? | holds (no) |
| `email_visitor` | By how much can the daily limit be overshot? | by less than the number of limited senders |
| `email_progress` | Are approved bulk emails sent in the end? | holds |
| `scan_client` | Two tabs, two reads under way, lost answers, reloads, revoked phones: is the waiter told the truth, told once, and never left behind? | holds |
| `staff_access` | Do concurrent changes of accounts leave an administrator, do only administrators decide, do ended sessions stay ended, and does a code activate one phone? | holds |
| `registry` | With two administrators at once, and lost answers: is an import found again, a department closed, a bulk change as confirmed, a photo stored, and a removal final? | holds |
| `transfer` | Is a complete backup one state of a busy source, does a restore only report its own work, and does the migration ledger tell the truth? | holds |
| `reset` | May a reset stop anywhere and be repeated without giving ids twice or forgetting photos? | holds |
| `scan_reload` | "or requires the original QR to be read again with the same identifier" | violated |

The finding in `PROJECT.json` says how the violation comes about.

### What reading showed besides

These follow from the definitions and have no run:

* The root README (line 151) says the limit caps all emails of 24 hours.  `deliver` counts
  in a transaction of its own before it claims (`email_worker.py:35`), so concurrent senders
  pass it; `LimitOvershoot` says by how much.  The command line worker has no limit at all,
  and messages whose acceptance is not confirmed are not counted.
* `docs/api.md:161`: the limit is about emails sent in the last 24 hours, but `sent_today`
  goes by `updated_at` of `SENT` rows, which a cancellation refreshes (`email_queue.py:118`).
* `docs/email-delivery-workflow.md:11`: unresolved sends block another.  `resend_employee`
  looks at the newest email alone (`qr.py:308`), and `prepare_single` does not look.
* `lock_email` reads a visitor's allocation before it waits for the QR
  (`email_queue.py:153`), so an email may follow the last meal.
* `correct_meal_type` reads the effective meal type before it locks the employee
  (`meals.py:253`): two corrections at once may record the same previous type.
* An import refused with `DEPARTMENT_NOT_FOUND` is a 404 (`http_security.py:125`), which the
  page does not take for a refusal although it lists the code (`bulk_employees.js:15`, `214`);
  `MEAL_TYPE_UNAVAILABLE` is not in that list.  Nothing was committed, and the page still
  asks for the same import to be sent again.
* Closing a department counts its active employees without locking them
  (`catalog.py:235`), so the confirmation is about a count that may be out of date.
* A crash while the reset writes its state file leaves one that no rerun can read
  (`test_data_reset.py:358`), and after a rerun the audit event has the counts of the last
  run alone (`docs/ec2-deployment.md:253`, `test_data_reset.py:390`).

### Bounds, and why they are enough

* **Serving.** Two calls: each property relates two scans (the same request twice, or two
  requests for one person), and a call that crashed is one of them.  `OneTheme` keeps the
  two calls of a behaviour on one subject (the same request; one employee's window; one
  allowance; one shared credential); calls about different subjects touch no common row.
  Calls differ only in name, so they are symmetric.  `MaxClock = 1` with `LockTime = 1`
  lets the window close, and expiries fall before and after; `MaxChanges` is 1 or 2
  administrators' changes in all; `Attempts` is the retries.
* **Emails.** Two rows of two credentials of one employee are enough for a replacement, a
  resend and a bulk email beside a single one; one dispatcher and one administrator are
  the two senders that race.  Two addresses, one of them reserved.  `MaxFaults = 2` is a
  crash and a failing commit.  The visitor run has three emails, a limit of one and a clock of two
  days, which is where an overshoot by one sender more would show; there the provider
  accepts everything (`AllAccepted`), because refusals only make fewer messages.
* **Scan client.** Two tabs, because identities are replaced by another tab; two reads under
  way, because a late one meets a repeated one; two requests, because one is left behind by
  a new one; two identities, because one is replaced.  One well formed QR and one malformed
  value: a second QR would only add reads of a mismatching token.  `OneTheme` takes out the
  products of independent troubles: two tabs together with revocations or page loads work
  on one request, with two requests nothing else fails, and one tab alone has every
  combination on its first request and one trouble when it has come to its second.
  `MaxFaults` is one lost connection, failing handler or lost acknowledgement, `MaxReloads`
  one page load or one closed tab.
* **Accounts.** Two workers, because each property relates two requests.  Six requests: the
  first account, its sign-in, a second administrator and its sign-in leave two that race;
  `Quiet` lets requests overlap from the fifth on, so that the set-up is not interleaved
  with itself.  Three addresses, so that two accounts can both want a free one; one code
  and two browsers; `MaxFaults = 1` is a roll-back or a lost answer.  Workers, accounts,
  sessions and browsers differ only in name.
* **Registry.** Two workers and two administrators, because each property relates two
  requests, or a request and its repetition.  Two employees who are registered and one who
  is not; one department that is there and one to be made; two meal types; two photo keys,
  one to replace the other; two request ids.  `AllOperations` has at least one pair for
  every two operations that meet at a row, and `MaxOperations = 4` is a preview, its change
  and two requests beside it, or an import, two repetitions and a change in between;
  `MaxFaults = 1` is a lost answer, a roll-back, a failing store or a page load.
  `OneTheme` keeps imports, photos, bulk changes and visitors apart, which meet at no row
  but their administrator's; each meets all the other requests.  The theorems hold
  without it, and for all bounds.
* **Transfer.** Two restores, because one outlives its locks while the other starts, and a
  runner beside them; three migrations, of which a restore may apply up to the second; two
  tables with the ledger between them, so that an import can be half done on either side
  of it; one photo, two changes of the source, one backup, three runs and one stop.  A
  second stop only ends a second process, which leaves less behind.
* **Reset.** A table whose ids go on, one with a photo key of its own, and the audit log;
  three keys, one of another format; one phone; three inserts, so that ids are given before,
  between and after; two stops, which is a run and a rerun that both fail.  The theorems
  hold for all of these.
* `CHECK_DEADLOCK` is off: with the clock and the changes used up, a system with nothing
  to do has stopped for good.

### Fairness

`Serving`: weak fairness of each call's own work.  The service runs a handler to its end
unless the process dies; a wait for a lock ends because the holder does.  Failures,
crashes and administrators get no fairness.  `EmailDelivery`: weak fairness of each
sender's own work: the dispatcher polls on a timer until it is stopped, transactions wait
with the database's lock time-out, the provider is called with a time-out.  Approvals,
clock and failures get none.  `ScanClient`: a read under way is worked off or lost (the
server's threads run, the network does not keep a request for ever), a page takes the answer
of its read and of its look-up, and the waiter presses the one button the page offers,
which is what "retry or check the same serving before continuing" asks for.  Scans,
reloads, failures and revocations get none.  `StaffAccess`, `Registry`,
`DatabaseTransfer` and `TestDataReset` have safety properties only.

## 4. Proofs

`ServingProofs` proves, for all calls, requests, people, devices, credentials, bounds and
scans that satisfy the `ASSUME`s of `Serving`:

* `Inductive`: `Spec => []ServingInv`
* `TypeCorrect`: `Spec => []TypeOK`
* `RequestServedOnce`: `Spec => []ServedOnce`
* `AuditAgrees`: `Spec => []AttemptTellsServing`
* `WindowHolds`: `Spec => []WindowRespected`
* `PlansStayCurrent`: `Spec => []PlanCurrent` (`PlanCurrent` is a part of `ServingInv`)

The argument.  `ServedOnce` and `WindowRespected` are not inductive: a handler that has
decided to serve and not yet committed can break them.  `ServingInv` adds
`LockDiscipline` (no exclusive row has two holders, and a handler about to record an
employee's serving holds the employee's row), `ReceiptKept` (a running handler's attempt
is the one it wrote), `PlanCurrent` (what an open transaction found out still holds: the
request is still pending, and no serving of that employee and meal type has come into the
window) and `RowsLinked` (a serving and its attempt name each other).  `PlanCurrent`
survives the steps of other calls because changing what it speaks of takes a row that
`LockDiscipline` gives to this call alone.  There is one lemma for each action, and in it
one step for each conjunct the action can disturb.

`ServingLedgerProofs` goes on, under the same assumptions and `NullAssumption` (the absent
value is no response code), and proves every other safety property of `Serving`:

* `LedgerInductive`: `Spec => []LedgerInv`
* `ApprovalsHonest`: `Spec => []ApprovalIsHonest`
* `AllowancesExact`: `Spec => []AllowanceExact`
* `AuthorizationsScoped`: `Spec => []AuthorizedScope`
* `ServingsUnderLock`: `Spec => ServedUnderLock`
* `LedgerImplemented`: `Spec => ImplementsLedger`

The argument.  These properties are about the commit of a serving, so the invariant has to
say, of a handler in an open transaction, that all it decided on is still so.  `LedgerInv`
adds to `ServingInv`: `RequestsSettled` (the row of a request, its payload and authorization,
agrees with the servings made for it), `InputValid` (a handler that has come past its checks
has the scan that passed them), `RequestRead` (what it read of the request's row, which it
has locked, is still there), and `CheckedUnderLock`: the scanner is online while the handler
has it (`ScannerHeld`), and the credential unrevoked, its owner active and eligible, its
allowance as read while it has those (`CredentialHeld`).  A step of another handler or an
administrator that would undo one of these needs a row that is taken, by `LockDiscipline`.
The counters of `AllowanceExact` are then one more than the handler read and the set of
servings has one more member, which is where the lemmas about cardinality come in.  For the
refinement a commit that serves maps to `Serve`: `RequestRead` gives the open verdict,
`PlanCurrent` and `AllowanceExact` give `Admits`; a commit that refuses maps to `Refuse`, a
tick to `Pass`, and every other step leaves the ledger alone.

`EmailProofs` proves, for all employees, credentials, addresses, senders, limits and bounds
that satisfy the `ASSUME` of `EmailDelivery` (finitely many senders and credentials), every
safety property of it:

* `DeliveryInductive`: `Spec => []DeliveryInv`
* `EmailsTyped`: `Spec => []TypeOK`
* `RowsTellMailbox`: `Spec => []StatusTellsMailbox`
* `AnswersTrue`: `Spec => []AnswersTellMailbox`
* `WaitingCurrent`: `Spec => []WaitingIsCurrent`
* `EmailsSentWhileValid`: `Spec => SentWhileValid`
* `OutboxImplemented`: `Spec => ImplementsOutbox`
* `LimitsHold`: `Spec => []LimitOvershoot`

The argument.  What a row says of the mailbox depends on the sender that has claimed it, so
`DeliveryInv` joins rows (`RowHonest`), senders (`ClaimHeld`: the claim of a sender that has
not delivered yet is the only one, and while the provider answers it stands and the row is
current) and answers (`AnswerHonest`).  `OwnersKnown` says that an employee has at most one
live credential, which is why cancelling the emails of one cancels all that wait.
`VisitorHeld` and `RoomKept` are about requests that count for a visitor.  Twenty-five
actions against all these parts would be too many cases, so every action is first shown to
stay within `Frame`: at most one sender moves, and each row is left alone, approved,
cancelled by someone who holds its locks, handled by the sender whose claim it is, or new.
`SafeStep` carries all the parts for the rows and senders that do not move over any step
within the frame; an action's own lemma only says how its own sender ends.  The action
property and the simulation of `EmailOutbox` read off the frame as well.  `LimitOvershoot`
needs `LimitKept`, which counts the senders past the check along with the emails sent: a
sender that passes has counted every email of today (`FewWhenPassed`, since a row is
written after its email is accepted), and a row that becomes SENT takes its sender out of
those past the check (`NewlySent`).

`StaffAccessProofs` proves, for all workers, accounts, sessions, phones, browsers and
requests that satisfy the `ASSUME` of `StaffAccess`, every property its run checks:
`StaffTypes`, `StaffAdministratorRemains`, `StaffDecidedByAdministrators`,
`StaffSessionsEnded` and `StaffOneBrowserPerCode`.  The argument.  `StaffInv` adds that no
row has two holders (`LocksExclude`), that a request past a lock has it and that the person
behind it still is an administrator (`RowsHeld`), and that what it judged is still so at
its commit (`JudgementHolds`): the account that signs in has lost nothing since, the code is
unused, and, for `set_active` and `set_roles`, the account is still not the last
administrator.  Each commit is shown to leave alone every row that another worker has
locked (`Protected`), and under the administration lock also the set of administrators;
`OthersHold` then carries the other workers' facts over the step in one go.

`TestDataResetProofs` proves, for all tables in any order of wiping, keys, phones and bounds
that satisfy the `ASSUME` of `TestDataReset`: `Inductive` (`Spec => []ResetInv`),
`IdsStayUnique` (`[]IdsNeverReused`), `KeysSurvive` (`[]KeysKept`) and `ResetEndsComplete`
(`ResetIsComplete`).  The argument.  `IdsNeverReused` speaks only of completed resets; what
carries it through a half done one is `CountersCarried`: each table's ids are safe either in
the table itself or in the file, the run's memory has the greater of the two, and
`RestoreCounter` writes it back in the order of the tables.  `FileTellsRun` says that a whole
file agrees with the run until its end.  `KeysKept` and the part on photos need
`RunAlone` (the run knows every photo that can still be found: rows recorded and rows
lost), `TablesEmptied`, `PhonesRevoked` and `ObjectsGone` say how far the run is.

`RegistryProofs` proves, for all workers, administrators, codes, departments, files, requests
and bounds that satisfy the `ASSUME` of `Registry`, every property its run checks:
`PhotosAreStored` (`[]PhotosStored`), `RemovedStay` (`RemovedStaysRemoved`), `GrantsAreAudited`
(`GrantsAudited`), `BulkIsAsConfirmed` (`BulkAsConfirmed`), `NobodyJoinsClosed`
(`NobodyJoinsClosedDepartment`), `ImportsAreKept` (`[]ImportKept`) and
`CommittedImportsAreAnswered` (`[]CommittedImportIsAnswered`), from two invariants,
`TablesInvariant` and `ImportsInvariant`.  The `ASSUME` gives the constants their types,
finitely many codes, and of the inputs what the services refuse before they touch a table
(`GoodFile`, `GoodOperation`): an import has rows and no code twice, a request names what it
is about.  At first no employee has a photo or comes from an import.

The argument.  `TablesInv` says that locks exclude each other (`LocksExclude`) and, of each
worker, that what it read before it last waited is still so: its employees
(`EmployeesAsRead`), the codes it is about to register (`CodesFree`, where codes of an import
it has not come to yet are `ToCome`), its department (`DepartmentAsRead`), its stored object,
which no row names yet (`PhotoUnnamed`), and the count (`CountHolds`).  A commit writes only
rows its worker has locked for itself (`WritesOwn`), so `OthersHold` carries the facts of the
other workers over any step, and the action properties follow at the commit.  `ImportsInv`
joins the three places an import is in: its request (`ImportAsSent`: it holds its key from the
look-up on, is at its first two statements once the batch is committed, and only its
first answer can end it), its page (`PageWaits`), and its batch (`BatchKept`: the
employees of a batch are those of its file, removed or not).  Every statement of an import
either goes on or answers (`ImportGoesOn`), and an answer for a committed one is its result or
an error the page does not take for the end (`Answers`); that is why the marker outlives every
loss.  `CodesCounted` gives the comparison of the replay, that the employees found are as many
as the rows of the file.

`ScanProofs` proves, for all tabs, reads under way (finitely many), QR values and bounds that
satisfy the `ASSUME` of `ScanClient`, every safety property of its run:

* `ScanInductive`: `Spec => []ScanInv`
* `ShownTrue`: `Spec => []ShownIsTrue`
* `EarlierSettled`: `Spec => []SettledBeforeNext`
* `BoundByBirth`: `Spec => []BoundToItsBrowser`
* `PromiseKept`: `Spec => ImplementsPromise`

The argument.  A malformed first read is final for the page, and stays so only because no
other read of that request exists: `Dead` says of a request without a row that no read under
way can give it one and no page can still read it, and `Over` that it is decided or dead.
What keeps a page from giving up a request that is not over is its marker: every request that
was not excused is over or marked (`KeptOrOver`), and over when the tab has a later one
(`OverBeforeNext`).  For that the invariant has to say what a page may do: it reads only the
last request of its own making, under the scope it made it in (`ReadsItsOwn`), since a page that
restored one has no meal type selected; its read is one that no other page waits for, and
when it is the first, the only one there is (`WaitsForOne`).  `CallHonest` says that an answer
is true and that of a request's reads only one is answered `APPROVED`, before the meal is
handed out; from it follow `handed <= 1` and the simulation of `ScanPromise`: a decision maps to
`Settle`, a page that takes such an answer to `HandOut`, one that takes a final malformed first
read to `Settle` as refused, and all else to no step.  As with the emails, each action is first
shown to stay within a frame: a page's (`PageFrame`) or the server's (`ServerFrame`), and
`SafePage` and `SafeServer` carry the invariant over any step within one.

`TransferProofs` proves, for all runners, restores, photos, migrations, tables, places of the
ledger among the tables of the dump, and bounds that satisfy the `ASSUME`s of `Migrations` and
`DatabaseTransfer` (a restore is a runner, the absent value is none, and a restore may apply
at least the second migration), every property of its run:

* `TransferInductive`: `Spec => []TransferInv`
* `BackupConsistent`: `Spec => []BackupIsConsistent`
* `DestinationIsSound`: `Spec => []DestinationSound`, the types and `LedgerTruthful`
* `VerifiedIsTheBackup`: `Spec => VerifiedIsBackup`

The argument.  A backup's three readings of the source are ordered by age, and two states of
one age are the same (`Precedes`), so the comparison of the first with the last, in `Recheck`,
also settles the one between (`BackupHonest`).  For the destination `LedgerTruthful` is not
inductive: a run is in the middle of a migration, and a client may be importing beside it.
`LedgerTrue` is what stays true of the tables that the ledger speaks of (`Kept`), as long as
the destination belongs to the migrations alone or the ledger came with a backup
(`Regular`); `ImportsKnown` says what a half-imported destination without a ledger holds,
and `LedgerCopied` that, while a table of an imported destination is missing, no migration
comes to an end.  A destination that is neither is left out by `HalfImported`, and the proof
shows that it stays so.  What a run read when it took its plan holds at every later statement
(`Planned`, `BetweenMigrations`, `InMigration`), because the lock lets in nobody else (`LockHeld`)
and a client that outlived its restore only brings tables on which the current migration
has done nothing.  `RestoreHonest` says of a restore that everything up to the part its client is
at is its own, and that it goes on only with all of it: with `LedgerTrue` that is
`VerifiedIsBackup`.  A step that leaves the tables alone needs only its own restore looked at
(`QuietStep`, `GoingKeeps`); the two that bring something are `LedgerArrives` and `TableArrives`.

Only model-checked: liveness (`CallsAnswered`, `BulkDispatched`, `HeldServingConfirmed`), which
is out of TLAPS's reach.

## 5. Not modelled

* `correct_meal_type` with meal voids, and `record_invalid`, which appends an attempt that
  belongs to no request.  No scan depends on either.
* The limiter (`scanner_access.py`): one upsert counts and restarts a window in the
  database, so no interleaving is left to explore.
* Phones adopted from before codes or activated by the emergency secret.
* `pg_transfer.py` and `development_seed.py`: one-time tools.
* `queries.py`, `reports.py`, `paging.py`: reads of one snapshot each; nothing of theirs
  changes state.
* Parsing of employee and visitor files, images, templates of messages, SMTP and SES:
  functions of their input, for which unit tests are the better tool.
* The staff scanner screen, which repeats the discipline of the public scan app, and the
  other screens, which are views over the API.
* Deployment: calls to outside services.

## 6. Where it can grow

1. Corrections and voids as actions of `Serving`, with the row of the meal they leave
   unlocked.
2. A proof for the migrations without restores (`MigrationsSpec`), a part of the one for
   `DatabaseTransfer`.
