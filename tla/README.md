# FinBank in TLA+

FinBank is a NestJS banking API: customers register and log in, open accounts,
transfer money, and receive receipts by mail and SMS; payment providers call a
webhook; administrators reconcile and settle a day's transfers. This directory
models the parts of it that keep state, checks the models with TLC on small
instances, and proves what matters most for every instance with TLAPS. Paths
below are relative to `src/src/`.

1. [The system](#1-the-system)
2. [The modules](#2-the-modules)
3. [State and actions against the code](#3-state-and-actions-against-the-code)
4. [The runs](#4-the-runs)
5. [Fairness](#5-fairness)
6. [The proofs](#6-the-proofs)
7. [Where the code and its words disagree](#7-where-the-code-and-its-words-disagree)
8. [What is not modelled](#8-what-is-not-modelled)
9. [The plan](#9-the-plan)

## 1. The system

One Node process (or several behind a balancer) serves HTTP and, in the same
process, consumes its own RabbitMQ queue. It shares a Postgres database, a Redis
server and the broker with any other instance. JavaScript runs one callback at
a time, so everything between two `await`s is atomic **within** a process, and
everything else interleaves: two requests for one user, one account or one key
may each be halfway through the same method.

| component | state | operations | talks to | correct when |
|---|---|---|---|---|
| Transfers `transactions/` | `transactions` rows; per request the locked rows, the open database transaction, the pooled connection | `transfer` | Accounts and Ledger tables, Redis (deletes), Events, Audit | no lost update, one debit per key, two entries per transfer, authorised at commit, replies that are true, no deadlock, no starvation |
| Accounts `accounts/` | `account` rows; cached rows in Redis | `create`, `findMine`, `findByAccountNumber` | Redis | a cached row is outdated for a bounded time only |
| Ledger `ledger/` | `ledger_entries` rows | none of its own: written by `transfer` | | double entry |
| Redis `redis/` | keys with an expiry | `get`, `set`, `del`, `setIfNotExists` | | used by the cache and the webhook claims |
| Webhooks `webhooks/` | claimed event ids in Redis | `processPaymentWebhook` | Redis | a delivery is processed once |
| Reconciliation, Settlements | none | `daily` over a date | reads `transactions`, `ledger_entries` | no false alarm, nothing settled that is not posted, days that tile |
| Sessions `auth/`, `common/guards/` | `users.refreshToken`; tokens at clients | `login`, `refresh`, `logout`, the guards | users table | sessions survive each other's logins, withdrawn roles run out |
| Registration `auth/` | `users` rows | `register` | Events | one user per address and per phone, conflicts that are real |
| Events `events/` | a durable queue of transient messages | `publishTransferCompleted`, `publishUserRegistered`, consumer handlers | RabbitMQ, Notifications, SMS | never twice |
| Notifications, SMS | `notification_log` rows | `sendTransferReceipt`, `sendWelcomeEmail`, `SmsService.send` | mail and SMS providers | one mail at most, a log that is true |
| Audit `audit/` | `audit_log` rows | `log` | | no row without its transfer |
| Metrics `metrics/` | counters and windows of the last 500 durations, in memory | `increment`, `observe`, `renderPrometheus` | the response listener of `main.ts` | counts are of all answers since the start, averages of the latest |
| Database schema `database/` | the schema, and the record of the migration | `up`, `down`, synchronize | Postgres, typeorm | what is recorded as applied is there, once; a revert leaves nothing |
| Bootstrap `main.ts`, `app.module.ts` | none of its own | puts service, consumer, pool and metrics in one process that lives and dies as a whole | all | what customers are told agrees with the books |
| Health, admin, simulated providers | none | constant or random answers | | |

What makes it hard:

* **Interleaving.** The idempotency lookup of a transfer is a handful of awaits
  before the INSERT that claims the key; both lookups of a registration come
  before the hash and the INSERT; a refresh stores a hash after three awaits on
  a row it read before; the two queries of a reconciliation are two snapshots.
* **Locks and pools.** A transfer locks two rows while it holds a pooled
  connection, and wants up to three connections one after the other.
* **Partial failure.** Redis, the broker, the audit table, the mail provider
  and every SQL statement may fail, some inside a `try` whose `catch` was
  written for another failure; COMMIT may take effect and lose its answer.
* **Crashes.** The process ends anywhere, between COMMIT and the answer too.
  The consumer takes messages without acknowledging them.
* **Time.** Cached rows, claimed event ids, tokens and timestamp windows
  expire, on clocks that differ; days are cut at midnight of some zone.
* **Numbers.** Amounts are doubles in JavaScript and `numeric(18,2)` in the
  tables.

The hazards, each at its line, are listed in `PROJECT.json` together with the
property that would catch them.

## 2. The modules

```
Schema ──┬── Bank  (what the bank promises)
         └── Transfer ── TransferProperties ──┬── MCTransfer
                            B == INSTANCE Bank ├── TransferProofs
                                               ├── AccountCache ── MCAccountCache ┐
                                               ├── Reports ─────── MCReports ─────┴ ReadersProofs
                                    DayWindow ─│───┘
      Bank ── Receipts (what customers see) ───┴── Process ─────── MCProcess, ProcessProofs
                        N == INSTANCE Notifications ┘ └ M == INSTANCE Metrics
Migration ───── MCMigration, MigrationProofs
Webhook ─────── MCWebhook, WebhookProofs
Sessions ────── MCSessions, SessionsProofs
Registration ── MCRegistration, RegistrationProofs
Notifications ─ MCNotifications, NotificationsProofs
```

* `Schema`: the rows, what a `numeric(18,2)` column keeps of a number, the
  unique indexes, the two postings of a transfer. Used by `Bank` and `Transfer`.
* `Bank`: the abstract specification. A transfer is one step that moves exactly
  the amount asked for, between active accounts, at the owner's order, once per
  key, with its two entries.
* `Transfer`: `TransactionsService.transfer`, one action per await, with every
  way each await can fail; beside it account creation and operators' updates.
* `TransferProperties`: the properties of `Transfer`, those that sum over the
  ledger included, and `BankSpec`, its
  refinement of `Bank`. (The refinement mapping is the identity on the three
  tables: everything else a transfer does is invisible there.)
* `AccountCache`: composes `Transfer` with cached reads of accounts. Every step
  of `Transfer` is a step of the composition, and those that delete cached rows
  change the cache.
* `DayWindow`: the arithmetic of a report's day, zones included.
* `Reports`: composes `Transfer` with a clock, a reconciliation and settlement
  batches, over the windows of `DayWindow`.
* `Receipts`: the second abstract specification, the bank as its customers see
  it: beside the steps of `Bank`, the owner of a debited account gets a mail
  and a text of a transfer that is booked, at most one of each.
* `Metrics`: the counters and windows of one process.
* `Process`: composes `Transfer`, `Notifications` and `Metrics` into one Node
  process: a step that hands an event over queues it, handlers and requests
  share the pool, a response that is finished is counted, and a death ends all
  three at once. Its refinement of `Receipts` (`CustomersSpec`) maps the tables
  to themselves and each mail or text to the notice the service composed.
* `Migration`: `up` and `down`, statement by statement, run by several
  commands at once.
* `Webhook`, `Sessions`, `Registration`, `Notifications`: a component each.
* `MC...`: values of the constants that a `.cfg` cannot write, and the symmetry.
* `...Proofs`: the theorems of a component; `ReadersProofs` holds those of
  `AccountCache` and of `Reports`, which read the tables of one service.

**Slips.** An operator whose name ends in `Slip` is what the definition below
it would be after a plausible slip: a dropped check, a swapped order, a missing
reset. No specification uses one. They exist to show that each property can
fail: substituted for that definition, each makes TLC find the property
violated (`"mutants"` in `PROJECT.json`).

## 3. State and actions against the code

### Transfers (`transactions/transactions.service.ts`)

A *request* is one call of `transfer`; a client's retry is another request with
the same body. `pc[r]` is the await at which request `r` stands:

| action | code |
|---|---|
| `Submit`, `RejectSelfTransfer` | the checks before the first await |
| `FindKey` | the lookup of the idempotency key; a hit is answered without looking at who asks or what for |
| `Connect`, `Begin` | `queryRunner.connect()`, `startTransaction()`: both outside `try` |
| `Select`, `LockRow` | `SELECT ... FOR UPDATE ORDER BY accountNumber`: one snapshot, then row after row; a row that was waited for is read again, as READ COMMITTED does |
| `Validate` | the checks on the locked rows and the new balances, in memory |
| `SaveSender`, `SaveReceiver`, `Insert`, `SaveEntry` | the five writes; `work[r]` holds what is not committed; `Insert` waits for a transaction that inserted a clashing row, and fails if one is committed |
| `Commit`, `Rollback` | the end of the database transaction; an error of ROLLBACK replaces the one that led to it |
| `DelAccount`, `Release` | `redis.del` twice, inside `try`; then `finally` |
| `FindOwner`, `Publish`, `Audit` | what follows the commit, the last two with their own `catch` |
| `LookupFails` ... `AuditFails` | each await failing, with the path the code takes then |
| `CommitAckLost` | COMMIT took effect, its answer is lost, `catch` rolls back nothing |
| `Crash` | the process ends; Postgres ends its sessions' transactions at once |
| `OpenAccount`, `SetStatus` | `AccountsService.create`; an operator's UPDATE (no code changes a status, although `transfer` checks it) |

Money is counted in thousandths of a naira (units): a column holds whole cents
(10 units), a request may ask for less. An amount finer than a unit stands with
a neighbour that is stored alike and is not a whole number of cents, so the
check of the funds decides alike too. `Stored` is the rounding of the column.
The new balances are sums of doubles, which the driver prints and the column
rounds: 2.30 + 1.005 is 3.3049999999999997 and stored as 3.30, though the
ledger stores 1.005 as 1.01, and 1000 + 1.0049999999999997 is 1001.005 and
stored as 1001.01, though the ledger has 1.00. `Approx` is the set of what a
sum may come to: within a unit of half a cent it may fall on either side, and
anywhere else being a hair off changes nothing that is stored. Sums of whole
cents are therefore stored exactly. This holds for balances up to 10^12 naira,
where doubles are 0.00012 apart.
The status of a transaction is a constant of the code (`SUCCESS`) and left out,
as are descriptions, currencies and uuids; a row's `by` stands for its uuid.
Single-statement INSERTs outside a transaction commit on their own and are one
step. Postgres takes an instant to notice a dead client; the model takes none.

`transfer` reads the key before it asks for a connection of its own, so a
request waits for the pool at `findKey`, `connect`, `owner` and `audit`
(`PoolFree`), and holds a connection from `connect` to `release` (`conns`).
A query of the pool itself takes and returns its connection within one step.

### Account cache (`accounts/accounts.service.ts`)

`Get`, `Find`, `Set` are the three awaits of `findByAccountNumber`, which the
service offers and nothing in `src/` calls yet: `cache` says what a caller could
rely on, with the deletes that `transfer` makes already. A hit of
the cache changes nothing and is not a step. `DelAccount` of `Transfer` deletes
a cached row. `now` counts in units of the life of a cached row; `Delay` bounds
the time between a row's read and its `set`. `recent` remembers the rows that
ceased to be committed, `late` whether a row was outdated when it was set:
neither is state of the program.

### Reports (`reconciliation/`, `settlements/`)

`createdAt` is the database's `now()`, the *beginning* of the transaction, the
same for all its rows; `begun` keeps it, in hours of the database's own zone.
`Reconcile` is two queries, `Settle` one. `DayWindow` says which rows a date
selects: `new Date(text)` is midnight UTC, `setHours(0,0,0,0)` goes back to local midnight, and the driver
writes the bound in local time into a comparison with a `timestamp without time
zone`. Whatever the zones, that is a whole day of the database's calendar.
`Settle` may run again for a date: the latest batch is kept.

### Webhooks (`webhooks/webhooks.service.ts`)

`Receive` is the code up to the await (the age of the timestamp, both sides of
now), `Claim` is `SET ... EX 600 NX`, `Compare` the comparison of signatures. A
delivery is an event id, a timestamp and whether its signature fits; any
delivery the provider may have signed by now, its clock up to `Skew` ahead, may
arrive at any time and any number of times. The key lives on when the call
fails or its process ends, and a claim that failed may have taken it.
`at` is when a call checked the age of its timestamp, then when Redis had its
claim: a history that `ClaimsApart` and `RefusalsExpire` measure with. A claim
is sent once: the Redis client's own resending of commands after a reconnect,
which could make a call find its own claim, is not modelled.

### Sessions (`auth/auth.service.ts`, `common/guards/`)

`login` and `refresh` read the user's row (`Login`, `Refresh`), sign a pair of
tokens (`Sign`), store the hash of the refresh token and answer (`Store`); the
answer may get lost. `bcrypt` reads 72 bytes of what it hashes; the first 72
bytes of a refresh token are the header of the JWT and the beginning of the
user's id, so a stored hash matches every refresh token of that user: `Matches`
compares users. This is why sessions of several devices survive each other.
`Admits` is what `JwtStrategy` and `RolesGuard` decide from an access token.

### Registration (`auth/auth.service.ts`)

`Submit` normalises the address, `FindByEmail` and `FindByPhone` are the
lookups, `Insert` the hash and the INSERT, whose unique constraints decide;
`ConflictOf` is the guess the code makes from the words of the error. `Publish`
is the event and the answer.

### Events, notifications, SMS (`events/`, `notifications/`, `sms/`)

An event goes from `none` to `queued` (`Emit`), is taken by the consumer
(`Deliver`) and handled: `SendMail`, `LogSuccess`, `LogFailed`, `Text`, each an
await that may fail. A throw of `save` after a mail that was sent lands in the
`catch` of the mail. The consumer does not acknowledge (`main.ts`), so what a
crash takes is `lost`; the queue is durable and its messages are not, so
`BrokerRestart` loses those in it. `Unlogged` are the events during whose
handling saves may fail. SMTP and Brevo are one provider whose call
may throw although the mail goes out. One call of `emit` makes one message at
most: that the AMQP client might send an unconfirmed one again after a reconnect
is not modelled, and the properties about notices rest on it.

### One process (`main.ts`, `metrics/`)

`Serve(r)` is a step of `Transfer`; one that hands an event over (`Publish`, or
a `PublishFails` whose event reached the broker) also queues it (`Hand`).
`Consume(r)` is a step of the handler of that event; its saves want a
connection of the pool the requests use. `Respond(r)` is the `finish` listener:
it counts the status the framework makes of the reply (`StatusOf`) and keeps
the duration, the oldest giving way when there are more than `Window`.
`Die` is the end of the process and its start: `Crash` of `Transfer`, `Crash`
of `Notifications` and `Reset` of `Metrics` in one step, each where it has
something to end; queued events stay with the broker. `closed` holds the
requests whose response was finished or never will be; `finished` in `Metrics`
is a history of all durations since the process started, which the window is
compared with (a death clears both, so nothing is said across one). Registrations
are left out of this composition; their events share nothing with a transfer's.

### The migration (`database/`)

A statement is a record: what it creates or drops, the table it belongs to,
what else it needs, and whether it is lenient (`IF [NOT] EXISTS`, or the
handler of `duplicate_object`). `up` has the 28 of the migration in their
order; `down` undoes all but the extension, in the opposite order. The database
around it is external: a statement takes the lock of its table until its
transaction ends (`Locks`, `Blocked`, `Wait`), a transaction sees what is
committed and its own changes (`Sees`), a statement is refused when what it
creates is there, what it needs is not, or what it drops is still needed
(`Refused`), a dropped table takes its indexes and foreign keys with it
(`Parts`). typeorm runs the script and the write of its record in one
transaction (`Start`, `Commit`, `Abort`). `Init` has the empty database and the
one that `TYPEORM_SYNC` makes of the entities.

## 4. The runs

Each asks one question of its component. The bound is small, and the third
column says why the interesting case fits in it. `CHECK_DEADLOCK FALSE` stands
where the system really stops: every request is answered, or the clock is at
its bound. In `MCTransferLive.cfg` operators can always act and in
`MCReports.cfg` a batch can always be asked for, and deadlock is checked.

| run | question | why the instance is enough |
|---|---|---|
| `transfer_retry` | does the service implement the bank, when every await may fail? (`BankSpec`, `NoDuplicateDebit`, `DoubleEntry`, `RepliesHonest`, `LedgerExplainsBalance`, `Isolation`, `NoWaitCycle`, `NothingLeftOpen`) | three requests: one that commits, a retry that races it, a transfer that locks the same rows from the other side; two connections for three; two references, so that they repeat; every kind of failure |
| `transfer_live` | what remains true when connections and cents run short? (`EveryRequestAnswered`, `CommitAuthorised`, `TypeOK`, `DriftBounded`) | one connection for all; every failure but BEGIN, which leaks the connection (section 7); accounts of two owners, blocked and unblocked at any time; a key with two payloads, a foreign account, a self-transfer, amounts on and just below half a cent, so that sums tip up and down and drift both ways |
| `cache` | how long, and how, may a cached row be outdated? (`BoundedStaleness`, `OnlyLateFillsStale`) | two transfers of the same accounts and a reader; deletes that fail, or that a crash takes away; the clock past `Ttl + Delay` |
| `reports` | false alarms, batches not in the books, rows counted twice? (`NoFalseAlarm`, `SettledIsPosted`, `RowInOneReport`) | two transfers and a midnight, reports at any moment; a zone an hour ahead of UTC moves every bound |
| `webhook` | is a delivery processed once, and an id not refused for ever? (`ClaimsApart`, `DeliveryOnce`, `RefusalsExpire`) | two calls and one event suffice for a pair; the constants keep the proportions of the code (`Ttl` is twice `Window`), the clock passes the expiry |
| `sessions` | does a session survive its user's other calls, and a role its withdrawal? (`HeldTokensRefresh`, `RoleCurrent`) | two logins, a refresh, a logout; one user, since users share no row (the proof has any number); two roles changing anywhere, the clock past an access token |
| `registration` | do races and failures keep users unique and answers true? (`OneUserEach`, `ConflictIsTrue`, `CreatedIsStored`) | three calls: two that race for one address in different case and one beside them; one phone to share, several without |
| `notifications` | is anything sent twice, forgotten, or logged that was not sent? (`AtMostOneEach`, `TextFollows`, `SuccessIsSent`, `OneRowEach`) | two events of each kind, one of each with a database that fails; everything else fails too |
| `process` | do books, customers and metrics agree when service and consumer share a process that dies anywhere? (`CustomersSpec`, `ErrorsAreSilent`, `BookedIsTold`, `WindowIsRecent`) | two requests, retries of a key or one each way, over one connection that the handlers want too, and that a failed BEGIN leaks for good; every kind of failure of the service and of the consumer; a window of one duration, so that it overflows; saves fail for one of the events |
| `migration` | may deployments migrate and revert at once? (`RecordedIsComplete`, `AppliedOnce`, `NeverRefused`, `RevertIsClean`) | four commands: two that race, one to revert and one to run again; an empty and a synchronized database; every command may be cut off at any statement |

Two more runs, `transfer_error` and `sessions_logout`, end in a violation each,
explained in section 7.

Bounds on what the code leaves unbounded: `Requests`, `Readers`, `Calls`
and `Runners` are finite sets of calls and commands; `Window` and `Latencies`
are small; `Horizon` and `Hours` bound the clocks; `Refs` and
`Dtos` are small sets. Where calls are told apart by nothing but their name
they are declared symmetric, except in the runs with liveness. The proofs need
none of these bounds.

## 5. Fairness

* `Transfer!FairSpec`: weak fairness of the step each request stands at. The
  event loop runs every callback, Postgres and Redis answer or fail, the pool
  hands connections out. With a finite number of requests nobody is overtaken
  for ever, so weak fairness is enough although the pool is taken and freed
  many times. Failures and crashes are never obliged to happen.
* `Notifications!FairSpec`: weak fairness of delivery and handling of each
  event: the broker delivers while it is up, every await settles one way or the
  other. Crashes and broker restarts may happen at any time and end the
  handling of an event for good, which `TextFollows` allows for.

* `Process!FairProcessSpec`: weak fairness of the step of each request and of
  the handling of each event, for the reasons above. `BookedIsTold` allows for
  what ends with the process, the broker or a failed request, and for a pool
  that failed BEGINs have drained (`PoolLeaked`): then no handler gets its row
  saved, nor to the text.

No other property is temporal but for action properties, which need none.

## 6. The proofs

`tlapm` checks every proof to its leaves. The assumptions are the `ASSUME`s of
the modules, evaluated by TLC in each run, and what the table names.

| theorem | for every instance | argument |
|---|---|---|
| `TransferProofs!TypeCorrect` | rows keep the shape of the schema, committed balances are whole cents | needs that a sender's balance covers the amount at COMMIT: `IInv` |
| `NoLostUpdate` (`Isolation`) | a transfer computes with the committed balances from lock to commit | a row in `Writing` is locked (`LockInv`), and nothing but its holder changes a locked row |
| `KeysDebitOnce` (`NoDuplicateDebit`) | one debit per key | `UniqueInv`: no row in `work` clashes with a committed row or another's |
| `LedgerComplete` (`DoubleEntry`) | exactly two entries per transfer | `WorkInv`: what a request has written so far follows from where it stands |
| `RepliesTrue` (`RepliesHonest`) | replies, events, audit rows are true | `ReplyInv`: who stands after the commit has its row |
| `Authorised` (`CommitAuthorised`) | owner and statuses hold at COMMIT | `CheckedInv`: what was checked is what is locked |
| `Implements` (`BankSpec`) | the service implements the bank, when amounts are `WholeCents` | `Commit` and `CommitAckLost` are `Post`, all else stutters on the tables |
| `CleanEnd` (`NothingLeftOpen`) | a request that ended holds nothing, but for the connection of a failed BEGIN | `LeakInv`: a request that is done and holds a connection failed before its SELECT; `LockInv` and `WorkInv` for the rest |
| `DeadlockFree` (`NoWaitCycle`) | no circle of waits, when account numbers are bounded | `WaitInv`; in a circle of row locks each waits for a higher row than any it holds, so the one that waits for the highest waits for somebody who stands elsewhere |
| `BalancesExplained` (`LedgerExplainsBalance`) | every balance is its opening plus credits less debits, when amounts are `WholeCents` | `LedgerInv`: entries name accounts that exist, and a commit adds one entry to each of its two accounts, which the sum lemmas turn into the amount, so a balance is off by no more than `Slack`, which is nothing without amounts finer than a cent; a number keeps its opening because accounts are never deleted |
| `RoundingBounded` (`DriftBounded`) | a balance is off from its ledger by at most a cent for each entry of an amount finer than a cent, either way | the same step, without `WholeCents`: whatever side a sum tips to, the column stores one of the two cents next to it, and the ledger one of the two next to the amount (`NextCents`, `Debited`, `Credited`) |
| `ReadersProofs!StalenessBounded` (`BoundedStaleness`) | a cached row is outdated for less than `Ttl + Delay` | what a reader carries was committed `Delay` ago at most; `recent` keeps it long enough |
| `StaleHasACause` (`OnlyLateFillsStale`) | an outdated balance in the cache is the work of a late reader, or its delete is owed, failed or lost | a commit owes both deletes, and until it has made them a request can only fail or be lost; accounts once opened stay, so no cached row predates its account |
| `ReconciliationClean` (`NoFalseAlarm`) | no false alarm | a transaction and its entries become visible in one step and carry one day; once found, they stay |
| `SettlementsPosted` (`SettledIsPosted`) | a batch is worth no more than the debits of its date | the transactions a batch sums are committed and each has its debit; debits of a date are only added to, so the inequality stays true after the batch |
| `ReportsTile` (`RowInOneReport`) | each transfer in the report of one date, in every zone of whole hours | `SelectsADay`: a date selects a whole day of the database's calendar, or the one before it behind UTC |
| `WebhookProofs!OneClaimPerTtl` | two claims of an id are a `Ttl` apart | a claim blocks the key until it expires |
| `WebhookProofs!ProcessedOnce` | a delivery is processed once if `Ttl >= 2 * Window` and `Skew + Delay < Window` | two claims of a delivery are both near its timestamp |
| `WebhookProofs!NoLockout` (`RefusalsExpire`) | a refusal comes within a `Ttl` of a call that took the id | `KeyInv`: a key that is there was set by a call that claimed it or lost Redis, a `Ttl` before its end; refused calls leave it alone |
| `SessionsProofs!SessionsSurvive` | held tokens refresh | the column of a user with held tokens is a token of that user |
| `SessionsProofs!RolesExpire` | withdrawn roles run out | a pair being made carries a role that is current or lost a `Delay` ago |
| `RegistrationProofs!UsersUnique`, `RegistrationHonest`, `ConflictsTrue` | unique users, honest answers, true conflicts | a user's row is the row of its call, and rows never clash |
| `NotificationsProofs!NothingTwice`, `LogTrue`, `LogComplete` | one mail and one text at most; no `SUCCESS` row without a mail; one row per event handled while the database answers | `SentInv`, `LogInv`: what is out and what is logged follow from the stage of the event |
| `ProcessProofs!CustomersServed` (`CustomersSpec`) | the process implements `Receipts`, when amounts are `WholeCents` | every event is of a request that handed it over, which has its row (`ReplyInv` of `Transfer`), and is mailed and texted once at most (`EventInv`); owners never change |
| `ProcessProofs!SilentErrors` (`ErrorsAreSilent`) | an error and a receipt never go together | who has handed its event over can only succeed or be lost |
| `ProcessProofs!MetricsTrue` (`WindowIsRecent`) | counts and averages are of the latest answers, for every window | the durations kept are the end of the history |
| `MigrationProofs!OnceApplied` (`AppliedOnce`) | recorded once, however many deployments race | a record means that the foreign key is there; who adds it finds none and holds a lock on `account` that the others need to commit |
| `CompleteWhenRecorded` (`RecordedIsComplete`) | what is recorded is all there | see below |
| `CleanRevert` (`RevertIsClean`) | a revert leaves the extension only | `DropsInv`: what it dropped with a table or type is gone, and together that is everything (`DropsAll`) |
| `AloneIsNotRefused` (`NeverRefused`) | alone, a command is refused nothing | `AloneInv`: what its statements left is there; `up` creates a table after its types and what refers to it later, `down` drops them in the opposite order (`DropsInOrder`) |

**Transfers.** The inductive invariant is the conjunction `IInv` of `TypeOK` and
the named parts above. None of the properties is inductive alone: that a commit
loses no update, for instance, needs that both rows are locked, that what was
read after the lock is what is committed, and that the request's own writes are
exactly those of its stage. TLC checked `IInv` on the small instances before it
was proved.

**Sums.** `Amount` sums a field over a set of rows with the fold of the
community modules, which is a recursive function on subsets. That the sum is
that function's value is proved by taking a smallest subset for which it is not
(`WFMin`, on finite subsets ordered by strict inclusion), so no induction
theorem with an operator parameter is needed. From it come the facts the proofs
use: a row more adds its amount, a larger set sums to no less.

**The migration.** Nothing but the locks of single statements keeps the commands
apart, and a `CREATE TABLE IF NOT EXISTS` that finds its table takes none. The
proof rests on one fact (`HoldsToCommit`): whoever gets to the end of either
script holds a lock on `account`. From when a command has it nobody else
commits, so the committed schema stands still. A migration gets it when it makes
`account`, or when it adds the first foreign key. `AllThere` is the heart: at
that foreign key all types and tables are there, because the committed schema
has either all of them or none (`SchemaInv`), and a migration that made a table
in the second case made its types too (`MakesInv`). A revert gets the lock with
the first foreign key it drops, which is there whenever the tables are, as only
a migrated database is reverted. TLC checked the whole invariant with four
commands before it was proved. The lemmas on the script (`UpScript` to
`DropsAll`) are what the proof knows of its 28 statements.

Only model-checked: the liveness properties `EveryRequestAnswered`,
`TextFollows` and `BookedIsTold` (fairness and `ENABLED` are beyond the prover).
Every safety property of a passing run is a theorem.

## 7. Where the code and its words disagree

Each run ends in a counterexample of one property, which states what a test or
a message of the repository says. `PROJECT.json` quotes the lines.

| run, property | what happens |
|---|---|
| `transfer_error`, `FailedMovesNoMoney` | `redis.del` runs inside the `try` after COMMIT: when it throws, the caller is told of a failure, although the money moved, and event and audit row are skipped. A retry with a key is answered with the stored transfer; without a key it debits again. |
| `sessions_logout`, `LoggedOut` | a refresh under way stores its hash after a logout: the user has a session again. The property is meant for instances in which the only login ends first, as in this run. |

Noted while modelling, kept in the models as the code has it, and without a run:

* `startTransaction` stands before `try`, so a BEGIN that fails leaks the pooled
  connection: `NothingLeftOpen` says that nothing else does. Once every
  connection is leaked nothing is answered any more, and the handlers of events
  wait for ever as well, so that booked transfers go untold: `BookedIsTold`
  names it as the one way but for losses and failed requests.
* The webhook id is claimed before the signature is compared, so after a
  delivery that fails the comparison the right one is called a duplicate until
  the key expires: `RefusalsExpire` is the limit of that.
* A receipt names the amount asked for, which the columns round: `WholeCents`
  is assumed where receipts are compared with the books.
* `audit_log.userAgent` is NOT NULL, and a request without that header loses its
  audit row: `AuditFails`, caught and printed.
* `users.isActive` is written by a default and never read.

* A replayed key is answered with the stored transfer, whatever the body says
  and whoever asks.
* An amount may be finer than a cent, and each balance is a sum of doubles that
  its own column rounds, so that a receiver can gain a cent more or less than the
  sender lost, or than the ledger says: `DriftBounded` bounds what accumulates.
* A settlement batch selects rows by the beginning of their transaction, so one
  made after midnight can miss a transfer that commits later:
  `SettledIsPosted` can only be an inequality.
* The date a settlement carries is `toISOString` of local midnight: east of UTC
  the day before the one asked for. The container image runs in UTC.
* An event the provider signs again after ten minutes is processed again:
  `ClaimsApart` is the limit of what the claim gives.
* An address that contains "phone" makes a lost race for the address read as
  one for the phone: `ConflictIsTrue` leaves those addresses out.
* A mail that was sent is logged `FAILED` when its `SUCCESS` row cannot be
  saved, since that save is inside the `try` of the mail.
* The handler of transfers texts without asking for a phone.
* No code closes or blocks an account: `status` changes in the database only.

## 8. What is not modelled

* **Configuration, headers, prefix, validation pipe, interface documentation**
  (`main.ts`, `app.module.ts`): no state. What the models take from the wiring
  is in `Process` or said where it is used: the consumer without
  acknowledgement, the pool, the zone of the process. The validation of bodies
  is what the sets of inputs (`Dtos`, `Openings`) stand for.
* **The growth of the metrics maps**: labels include the path of unknown
  routes; nothing bounds their number, and nothing says it should be.
* **Simulated providers, health, admin**: constant or random answers.
* **`findMine`** and other plain reads change nothing.
* **Doubles beyond 10^12 naira**, which `numeric(18,2)` admits: `Approx` has the
  sums of smaller ones.
* **Resending by client libraries** (`ioredis`, `amqp-connection-manager`) after
  a reconnect: one command, one publish is one.
* **Cryptography, JWT and bcrypt** beyond what section 3 says of them.

## 9. The plan

Done, in this order: the transfer service with its abstract bank, checked and
proved; the cache and the reports composed with it; webhooks; sessions;
registration; notifications; the metrics; service, consumer and metrics in one
process with the bank its customers see; the migration.

Next, the models:

1. Several processes behind a balancer: one broker, database and Redis, a pool
   and metrics each. `Transfer`, `Webhook` and `Registration` hold for it as
   they stand, since their requests share nothing but the servers; `Process`
   would get a set of processes.
2. An abstract specification of the webhook (a register of processed
   deliveries), and the detailed one shown to implement it.
3. Several reconciliations at once, and settlements of dates that are over: how
   late a transfer of a date can still appear.
4. Balances beyond 10^12 naira, where sums of whole cents are no longer stored
   exactly.

And the proof:

5. The refinement of 2.
