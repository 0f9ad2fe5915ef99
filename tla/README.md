# TLA+ models of otg-nansen

Models, model checks and proofs of the parts of this repository that keep state:
the ingestion of Nansen data into PostgreSQL, the API client under it, the backfill
runner above it, the analytical snapshot built from what it stored, the migration of its
keys, and the demo service that refreshes one live observation an hour.
Paths without a directory are in `src/otg_nansen/`.

## 1. The system

| Component | State | Operations | What makes it hard |
|---|---|---|---|
| Ingestion orchestrator and repository (`ingestion.py`, `persistence.py`, `postgres.py`, `sql/`) | `nansen.ingestion_runs`, `flows`, `dex_trades`, `token_information`, `checkpoints`; per call an autocommit audit connection, a data connection and `_data_transaction_active` | `ingest_flows`, `ingest_dex_trades`, `ingest_token_information` | calls interleave at statement granularity; row locks, taken in the order of an answer that only its timestamps order; failure of every statement; two nested `except BaseException` handlers; interrupts inside and outside the `try`; lost connections; crashes |
| API client (`client.py`) | `requests_attempted` for the life of the client; the page and retry of the current call | `request`, `paginate_with_metadata` | one budget over calls, pages and retries; partial pagination |
| Warning policy (`source_warnings.py`) | none; decides what the audit row keeps | `summarize_page_warnings`, `validate_warning_structure`, `sanitized_unknown_summaries` | every failure path must keep the right evidence |
| Backfill planner (`backfill.py`, `backfill_plan.py`) | none; derives progress from audit rows | `plan_hourly_flow_backfill`, `classify_unit_progress`, `execute_pending_units` | off-by-one at unit seams; progress is inferred from audits, not from rows |
| Backfill runner (`backfill_execute.py`) | the snapshot `main` takes before the batch | `main` | no lock between invocations; snapshots read statement by statement; failures inside a batch; a Ctrl-C that makes a failure of a call that has landed |
| Demo service (`demo_app.py`) | cached observation, last attempt, two locks, a state file | `refresh_if_due`, the scheduler thread, `live`, `_load_state`, `_persist_state` | three callers of one refresh; restarts, with a state file that cannot be read or parsed; swallowed write errors; a clock |
| Live adapter (`demo_live.py`) | none; what Nansen has complete changes under it | `fetch` | an answer may leave hours out; a restart loads an older file |
| Hourly analytics (`market_analytics.py`, `analytics_build.py`, `sql/005`) | the tables `otg_market_hourly` and `otg_nansen_hourly`; per build a transaction | `build_snapshot`: source read, overlap, aggregation, alignment, `replace_analytics_snapshot`, read-backs | two rules for stored times with an overlap and a spring change; two builds delete and insert the same keys; read-backs in two statements |
| Relationship analysis (`relationship_analysis.py`) | none; pins the digest of one snapshot | `run_readonly`: thresholds, declustering, eligibility, then statistics | ties, ends of the range; most of it is floating point |
| Flow identity migration (`migrate_flow_identity.py`, `flow_identity_migration.py`, `sql/003`) | the keys and constraints of `nansen.flows` | `apply_flow_identity_migration` | every key is rewritten twice in place, beside ingestion, behind a table lock |
| Other migrations (`migrate_staging.py`, `migrate_analytics.py`) | the schema | one idempotent script each | - |
| Normalization, identity, in-memory repositories, demo artifacts, web page | none | pure conversion, test doubles and rendering | - |

How they interact: the backfill runner makes one orchestrator and one client per
unit, with a budget of one call; the orchestrator calls the client between its audit
insert and its data transaction; the runner and the analytics read what the
orchestrator has committed. A build joins the prices the orchestrator stored with the
sales of a production database it only reads; the analysis reads what a build wrote, and
only if it is the content its digest names. The migration takes the table that
ingestion writes. The demo service shares nothing with them but the client class: it
reads shipped artifacts, calls the API through the live adapter and keeps its result in
a file.

What makes each component correct is listed with its module below; the places where
it could go wrong are the `hazards` of `PROJECT.json`, each at its line.

## 2. Modules

| Module | Models | Relation |
|---|---|---|
| `AtomicIngestion` | what a call promises to a reader of the database: a running audit row, and then everything lands in one step or nothing does | abstract specification |
| `IngestionLifecycle` | every call of the orchestrator, one step per statement, commit, rollback or source call | implements `AtomicIngestion` (`ImplementsAtomic`) |
| `NansenClient` | one client and its calls: budget, retries, pages, warnings, the audit row | - |
| `BackfillPlan` | the planning loop and progress classification, as operators | - |
| `BackfillExecution` | invocations of the runner | composes `BackfillPlan` and `AtomicIngestion` |
| `DemoService` | the hourly refresh, readers, restarts, the state file | - |
| `LiveObservation` | what the service fetches: the adapter, Nansen's answers, the hour a page shows | composes with `DemoService`, and implements it |
| `MarketHours` | the two rules for stored times, their overlap, the market and aligned rows, as operators | - |
| `RelationshipAnalysis` | thresholds, clusters and eligible events, as operators | extends `MarketHours` |
| `AtomicSnapshot` | what the two tables promise to a reader: one whole snapshot, replaced in one step | abstract specification |
| `AnalyticsSnapshot` | concurrent builds, statement by statement, beside sources and analyst | implements `AtomicSnapshot` (`ImplementsAtomicSnapshot`) |
| `FlowIdentityMigration` | runs of the migration beside ingestion transactions | - |
| `..._proofs` | the theorems about the module of that name | extends it and TLAPS |
| `MC...` | instances for TLC | - |

### IngestionLifecycle

`status`, `table` and `checkpoint` are the committed contents of the tables; `tx[r]` is
what the server holds of call `r`'s open transaction, which is at the same time the set
of row locks it owns. `pc[r]` follows `_ingest_historical`: `idle`, `fetching` (the
audit row is durable and the source is being read), `storing`, `checkpointing`,
`committing`, `committed` (the server has committed, the call has not returned),
`unwinding` (an exception is on its way to the handlers), `failing` (rolled back, about
to audit the failure), and an end.

- A record is its key and its completeness flag, a stored row is its writer and its
  flag. `Keys` are the keys rows are stored under, `TimeOf` gives each its timestamp. A
  flow's key holds its hour, but a trade's key holds its transaction, and many trades
  share a timestamp.
- The source is asked for ascending order (`order_by`), by `date` or `block_timestamp`
  alone: `Ascending` leaves the order of tied records open. `NextRecord` walks the batch
  in the order of the answer, as `store_flows` and `store_dex_trades` do, so two calls may
  lock tied trades in opposite orders. `DeadlockDetected` is what PostgreSQL does about
  it: it aborts one transaction of a circle of waits (`WaitsFor`).
- `Answers` is what the API may list for each endpoint, any sequences of records of some
  length in the proofs, all short ones of different keys in the runs; `AnswersAssumption`
  says what the endpoints have in common with the code's record types.
- `UpsertRow` and `CheckpointMayMove` are the `ON CONFLICT ... WHERE` clauses.
- PostgreSQL runs at READ COMMITTED, so an upsert waits for the holder of its row and
  then works on the committed version; `RowFree` and `CheckpointFree` are those waits.
- `StatementFails` leaves open whether the server has already undone the transaction
  (an SQL error) or not (a Python exception); `CommitAnswerLost` is a commit whose
  answer never arrives; `RollbackRaises` is `rollback()` on a dead connection.
- `begin_ingestion_run` comes before the `try`: where it raises (`BeginRunFails`) there is
  no audit row, or one that nobody ends. A Ctrl-C between that INSERT and the `try`, or
  inside a handler, ends the call the same way, and the context manager closes both
  connections (`InterruptOutsideTry`). A Ctrl-C inside the `try` is `SourceFails`,
  `StatementFails` or `InterruptAfterCommit`, by where it falls.
- `request_scope`, counts, error texts and warnings are left out; what the audit row
  says of calls and warnings is the subject of `NansenClient`.

### NansenClient

`attempted` is `requests_attempted`, never reset; `callsBefore` is the orchestrator's
`calls_before`. `posts`, `sent` and `seen` are history: what really left the client and
what really came back, against which the audit row is compared. Data is abstracted to
its page number and a page's warnings to `none`, the fingerprinted text, another text,
or a malformed container. Delays only separate posts and are left out. A failure of the
data transaction after the pages were read is `RecordsRejected`, which leaves the same
warnings in the audit row as a failed window check.

`TokenInformation` is the call that does not paginate. Its answer may carry warnings like
any other (`seen`), but nobody looks at them: `complete_ingestion_run`, given none, stores
the empty list on success, and `_fail` stores NULL. `docs/database.md:142-143` says "`[]`
means paginated responses were inspected and were warning-free"; of a token-information
success that is not so, and `WarnedPagesNamed`, which is about every ended call, names the
case as its exception.

Ctrl-C may fall on any request (`InterruptRequest`) and on the call after its pages were
returned (`InterruptReturned`). A request is counted when it is reserved, so a Ctrl-C
between the reservation and the post makes `api_calls` one more than what was sent;
`AuditedCallsWereSent` says that nothing else makes them differ.

### BackfillPlan and BackfillExecution

`Plan` gives each pass of the `while` loop of `plan_hourly_flow_backfill` in closed form:
a pass starts where the last one ended, so unit `u` starts `u - 1` unit sizes after the
target's start, and only the last one is shorter. `unit` is the unit of the call that is
running, `done` is `successful_units`.
An invocation reads its snapshot in three steps, because `_readonly_connection` runs at
READ COMMITTED and every statement sees a snapshot of its own; after the batch it reads
again in three steps. A unit is one call, taken as `AtomicIngestion` promises it. The
operator's `--expected-*` arguments are taken to match what `main` reads, or not
(`Refuse`). `Recent` is another call on the same stream, which no lock excludes.

A call lands and its success is not final: a Ctrl-C between its commit and the return of
`ingest_flows` runs the failure handler, which marks the landed run failed. `CallFails` has
that for every call of the stream, `UnitInterrupted` for the unit of an invocation, whose
batch it also stops. `landed` is history: the runs whose data was ever committed, whatever
their audit row says by now.

### DemoService

Time is the UTC wall clock in ticks. `main`, `scheduler` and the `Others` are threads;
each step is one lock operation, one write of the state file or one fetch. The program's
own callers are `serve` and the scheduler; `Others` call `refresh_if_due` at any time,
which is what its non-blocking lock is for. The state
lock is held exactly while the file is written, so `StateLocked` is derived. `called`
and `shown` are history: the stamp of the last request and what a page was last shown.

A start reads the state file (`LoadState`), or cannot read it, finds no JSON in it or no
object, and begins with an empty memory beside a file that stays as it is (`LoadFails`).
That, and a death of the process while memory has what the file has not, are the two ways
to lose what the service knows. The history variable `lost` says what has been lost and not
been replaced since: the attempt of the latest request, until the next request; what a page
showed last, until a page is read again; memory as the file has it, until the file is
written. `RequestsSpaced`, `ShownNeverGoesBack` and `FileFollowsMemory` except exactly that,
and hold of every behaviour; `NoSoonerThanAnHour` excepts nothing, as the document does, and
fails.

### LiveObservation

An observation is the hour it reports on. `complete` is what Nansen has complete: an hour
that is over becomes so at any time, in any order, and stays so. The adapter asks for the
`Window` hours before the present one, and an answer holds any of them, complete or not.
An answer that leaves out a complete hour other than the window's first is remembered in
`withheld` until a page is read again: the adapter believes such an answer, and no property
claims otherwise. One without the first hour withholds nothing, since an observation needs
the hour before it. `Refuse` stands for every answer the adapter raises on. `asked`, `live`, `saved` and `page` carry
the hour where `DemoService` carries the stamp: with the request, in memory, in the file,
on the page. Every step is a step of `DemoService` with its hour beside it, so the
composition implements the service, and what a page shows over restarts and failed loads can
be asked of the two together.

### MarketHours and RelationshipAnalysis

`Sales` are instants in UTC ticks; a sale is its instant. `StoredAt` is what the indexer
wrote, which is outside this repository: up to `LastOld` a fixed offset ahead of UTC, from
`FirstNew` on Pacific wall-clock time with its spring change at `SummerFrom`. `EventUtc`
is the `CASE` of `aggregate_market_production`, `InOverlap` the stored times that either
rule could have written, which are resolved by block time. A market row is the set of
sales it sums up, so "counted once" can be said; an aligned row has its market row, price,
return and lagged values. Offsets, quantiles and percentages are scaled to integers.
`Decluster` is `decluster_candidates` with its tie rule.

### AtomicSnapshot and AnalyticsSnapshot

A build goes through `pc`: it reads the prices, then the overlap rows, then the sales
(three statements, between which sales and prices may be added), computes both tables in
memory, and replaces them: `DELETE` aligned, `DELETE` market, `INSERT` market, `INSERT`
aligned, `COMMIT`. It reads both back and does the same a second time.

- No lock keeps two builds apart. At READ COMMITTED a `DELETE` works on the rows committed
  when it started (`view`), waits for those another transaction is deleting, and skips
  those another has replaced meanwhile; an `INSERT` waits for another holder of its key
  and fails if the key is taken (`UniqueViolation`). `DeadlockDetected` is the server's
  answer to a circle of such waits.
- Every replacement has all hours and inserts them in order, so a table's rows are taken,
  deleted and inserted as one. `table` names the replacement whose rows are committed.
- `Ratify` is the digest that a person writes into the analysis after a build, `Analyze`
  the read-only run, which refuses any other content. Digests are compared as the contents
  they stand for.

### FlowIdentityMigration

A row is its key, its bucket and its writer. `Key("start", ...)` is the old key,
`Key("bucket", ...)` the one ingestion uses; a key stands for a SHA-256 of its fields.
`work` is the table as the migration's transaction has it. Ingestion transactions hold
rows between an upsert and their end, may stay open for ever, and queue behind a migration
that waits for the table, as PostgreSQL makes them. `Verify` has the mismatches that would
raise as its guard: that it never gets stuck there is proved as `VerificationNeverFails`.

## 3. Runs

| Run | Question | Bounds |
|---|---|---|
| `ingestion` | Is anything partial ever visible, is a checkpoint backed and monotone, over what do calls wait in circles, does every call end, is the whole an atomic landing? | 2 calls, 2 hours, 3 keys of which two share a timestamp, answers of up to 2 records of different keys, the last hour of a flow answer complete or not, two overlapping flow windows with different ends, trades, token information, all faults; 484,989 states |
| `ingestion_interrupts` | Does a checkpoint always name a successful run? **No** | 2 calls, interrupts only |
| `ingestion_lost_connections` | Is every call that raised audited as ended? **No** | 2 calls, lost data connections only |
| `client` | Budget, complete pagination, exact accounting, warnings | 3 calls, 8 posts, 2 retries, 3 pages, a source of 1 to 4 pages |
| `client_null_warnings` | Does a paginated run keep the warnings that arrived? **No** | 1 call, 2 pages |
| `backfill` | What may one rely on when the runner reports success? | 2 interchangeable invocations (symmetry), 2 units, 1 other call, for a window of its own or for just a unit's, all faults; 246,049 states |
| `demo` | Is one request in flight, are requests an hour apart, does a due refresh come? | a further caller, an hour of 2 ticks, 4 ticks, failed fetches, failed loads, deaths; 130,533 states |
| `live_observation` | Does the file follow memory, are requests an hour apart, does a page go back to an older observation or an earlier hour? | no further caller, an hour of 2 ticks, 4 ticks, a window of 4 hours, 3 hours of history, failed fetches, writes and loads, deaths saved and unsaved; 1,674,564 states |
| `analytics` | Do both tables change as one, is every sale counted in its hour, what does a read-back show, does every build end? | 2 builds, 11 hours of 2 ticks, 10 sales, 3 price series, errors and lost answers; 94,664 states |
| `migration` | Do all keys change or none, is no row lost, does no run wait for ever? | 2 migrations, 2 ingestion transactions, 3 buckets, 5 old rows, errors and lost answers; 52,026 states |
| `demo_slot` | Does the slot stay at its minute and second? **No** | no faults |
| `demo_unsaved` | Does the hour survive a failed write and a restart? **No** | failed writes and restarts |

Why the bounds are enough to be interesting. Two calls and two hours give every pair of
overlapping windows that can disagree: same start, different ends, in both orders, with
each holding a row the other needs. Two records of one timestamp and a third of the next
are what it takes to lock ties in opposite orders, and to see that only ties are. A client budget of 8 is below what three calls of
three pages with two retries can spend, so it runs out at every point of a call. Two
invocations of at most two units over a two-unit plan overlap in every way: equal,
disjoint and nested selections. An hour of two ticks lets a refresh be late by a
tick and two hours pass. In `live_observation` the window is longer than the history and than
the hours that pass, so an answer may leave out either end. The eleven hours of
`analytics` have the change of rules inside one, the overlap inside the range, the spring
change after it, and a sale at each side of each, at the last tick of the range and at
the first beyond it; the price series have clusters of shocks, equal ones, ones exactly a
gap apart, one at the end, a price of zero and a missing hour. One bound is a guard:
sources change only while some build has yet to read them (`SomeoneReads`); the
re-read at a build's end only asks whether the hours are complete, and complete ones stay so. The buckets of `migration` are two that share their start and differ
in their end, which the old key could not tell apart, and a third; the old rows add one
without an end and an empty one. In every passing run each action fires.

Of the two runs with the demo service, `demo` has the third thread, fairness and every fault
that takes a refresh or a process away; it leaves out failed writes, which change nothing a
thread waits for. `live_observation` has every fault and what is fetched, with the threads
the program itself starts. `backfill` uses symmetry, which is not sound for liveness: that an
invocation ends is the theorem `InvocationsRunDown`, and no run asks it.

The runs of the demo service and of the client switch deadlock checking off because
clock or calls are bounded and the model stops there; those of the backfill, `analytics` and
`migration` because what runs in them ends. Those of the ingestion check for deadlock:
`AllEnded` is the only way to stop.

### Fairness

`ingestion`: weak fairness of each call's own steps. Source posts have a timeout,
statements return or raise, a lock wait ends when the holder ends, and the server breaks
a circle of waits (`deadlock_timeout`); nothing is assumed of faults, of the start of calls or of the commit's answer being lost.
`client`: weak fairness of the running call, for the same reason.
`demo`: runnable threads run and a fetch returns or raises; nothing is assumed of the
clock, of restarts or of readers, so `DueRefreshHappens` starts from an hour that has
already passed. `analytics`: weak fairness of each build's steps, which include the
server's detection of a circle of waits; none of the sources, the analyst or of failures.
`migration`: weak fairness of a migration that has asked for the table; an ingestion
transaction may hold its rows for ever, and `lock_timeout` is what ends the wait.

### What the violated runs show

1. `CheckpointOwnerSucceeded`: `docs/database.md:37-38` says checkpoints are
   "referencing only a successful ingestion run". A Ctrl-C between the commit and the
   return runs `_fail`, whose `UPDATE` has no guard on the old status, on a run that has
   landed. The Ctrl-C is the only cause: without it the sentence is a theorem
   (`OwnersSucceedUninterrupted`), whatever connections and processes are lost.
2. `RaisedCallsAreAudited`: `docs/database.md:77-80` says a run that does not commit "is
   marked failed/partial". With the data connection gone, `rollback()` raises inside the
   handler and `_fail` is not reached. The row stays `running`; for the backfill this
   makes its unit AMBIGUOUS, which blocks every later invocation. A lost connection is not
   the only cause: a Ctrl-C between the audit INSERT and the `try`, or inside a handler,
   leaves the same row with both connections alive. Without either the sentence is a theorem
   (`RaisedAreAudited`).
3. `WarnedRunsKeepEvidence`: `docs/operations.md:97-98` says only "legacy and
   pre-response runs remain NULL". A paginated call that fails after a warned page
   arrived stores NULL too, unless it failed at the page limit or on malformed warnings.
   For every call whose pages were all returned the sentence is a theorem
   (`ReturnedCallsKeepEvidence`).
4. `SlotStaysPut`: `docs/deployment.md:44-45` says the schedule "stays at the UTC minute
   and second established by that initial attempt". Each attempt is stamped when the
   thread gets to it, and the next slot is counted from the stamp.
5. `NoSoonerThanAnHour`: `docs/deployment.md:43-44` says "no sooner than 60 minutes after
   the previous attempt". A failed write of the state file is logged and forgotten; after
   a restart the service does not know of the attempt. Nor does it if the file was written
   and the restart cannot read or parse it. Where loads succeed, and writes do or the process
   never dies with its attempt unsaved, the sentence is a theorem (`AnHourApart`).

## 4. Proofs

Every safety invariant and every action property of the passing runs is proved, for every
value of the constants that the assumptions of its module allow, and so are the three
refinements. Some theorems have a condition besides, and are about what it turns on:

| Theorem | Condition | Why |
|---|---|---|
| `NothingLost`, `AnHourApart` | loads succeed (`"load"` is no fault), and writes succeed or no process dies unsaved | the finding `NoSoonerThanAnHour`, from the other side. `RequestsAlwaysSpaced`, `ShownNeverBack` and `ShownHourNeverBack` have no condition: what was lost is named in the properties, and `NothingLost` says when nothing is |
| `OwnersSucceedUninterrupted` | no Ctrl-C falls into a call's `try` | the finding `CheckpointOwnerSucceeded`, from the other side |
| `RaisedAreAudited` | neither connection of a call is lost, and no Ctrl-C falls outside the `try` or into a handler | the finding `RaisedCallsAreAudited`, from the other side |
| `ReturnedCallsKeepEvidence` | stated of calls whose pages were all returned | the finding `WarnedRunsKeepEvidence`, from the other side |
| `PrefixAlwaysComplete` | no other call asks for exactly the window of a unit (`OthersApart`), and no Ctrl-C falls between a commit and the return | the first would complete a unit out of order, the second turn a complete one pending, since progress is read off audit rows. `InvocationsLandInOrder`, which a run checks, has no condition |
| `VerificationNeverFails` | the table starts finite and finitely many buckets exist | `Verify` compares two counts of rows |

### Termination

Fairness and leads-to are out of the prover's reach, but what is peculiar to a program in
a termination argument is not: a number that each of its steps lowers. `CallsRunDown`
(client, at most `3 * MaxCalls + 2` steps a call), `IngestionCallsRunDown` (eleven steps and
one for each record of the answer), `InvocationsRunDown` (`4 * MaxUnits + 12`), `BuildsRunDown`
(twenty-two) and `MigrationsRunDown` (seven) prove, for each process `p`, that `Left(p)` is a
natural number with that bound, that every step of `p` lowers it, and that a step of another
process leaves it alone. So no retry, fault or interleaving can make a process go round;
what TLC alone shows is that a process which has not ended is not stuck for good.

### Ingestion

`IngestionLifecycle_proofs` proves, for every set of calls, streams, hours, keys with their
timestamps, answers and requests, and every combination of faults, that `Spec` implies `[]TypeOK`, `[]CheckpointBacked`,
`[]SuccessRecorded`, `[]RowsFromCommittedRuns`, `[]StoredRowsComplete`, `[]CirclesTakeTies`,
`CheckpointMonotone` and the refinement `ImplementsAtomic`. The assumptions are those the
module declares: hours are integers, requests are requests, faults are faults, answers are sequences of bounded
length as `AnswersAssumption` has them, and `Absent` is none of the stored things.

The argument. None of the properties is inductive alone, because what a commit does
depends on what the transaction was able to gather before it. `IInv` adds:

- `CallsAudited`: a call has a request and a running audit row from its start until its
  commit or its failure audit;
- `BatchesAccepted`: only validated records get into a transaction, in ascending time;
- `TransactionsInOrder`: what a transaction holds at each point of the call; in
  particular, one that is about to commit on a live connection has staged every record,
  its success mark and its checkpoint decision;
- `LocksExclusive`: two open transactions of one stream share no row and not both the
  checkpoint;
- `DecisionsCurrent`: the answer of the checkpoint upsert's `WHERE` is still the right
  one when the transaction commits. It follows from the lock, and it is what makes the
  checkpoint monotone and a success recorded.

`CirclesTakeTies` says that ties are the only cause of circles. The holder of a checkpoint has
all its rows and waits for nobody, so in a circle all calls wait for rows (`CircleStores`),
and along it the awaited times do not fall (`WaitsAscend`): what a call holds is no later
than what it waits for. The call that waits at the last of them therefore waits for one
that waits at the very same time and has stored a record of it (`CircleTies`). There is
such a call because a circle is finite: only finitely many calls have started at any time
(`Started`), and `GreatestOfFinite` gets the greatest element of a finite set of integers
from the library's minimum over a well-founded order, whose relation is a set and not an
operator. Neither the calls nor the keys have to be finite.

`OwnersSucceedUninterrupted` carries `LandedUnwinds`, that a call that unwinds after it has
landed never reaches the failure audit, and `RaisedAreAudited` that a call keeps its data
connection. The measure of `IngestionCallsRunDown` counts the records of the batch still to
be stored; a lost connection throws away what was stored, and also ends the storing.

The refinement maps
a commit to `Land`, a failure audit to `Fail`, a start to `Begin` and every other step to
a stutter.

`StepKinds` sorts the actions by what they do to the database (start, commit, failure
audit, or nothing), so that each database property is looked at once per kind, and
`CommitEffect` and `StoredAfterCommit` carry the commit. `IInv` was found with TLC
at the bounds of the run `ingestion`; no run repeats that, since it is proved.

### Client

`NansenClient_proofs` proves, for every budget, number of retries, page limit and number
of calls, that `Spec` implies `[]TypeOK`, `[]PostsWithinBudget`, `[]EveryPageOnce`,
`[]AuditedCallsWereSent`, `[]OnlyApprovedWarningsSucceed` and `[]WarnedPagesNamed`. The one
assumption is `BoundsAssumption`: the limits are positive, the retries may be none. Its
`IInv` adds two facts about a call that is running:

- `Counted`: every post was reserved before it left, at most one reservation has not left
  yet, and the budget spent since `calls_before` is what the call sent and that one;
- `PagesInOrder`: the call has the pages 1 to `fetched`, it knows of each the warnings that
  came with it, and the page it asks for next is the one after them. A retry keeps it
  because it asks for the same page again.

The audit row is written from counters that the code keeps across calls; `Counted` is what
ties their difference to the one call, and `PagesInOrder` what ties the warnings in the
row to the pages that arrived. `WarnedPagesNamed` says what the row then tells of the
warnings: all warned pages, or the first of them, and nothing only where the call ended
before its pages were returned (`MidCall`) or did not paginate. TLC found both to hold at the bounds of the run `client`
before they were proved; no run repeats that, since the proof is the stronger check.

### Backfill runner

`BackfillExecution_proofs`, for any target, unit size, finite number of invocations and
faults. The base is `IInv`: types, `RequestsFit` (a run asks for the window of its unit) and
`InStep` (an invocation's counters say what the audit rows of its own calls say). On it:

- `GapsStopTheBatch`: an invocation past its own unit's check has that unit's hours stored
  (`AtItsGap`), one past its coverage check all hours it selected (`RowsFound`), and hours
  stay.
- `SuccessesDisjoint`, without any lock: `Counted` says that the audit rows an invocation
  counted before its batch are neither its own nor those of another's running or successful
  call for a selected unit. If two invocations succeed on one unit, the final count of
  one of them is too high by the other's call, and it refuses.
- `LandedInOrder`: `Covered` says that a unit is complete or was landed by a call that was
  then marked failed, and a covered unit stays so. `SkipsCovered` says that whatever an
  invocation skips below its selection is covered when it starts its batch. Progress may be
  completed or undone from outside, out of order and at any time; what an invocation lands
  is in order all the same. `LandedSucceeds`, that a landed run stays a success, is what
  `PrefixAlwaysComplete` adds where no Ctrl-C falls after a commit.

`UnitsTileTheTarget` is about the plan alone, for any target and unit size: each hour of
the target belongs to exactly one unit, no unit is empty, too large or beyond the target,
and each request begins in the last hour of the unit before, which is the one hour of
pre-roll. `Division` and `UnitSpan` are its arithmetic.

### Demo service and live observation

`DemoService_proofs` proves `[]TypeOK`, `[]SingleFlight`, `[]FileFollowsMemory`,
`RequestsSpaced` and `ShownNeverGoesBack` for any threads and interval. Its `IInv` adds that
whoever is past the check of the lock holds it, that the threads of a process live and die
together, that there is no observation without an attempt before it, and that memory is empty
for as long as a failed load stands (`NothingSince`). `Remembered` says that what is not lost,
memory or else the file knows. A reader's observation survives
a restart because the file has it before memory is shown. No theorem about the service
assumes that loads or writes succeed, but for `NothingLost` and `AnHourApart`.

`LiveObservation_proofs` proves that the composition implements `DemoService`, so that all
of the above holds of it, and `ShownHourNeverGoesBack`. Its invariant `LInv` says that an
observation is of a complete hour, that a request in flight asks for hours up to a present
one that no observation has reached, and that memory and a saved file have no less than
what a page has shown, unless something has come between (`Undisturbed`). An answer without
the window's first hour is still no earlier than the one before, since the adapter wants
two hours in a row. It rests on Nansen keeping complete hours complete and, for any process,
on the clock not being set back.

### Analytics

`RelationshipAnalysis_proofs` proves `EventUtcExact`, that reading back a stored time gives
the instant of the block under both rules, for any offsets the assumptions allow, and
`DeclusteredApart`, that representatives are more than the gap apart and none has a larger
candidate within it. `AnalyticsSnapshot_proofs` proves `[]TypeOK`, `[]TablesAgree`,
`[]SettledSalesCounted`, `[]EventsStandApart`, `CheckedTablesStood` and the refinement
`ImplementsAtomicSnapshot`, for any number of builds. Its `IInv` says that committed rows
are what some build computed (`TablesFromBuilds`, `RowsComputed`), that what a build computed
does not change once it writes, and that a build at its commit has inserted into both
tables (`Staged`). `CheckedTablesStood` is the surprising one: two read-backs in two
statements may see two replacements, but aligned rows repeat their market rows, so equal
aligned rows mean equal market rows.

### Migration

`FlowIdentityMigration_proofs` proves `[]TypeOK`, `[]AllKeysOrNone` and `NoRowLost`. Its
`IInv` says that one migration at a time has the table and no ingestion has rows in it then
(`LockExcludes`), and that the working copy is the committed table under the keys its place
in the script implies (`WorkFollowsFlows`). `VerificationNeverFails` adds that the checks the
migration makes before its commit never raise: renaming is one-to-one on a table whose
buckets differ, which the accepted plan has established (`RekeyedFinite`).

### Only model-checked

All liveness (`EveryCallEnds` of two modules, `DueRefreshHappens`,
`EveryBuildEnds`, `EveryMigrationEnds`): the prover does not do fairness or `ENABLED`. All but
`DueRefreshHappens` have the measure of their termination proved, see above. The five
violations are counterexamples and need no proof. Definitions by recursion over data do
not occur in the modules that are proved about, so no induction is missing.

## 5. Not modelled, and why

- Record contents, normalization and identity (`normalize.py`, `identity.py`,
  `models.py`): pure conversion. Failing is modelled, computing is not.
- The in-memory repositories: doubles used by tests. Unlike the SQL they do not refuse an
  older checkpoint; no program uses them.
- `retrieved_at` snapshots of token information: the row is insert-only; the call is
  modelled, its row is not.
- Daily rows, duplicates and digests in the runner: no program writes daily rows, and the
  flow key is unique in the schema.
- Correlations, bootstraps, residuals and the text artifacts of the analysis:
  floating-point arithmetic and wording, outside what TLC or the provers decide.
- RPC batching of the overlap's block times: it fails or returns block times.
- `migrate_staging.py`: one idempotent script in one transaction, no further step.
- The demo service's static files, history, artifacts and health: constants. The web page:
  rendering.
- An answer of Nansen that leaves out a complete hour is modelled and excepted: no code
  keeps the page from going back after it.
- A gap in a unit that another call landed, or whose invocation died before validating it,
  is reported by nobody; `GapsStopTheBatch` does not claim otherwise.
- A wall clock that is set back, and two services sharing one state file: see the hazards.
- A sale added to the overlap between two statements of a build is left out of that build
  without a word; `SettledSalesCounted` is about the sales that were there, and the hazard
  list says so.

## 6. Plan

Done: ingestion with its abstract specification and the proof of the refinement; client;
backfill planner and runner; demo service with the live adapter; analytics with its abstract
specification and the proof of the refinement; flow identity migration; event selection of
the analysis. Each with the proofs of its invariants. What is left, in this order:

1. Two demo processes with one state file, as a second composition of `DemoService`.
2. The in-memory repositories as a second implementation of `AtomicIngestion`, with the
   checkpoint they do not protect.
