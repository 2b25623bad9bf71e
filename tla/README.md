# Reference-data materialisation, specified and verified

`mxm-refdata` builds futures reference data (periods, products, contracts) from
a versioned source tree and keeps it in one PostgreSQL schema. This directory
holds TLA+ models of the program, the TLC runs that check them on small
instances and the theorems that TLAPS proves for all instances.
Paths below are relative to `src/src/mxm/refdata/`.

## 1. The system

| component | state | operations | talks to |
|---|---|---|---|
| migration runner (`sql/migration_runner.py`) | table `schema_migrations`, the relations migrations create | `discover`, `inspect`, `migrate` | PostgreSQL, several short transactions per call |
| materialisation (`materialisation.py`) | none of its own | `build_refdata`, `rebuild_refdata` | source adapter, generators, migration runner, persistence |
| persistence (`sql/periods.py`, `period_cycles.py`, `futures_products.py`, `futures_contracts.py`) | six tables | `insert_*`, `upsert_futures_product_sources`, `fetch_*` | the caller's transaction |
| PostgreSQL boundary (`sql/postgres.py`) | connection settings | `transaction`, `check_connection` | PostgreSQL |
| diagnostics (`diagnostics.py`, `sql/diagnostics.py`) | none | `run_refdata_diagnostics` | `inspect()`, counts, reader: one transaction each |
| reader (`reader.py`) | none | contracts, products, periods, cycles | PostgreSQL, up to two statements per transaction |
| source adapter (`sources/futures_product.py`) | none; reads a working tree others change | `load_futures_products`, `resolve_futures_product_source_revision` | files, then `git rev-parse HEAD` |
| period generation (`generation/periods.py`) | none | `generate_periods`, `shift_period_by_n`, `period_from_id` | - |
| contract generation (`generation/futures_contracts.py`) | none | `generate_futures_contracts` | trading calendars |
| trading calendars (`trading_calendars/`) | library sessions | n-th business day, weekday, calendar day; first day of interest, last trading day | `exchange_calendars` |
| runtime, composition, preflight, CLI | none | wiring, commands, probes | all of the above |
| cache manager, codecs, models | an LRU map; values | pure | - |

A build constructs its desired state first, without the database; then calls
`migrate()`, which commits the bootstrap and each pending migration in a
transaction of its own; then writes the six tables in one transaction. A
rebuild drops the schema, in one more transaction, between the first two.
Nothing serialises two processes except PostgreSQL's own locks, and transactions
run at READ COMMITTED.

What is hard in this code is therefore what happens *between* transactions and
between processes: a ledger that was read before it is acted on; a schema that
is dropped under a build; two builds whose rows collide or whose sources cross; a
commit whose acknowledgement is lost; a drop after which the command dies; a
source tree that changes while it is read. The rest is arithmetic at its edges:
leap days, ISO years, both ends of the calendar, dates that are no sessions, n
zero or negative. `PROJECT.json` lists these hazards at their lines with the
properties that cover them; the two that none covers, a package that gains a lower
version and a revision resolved after a checkout, say why.

What makes each component correct:

- migration runner: a version is recorded exactly when its relations exist; the
  ledger is a gap-free prefix of one package; checksums are never rewritten; a
  call that returns left the schema current; calls end, and retries converge.
- materialisation: readers only ever see whole desired states; operational rows
  never change except by losing everything in a rebuild; a repeated build is
  accepted; a rebuild is exact and recovers from anything.
- persistence: a row is kept, compared or refused, never silently replaced; a
  commit lays the whole input over the rows of that moment; equal and
  overlapping inputs never exclude each other.
- source adapter: the recorded revision holds exactly what was read, if the
  repository was clean and stood still; a load ends, also while it moves.
- diagnostics: a ready report is right when it is read, and a ready store is never
  reported otherwise, as long as nobody rebuilds; counts are never those of a
  partial materialisation. A report beside a rebuild describes no single moment,
  and may end in an exception: nothing is claimed of it but that it ends.
- reader: no contract is found without its period, also beside rebuilds.
- generators: the periods of a type cover the horizon, once each; walking,
  shifting and parsing of ids agree; memberships fit their cycles; contracts
  expire in the order of their periods; a validated calendar suffices.
- calendars: a relative business day is the one that counting sessions gives.

## 2. Modules

| module | what it is |
|---|---|
| `Migrations` | the migration runner, any number of processes, and its properties |
| `MigrationsProofs` | theorems about `Migrations` |
| `RefDataState` | rows, keys, inputs, and the desired state built from an input |
| `MaterialisedStore` | the abstract specification of materialisation |
| `Materialisation` | `build` and `rebuild`, composed with `Migrations`, and their properties |
| `MaterialisationProofs` | theorems about `Materialisation`, the refinement among them |
| `Observers` | diagnostics and contract queries, composed with `Materialisation` |
| `ObserversProofs` | theorems about `Observers`, on top of those about `Materialisation` |
| `RowWrites` | one write operation, row by row, by several transactions |
| `RowWritesProofs` | theorems about `RowWrites` |
| `Dates` | Python's dates as ordinals, with ISO weeks |
| `Periods` | construction, shifting, parsing and order of periods |
| `PeriodsProofs` | the periods of a type partition the days and follow each other in places |
| `PeriodGeneration` | `generate_periods` step by step |
| `PeriodGenerationProofs` | theorems about `PeriodGeneration` |
| `RankProofs` | sorting by the number of predecessors takes every place |
| `TradingCalendar` | session arithmetic and the n-th day of a period |
| `Contracts` | last trading day, first day of interest, contracts of a product |
| `DesiredState` | a command from its configuration to its result: source, periods, coverage, contracts, drop, validation |
| `DesiredStateProofs` | theorems about `TradingCalendar`, `Contracts` and `DesiredState` |
| `MCMigrations`, `MCMaterialisation`, `MCObservers`, `MCRowWrites`, `MCDesiredState` | constants and symmetry for TLC |

There are two compositions. `Observers` extends `Materialisation`, which
extends `Migrations`: transactions, locks, crashes, several processes, with
what is materialised given as a set of inputs. `DesiredState` extends
`PeriodGeneration` and `Contracts`, which rest on `Periods`, `TradingCalendar` and
`Dates`: how one command computes what is materialised. An input of
`Materialisation` is `constructible` when `DesiredState` gets past its contracts, and
`InvalidContracts` are those that only persistence refuses: a last trading day
before the first day of interest, or a size that is not positive. Both modules have
the command whose contracts are made but refused at their insertion, after the drop
of a rebuild. Inputs that are constructible and whose contracts are accepted are the
valid ones (`ValidInputs`). `RowWrites` opens up one operation that is a single step
of `Materialisation`.

### Migrations

`step[r]` is the place of process `r` between two transactions (or, in the
bootstrap, between two statements). `schemaExists`, `ledgerExists`, `ledger` and
`relations` are the database; `package`, `sawSchema`, `pending`, `newly` and
`inspection` are local variables of the code: the discovered migrations, what
`CREATE SCHEMA IF NOT EXISTS` saw, the migrations `migrate()` will still apply
from its ledger snapshot, its return value, and `inspect()`'s. A package is any
set of resources, also one `discover()` must reject. `ApplyMigration` is one
transaction of `_apply_tracked_migration`; it fails (`ApplyCollides`) where
`CREATE TABLE` or the primary key of the ledger would. Failures are
`Interrupt` (rolled back) and the two `...Unacknowledged` actions (committed,
but the client gets an error).

Abstracted: the SQL text is its checksum, and what it creates is one relation
per version. Bootstrap statements collide only through the schema: a collision
inside the second statement has the outcome of `Interrupt`. Malformed file
names are resources that do not reach the set.

### Materialisation

A row is a key (table and stable identity) and a value, which is what the code
compares when it reads a row back. Rows of periods, cycles and memberships have
a value their identity determines; a product has a definition; a source has a
path and a revision; a contract has the definition and the calendar edition its
dates were computed from. An input is what one command finds: product files,
revision, horizon, calendar library, and whether a desired state can be
constructed from it. Which of the constructed contracts persistence refuses is a
constant, `InvalidContracts`.

`phase[r]` is the place of the command. Each `Insert...`/`Upsert...` action is
one write operation of `_persist_desired_state` inside the open transaction:
`written[r]` are the keys of which the transaction holds an uncommitted version,
`locked[r]` the tables `DROP` must wait for. An operation waits for another
transaction's uncommitted row of the same key or source path, is refused for a
missing table, a missing parent row, a taken path or a differing kept row, and
otherwise continues. `Commit` publishes the transaction's rows at once. `Crash`
may come anywhere and rolls back.

Rows inside an operation are sent in sorted order, in every process, so waiting
for the operation is as good as waiting for a row of it. Invalid contracts are
refused before a row is sent, so without waiting. `RowWrites` takes this
apart: there a deadlock occurs only between inputs that disagree (sources whose
paths cross, memberships whose positions do). PostgreSQL breaks it by cancelling
one session, which is `Crash` in `Materialisation`.

`MaterialisedStore` says the same thing in three actions: tables appear, tables
vanish with all rows, and a whole valid input is laid over a compatible store.

### Observers

`Observer` is a set of processes that issue no command; the others step as in
`Materialisation`. `look[o]` is the place of the observer between transactions.
A report begins with `inspect()` of `Migrations`, counts all six tables in one
statement, then verifies each cycle of `CanonicalCycles` in one or two
transactions; `failed[o]`, `counted[o]` and the kept `inspection[o]` are the
report. `MigrationError` becomes a report, any other exception ends the call
(`raised`). A contract query is two statements; between them its transaction
holds a lock (`locked[o]`) that a `DROP` waits for, and each statement has a
snapshot of its own. `readyBefore[o]` is a history variable: whether the store was
ready when the report was begun.

Abstracted: a contract query returns any selection of products and periods,
which stands for the period type and the as-of date; every process has the same
package, so the inspection never meets an unknown or an edited migration; a
cycle has the structure both sides take from the same constants.

`StoreReady` says what "ready" means without the code's counts and is what
`ReadyReportsHold` and `NoFalseAlarm` compare a report with.

### RowWrites

The SQL modules share one pattern: refuse inputs that contradict themselves,
sort, execute one `INSERT` per row, read the rows back and compare. `table` says
which module it is, since they differ: memberships ignore every conflict
(`ON CONFLICT DO NOTHING`) and are read back by period and by position;
contracts ignore a conflict of their primary key only, so another contract of
the same product and period is a unique violation; sources are updated on a
conflict of their primary key, under a unique path. A row is its primary key (`id`),
what else is unique (`slot`) and the rest (`value`). Periods, cycles and products have no second
unique key, which is a special case.

`todo[s]` are the rows still to be sent, `own[s]` the uncommitted ones of the
transaction. A statement waits for the transactions that hold the row's id or
slot (`Obstacles`), may skip, put or violate. `CancelDeadlocked` cancels one
member of a smallest circle of waiters. `ReadBack` sees what others committed
meanwhile (READ COMMITTED); `Commit` publishes.

### Dates, Periods, PeriodGeneration

A day is its proleptic Gregorian ordinal, as in `datetime.date.toordinal()`.
`Periods` has the constructors with the divisions the code makes. The text of an
id is a tuple of type, year and number; `Recognised` is what the patterns accept.
Where a date does not exist Python raises: `Constructible` says when, and an
operator that may raise returns a set, of its result or empty.

`PeriodGeneration` is the loop of `generate_periods`: `turn` is the requested type,
`current` the loop variable, `periods` the list, and each step constructs one
period or raises.

### TradingCalendar, Contracts

The sessions of an exchange come from a library and are constants: first and last
session, days of the week it opens, dates it stays closed. `SessionOffset` is
the library's, `LastPriorSession` and `Adjusted` are the code's treatment of dates
that are no sessions. `Nth` is an index into a list as the code takes it,
including n = 0, which is the first element. `Contracts` composes them in the
order of `calculate_last_trading_day` and `calculate_first_day_of_interest`.
Contract size, currency and unit are copied and left out.

### DesiredState

`stage` is the place of the command: configuration, listing, reading (one file per
step), revision, periods (a step is a step of `PeriodGeneration`), coverage,
contracts (one product per step), drop, persist. `store` is what it did to the
stored state. The source repository is `tree`, `head` and the checkout under way
(`target`); `StartCheckout`, `CheckoutFile`, `FinishCheckout` and `EditFile` are the
steps of other people, possible between any two steps of the load. `still` is a
history variable: the tree was clean when it was listed and has not moved since.
`ProvenanceIsExact` is claimed for such trees only: the code does not notice a
checkout between reading the files and resolving the revision, and then records a
revision that never held them.

A document either parses or does not (`Parses`), and is otherwise the record of
its rules; a path is a number in sort order. Every way to raise is a value of
`error`. What a command does after the generation is one step each: `Materialisation`
has those transactions.

## 3. Runs

| run | question | result |
|---|---|---|
| `migrations_safety` | 3 processes, 3 good and 3 rejected packages, 1 failure: all safety properties of `Migrations` | holds |
| `migrations_live` | 2 processes of one release, 2 failures, retries: calls end, the schema converges | holds |
| `materialisation_concurrent` | 2 processes, builds and rebuilds, 6 inputs, 1 failure: safety and refinement of `MaterialisedStore` | holds |
| `materialisation_solo` | 1 process, 9 inputs, 3 failures: exactness and recovery of rebuilds, idempotence of builds | holds |
| `materialisation_live` | 2 processes build and rebuild 2 compatible inputs, 1 failure, retries: commands end, and once only builds run both inputs stay | holds |
| `observers` | 1 process builds and rebuilds from 3 inputs, 1 observer, 1 failure: queries and counts beside rebuilds | holds |
| `observers_builds` | 2 processes build 2 inputs, 1 observer, 1 failure: reports are true | holds |
| `observers_live` | 1 process builds and rebuilds, 1 observer, 1 failure: reports and queries end | holds |
| `row_writes` | 3 transactions write 6 inputs to 2 initial tables of 3 kinds: whole commits, real refusals, no endless wait | holds |
| `desired_state` | calls of `generate_periods` and rebuilds over a moving repository, 2 calendars: dates, periods, memberships, provenance, coverage | holds |
| `provenance_swap` | what the documentation says of provenance | violated |
| `desired_state_late` | what the documentation says of a rebuild | violated |

Bounds. Three runners are needed for a stale snapshot to meet two different
successors; two versions for a gap; packages that add and that edit a migration
for every verdict of the validation. In `Materialisation` two commands give every
pairwise interleaving; the inputs differ from the first in one respect each
(longer horizon and a renamed file, a redefined product, a withdrawn one, a file
taken over by another product, another calendar edition, exchanged files, one that
does not parse, a redefined product of which one contract is invalid), so each
comparison the code makes has an input that passes and one that fails it. The last
two are in the concurrent run as well: one is refused before the drop of a rebuild,
the other after it. Two products and two periods suffice for one of each kind of
row to be old and another new in one operation. `MaxFaults` bounds failures.
One observer is enough, since observers do not affect each other; its inputs have
a source without products and a horizon without a quarter, so that each check
can fail. `observers_builds` leaves rebuilds out because its properties do not
hold beside them. Processes are symmetric in the safety runs.

`MCRowWrites`: three transactions, so that one can commit between the reading back of
another and a third waits for both; inputs that agree in different orders, whose
slots cross (so that two transactions wait for each other), that change a value, that repeat a row and that contradict
themselves.

`MCDesiredState`: the direct calls lie around a leap day, ends of ISO years of 52 and
of 53 weeks, a century that is no leap year, the first days of the calendar and
the last, where quarters, months and weeks have no successor, each with six
lists of types and with and without partial periods. Of the horizons one is
exactly what the short calendar covers, one is too early, one too late by a day,
two have no such day in another leap year, one is reversed. The rules count from
both ends of a period, from weekdays and calendar days, with n zero, negative
and positive, from sessions and holidays, and list contracts up to two years
before, annually or by month; the drafts are six years early, too late, not
listed, not JSON, of unknown exchanges and rules. One checkout or one edit
(`MaxMoves`) already falls between any two reads. `build` is left out of that run: it
differs from `rebuild` by the drop only, and `desired_state_late` has both.

`provenance_swap`: the docstrings of `build_refdata` (materialisation.py:117)
and of `upsert_futures_product_sources` (sql/futures_products.py:377) let
provenance evolve while products stay the same. Sources are upserted one by one
under a unique path, so when two unchanged products exchange their files the
first upsert meets the path of the second and the build is rolled back. A
rebuild gets past it.

`desired_state_late`: the docstring of `rebuild_refdata` says that desired state is
constructed and validated before the existing schema is touched
(materialisation.py:139-140). That a contract's first day of interest is not
after its last trading day is checked by `_validate_futures_contract`
(sql/futures_contracts.py:697-707), which runs at insertion, after the drop. A
source whose listing rule gives such a contract leaves a rebuild without the old rows and without
the new ones until the source is corrected. A build is refused as well, but
keeps what was stored.

Each property has a faulty variant of one mapped definition that violates it (the
operators marked `Faulty`, or listed before the properties of a module).

### Fairness

Weak fairness of a runner's progress says only that a running process runs on. In
`Materialisation` a command may be disabled again and again by others' locks, so
its fairness is strong: PostgreSQL queues the waiters of a row and of a table in
order of arrival, so a waiter is not passed over for ever. Convergence also
assumes operators who retry (`RetryFairness`, `RetryBuildsSpec`): the code has
no retry of its own. Failures are bounded, never fair. `BuildsConverge` claims
something only of behaviours in which, from some moment on, nobody rebuilds: two processes
that rebuild for ever may destroy each other's work for ever, and nothing in the
code prevents it.

In `RowWrites` each session's steps are weakly fair, the cancellation of a deadlock
among them: PostgreSQL looks for deadlocks by itself. Sessions write a bounded
list once, so weak fairness is enough. In `DesiredState` only the command's steps
are fair; the repository may move or not.

## 4. Theorems

`MigrationsProofs` proves, for any number of processes, versions, packages and
failures, from the assumptions on the constants alone: the type invariant,
`LedgerMatchesRelations`, `MigratedIsCurrent`, `AppliedOnce`,
`CurrentInspectionIsTrue` and the action property `LedgerFrozen`.

The inductive invariant relates what a call believes to the ledger. For a
runner in the loop, every packaged version is either still pending or recorded
with the packaged checksum; this survives other runners because the ledger only
grows and is never rewritten (lemma `LedgerGrows`), which in turn needs that a
version without a record has no relation. `AppliedOnce` needs in addition that
`newly` contains recorded versions only.

`LedgerHasNoGap` proves `LedgerIsPackagePrefix` for releases that append
(`ReleasesAppend`): no package lacks a version that another package has below one
of its own. Without that the code does apply versions out of order, as section 5
says; the packages of the runs satisfy it, and a package may still edit a
migration or end earlier. A runner's package has been discovered
(`PackagesAreDiscovered`), so the version it applies next continues the prefix of
whichever package the ledger holds so far (`NextExtendsPrefix`).

`MaterialisationProofs` proves, for any number of processes, keys, inputs and
failures: the type invariant, `WholeDesiredStates`, `PathsAreUnique`,
`ConflictsAreReal`, `OperationalRowsAreImmutable`, `DropsAreClean`, and that
`Materialisation` implements `MaterialisedStore`. Besides the types it assumes
that an input has one product per path (`PathAssumption`: a path is one
file, and the loader rejects two files of one product), that `Unset` is no value
(`UnsetAssumption`), and that the package is discoverable.

Its inductive invariant `Inv` speaks of the open transactions, because a
committed state shows nothing wrong until one of them commits:

- `WrittenInv`: what a transaction wrote was wanted and replaces no committed
  operational row;
- `KeptInv`: each row of an operation already done is the transaction's own, or
  was there with the wanted value, and its table is locked, so no rebuild can
  take it away before the commit. The read-back of the code justifies the
  second alternative, and without the lock it would be stale;
- `Apart`: two transactions have no row and no path in common (they wait);
- `PathInv`: a path in use is free or its owner's row is rewritten too;
- `LockInv`, `InputInv`, `StoredInv`: a locked table exists, the database is
  touched for constructible inputs only and a commit is reached by valid ones
  only, and rows need tables.

At commit, `WrittenInv` and `KeptInv` together say that the published rows are the
whole desired state over compatible rows (lemma `PublishIsWhole`), which is the
abstract `Materialise`. `RowSteps` says that only such commits and drops change
rows; `WholeDesiredStates`, `OperationalRowsAreImmutable` and `DropsAreClean` follow
from it. `ConflictsAreReal` needs `WholeDesiredStates` in its turn: the committed row
that differs belongs to a valid input that the store holds as a whole at the moment
of the refusal, so the two desired states disagree.

`DropsAreClean` says what the code promises of a drop, and no more: rows are lost only
at the drop of a rebuild whose desired state was constructed, and the locks of `DROP
SCHEMA` leave no other transaction with rows of its own that it could commit into
the new schema. That the desired state will also be accepted is not promised; a
rebuild whose contracts are invalid does lose the rows (section 3,
`desired_state_late`). What holds instead is `RebuildRecovers`: the next rebuild
from a valid source gets past whatever such a failure left.

Three properties are about a process alone, and so are their theorems, under the
hypothesis `Alone`: `RebuildsAreExact`, `RebuildsRecover` and
`RepeatedBuildsAreAccepted`. After its own drop a rebuild finds an empty schema and
a ledger of packaged migrations only (`FreshLedger`), nothing its runner has read
can be outdated (`FreshRunner`), and what it has published is what it wanted
(`RebuildInv`); so a rebuild that fails met a lost connection or a crash
(`RefusalInv`). Beside other rebuilds none of this holds.

`ObserversProofs` proves, beside any commands, the type invariant,
`ContractsHavePeriods` and `CountsAreOfWholeStates`; and for commands that are
all builds (`BuildsOnly`, as in the run that checks them) `ReadyReportsHold` and
`NoFalseAlarm`. A step of a command keeps the invariant of `Materialisation` beside
observers because it reads and locks for its own process only (`CommandIsOwn`), and
an observer changes no row. The first invariant (`ObserverInv`) says of an open
query that its lock holds off every `DROP`, so that the periods of the
contracts it saw are still there for its second statement, and of a report that what it
counted was there at one moment. The second (`ReportsInv`) says that each part of a report that
passed so far still holds (`ReportInv`), and that a store which was ready at the
beginning has made no part fail (`AlarmInv`): while nothing is rebuilt tables,
ledger and rows only grow (`SchemaInv`, `StoreGrows`, `WholeKept`). Assumed beyond
`Materialisation`: the source tree is finite (`FilesAssumption`), so products can be counted, and
the names of cycles are not those of count checks (`CheckNamesAssumption`).

`PeriodsProofs` proves from the definitions of `Dates` and `Periods` alone, for every
day of the calendar: the period constructed for a day holds it (`PeriodHolds`), and
every day of a period constructs that period again (`PeriodOfMember`). So the
periods of a type partition the days. The lemmas under them are about the
Gregorian count: the cycles of 400, 100, 4 and 1 years, months of a year, ISO
weeks. Numbered along the calendar, the periods of a type have places (`Place`), a
period ends the day before the next place starts (`StartOf`, `PeriodHasPlace`),
and a shift by n goes n places on, over ends of years (`ShiftGoesOn`).

`PeriodGenerationProofs` proves, for any set of calls, the type invariant and
`NoDayIsLost`. The invariant (`IInv`) adds to the types what the walk has done so
far: for the types before `turn` the list has each due period (`Due`), for the one
whose turn it is each due period before the current one (`Walked`), and no period twice. The partition
makes the step: the day after a period begins the next one. A second invariant,
`Placed`, says that those of one type stand in the list as their places in the
calendar. `ShiftsFollowGeneration` follows, since a shift by the distance in the
list reaches the same place, and `IdsNameTheirPeriods`, since what is listed is the
period of its own first day and the id holds what that day is computed from; no
ISO year of the calendar has five digits (`LastIsoYear`).

`RowWritesProofs` proves, for any number of sessions, inputs and initial tables, the
type invariant and `CommitsAreWhole`. Its invariant (`RowInvariant`) has three
parts: open transactions could commit in any order without two rows sharing an id or
a slot (`Isolation`, which is what waiting is for); a transaction's own rows were
requested, and unless they are sources they replace nothing (`Ownership`); what
was requested is pending, written, or, once compared, visible (`Completeness`).
What was compared stays until the commit because only sources are ever replaced, and
a source is always the transaction's own. `RankProofs` (`EveryPlaceIsTaken`) shows
that sorting by counting predecessors loses no row; `DesiredStateProofs` uses it
for the files.

`WritesAreRefusedForReason` proves the action property `RefusalsAreReal`: a
conflict or a violation needs an input that has one id twice, or a requested row
that disagrees with another requested or a committed one, and a deadlock
needs rows that disagree. The invariant (`WInv`) adds that rows are sent in order
(`InOrder`, with `RankGrows` of `RankProofs`) and that what was passed without
being written has met a row of its id or slot (`PassedRowsMet`). For the deadlock,
suppose that no rows disagree. Then whoever waits, waits for a row equal in id and slot to
its own next one, which its holder has sent before the holder's next one; so in a
circle everybody waits for somebody whose next row is later. Those of the circle whose next row is later than a given one's would
be a smaller circle, against the choice of a smallest one (`DeadlocksDisagree`).

`DesiredStateProofs` proves, for any commits, drafts, horizons, calendars and numbers
of moves: `NoDayIsLost`, `IdsNameTheirPeriods` and `ShiftsFollowGeneration` of the
composition, `MembershipsFitCycles`, `ProvenanceIsExact`, `DatesAreCounted` and
`ExpiriesFollowPeriods`. `Calling` carries the invariants of `PeriodGeneration` through
the steps of the command; `SourceInv` says that, as long as the tree stood still,
what was read and what is unread are the files of HEAD; `ContractInv` and `MadeInv` say that each
contract is made by `ContractsOf` from a generated period and the one document of
its product. Memberships follow from `PeriodOfMember`: two periods with one position
are the same.

Of calendars two things are assumed: they lie among the days, and the first and the
last session are sessions (`CalendarsAssumption`, `BoundsAssumption`). Whatever
`RelativeBusinessDay` returns is then `Counted` (`RelativeIsCounted`), for every
exchange, date and n, from sessions and other days, in both directions.
`ExpiriesFollowPeriods` goes through the parts of a last trading day: shifted
alike, an earlier month ends before a later one begins (`ShiftsKeepOrder`, from the
places), a reference date is a day of its period (`ReferenceLiesInPeriod`), and
counting the same number of business days keeps the order (`CountingKeepsOrder`: the
other way round one count would have a session more than the other).

`CoverageAlwaysSuffices` proves `CoverageSuffices`: once `_validate_calendar_coverage`
has accepted a horizon, no modest rule fails for want of days, months or sessions.
It needs where the holidays are, so its hypothesis is `RegularCalendars`: of any four
covered weeks fifteen days are sessions, as on the calendars of the library. The
calendars of `MCDesiredState` are regular (`CalendarsAreRegular`, which TLC
evaluates); with one that closes for whole months the property would not hold. The
argument: an accepted coverage reaches from 23 months before the month of each period to
four weeks after the eleventh month behind it (`HasRoom`, `HorizonHasRoom`); a covered
month has every reference date a usual rule names, ten business days from it
are found, and a session follows (`ReferenceIsThere`, `OffsetIsThere`,
`LastTradingDayIsThere`). `CoverageInv` ties the drafts and periods of the command to
the validated horizon; it is inductive.

The proof found the premise too weak. `Modest` bounded the months an annual rule lists
ahead and its offset separately; a listing of 24 months whose rule takes a december
reference asks for a month before the two years the check looks back, which no document of the
run had done. `Modest` now bounds the two together: the shift less the offset is at most 21 months.

Model-checked only: liveness and convergence, which are beyond the prover.

## 5. Not modelled

- Preflight: three independent read-only probes; none reads what another
  changes.
- Command line: argument parsing and rendering of tables. What `build` and
  `rebuild` call is modelled.
- Cache manager: an LRU map that nothing in the package uses.
- Codecs, patterns, the field-by-field parsing of the JSON documents and the
  decoding of rows: conversions of text without state. A document parses or
  does not; a row is what was written.
- Reader queries of one statement, and the order in which a reader lists: they
  read one snapshot and change nothing.
- Configuration lookup, URL handling, the refusal of protected schema names.
- A package that gains a version lower than one already applied: the runner
  would apply it out of order. `LedgerIsPackagePrefix` is checked and proved for
  releases that append their migrations.

Possible further work: `RowWrites` as a refinement of the operations of
`Materialisation`.
