# A TLA+ verification project for mb_ingester

mb_ingester copies the state of MoonBot trading servers into PostgreSQL: the
strategies of a server with the history of their edits, the trades it executed,
and the descriptions of the strategy parameters. This directory models the
program's own logic in TLA+, checks the models with TLC and proves theorems
about them with TLAPS. Paths below are those of the repository.

## 1. The system

### 1.1 Components

| component | code | state | operations |
|---|---|---|---|
| process | `src/main.rs`, `src/config.rs` | the threads | read the TOML file, migrate, load servers, spawn a thread per server, join |
| session | `src/session.rs` | the client, a database connection, `servers.modules` as read at start | connect, initial_sync, wait for an event, handle_event, end |
| strategy store | `src/storage/strategies.rs` | tables `strategies`, `strategy_versions` | `upsert_snapshot` |
| order store | `src/storage/orders.rs` | table `orders` with a foreign key to `strategy_versions` | `upsert` |
| parameters store | `src/storage/parameters.rs` | table `parameters`, shared by all servers | `upsert_schema` |
| settings cache | `src/settings.rs` | a map behind a mutex, its age | `get`, refresh when due |
| database set-up | `src/db.rs`, `migrations/` | the schema | connect, apply eight scripts, load the servers |
| moonproto client | a library, not in the repository | a snapshot of the server, a channel of events | `connect`, `snapshot`, `recv_event_timeout` |
| conversions | in `orders.rs`, `parameters.rs` | none | Delphi dates, reasons, profit, texts |

### 1.2 How they interact

- **One thread per server.** `main` spawns a thread per row of `servers` and
  only joins them. Sessions share the database, the settings cache and the
  table `parameters`, nothing else: the tables of strategies and orders are
  keyed by server.
- **Session and client.** The library has a thread of its own. It renews the
  snapshot and then sends an event that says what kind of thing was renewed; the
  event carries no state. The session takes the events in order and reads the
  snapshot of the moment it handles one.
- **Session and database.** One connection per session. Each statement is a
  transaction of its own, except in `upsert_schema`. `upsert_snapshot` is
  three statements (row, previous edit date, new version), `upsert` is two
  (latest version, row).
- **The two stores** meet in `strategy_versions`: one appends to it, the
  other links orders to its latest row, and a deletion there sets links to
  NULL.

### 1.3 What is hard

- Everything between two statements: the process may be killed, a statement may
  fail, or be applied and its answer lost, an operator may delete versions, the
  clock of the database may be set back.
- Everything between event and handler: the snapshot may have gone on, the
  order may be gone, several changes may have been merged.
- Partial failure of loops: `initial_sync` goes on after an error, the `?` in
  `handle_event` ends the loop, nothing is retried until the next event.
- State compared across a round trip: the edit date that comes back from the
  database is not normalised like the one it is compared with.

### 1.4 What makes each component correct

- *Strategy store*: one version per edit, no edit passed over, the latest
  version unambiguous, a known signal type kept.
- *Order store*: a link is written to an existing version of the strategy the
  report names, never back to an older one, trades and what is known of them
  kept.
- *Session*: when nothing is under way the tables agree with the server for all
  that was not given up; only executed orders are written; modules that are off
  write nothing; every trade and every edit arrives in the end.
- *Parameters store*: a schema is written as a whole whatever other sessions
  write, curator columns survive, every call ends, and only schemas of different
  orders can lock each other out.
- *Settings cache*: a change is seen within the TTL and the time a refresh took,
  the table is not read on every event, the mutex is not held for good.
- *Process and set-up*: a start that was killed at any point is repaired by the
  next and loses nothing but the three columns that 008 drops; sessions run on a
  complete schema, for all servers that were loaded or none.

`PROJECT.json` lists the hazards at their lines, with the property that would
catch each, or why none does yet.

## 2. The modules

| module | what it is |
|---|---|
| `StrategyVersions` | the rows of `strategy_versions` and the readings the code makes of them; no state |
| `EditHistory` | the abstract specification of the version history |
| `StrategyStore` | `upsert_snapshot` against `strategies` and `strategy_versions` |
| `OrderStore` | `upsert` against `orders`, with an environment that changes the versions |
| `MoonRuntime` | the moonproto client as the session sees it (external) |
| `Session` | one session; composes the three modules above |
| `SessionInvariants` | the inductive invariants the properties of `Session` rest on; no state |
| `ParameterTable` | the abstract specification of the table `parameters` |
| `Parameters` | `upsert_schema`, by several sessions at a time |
| `Settings` | the settings cache, used by several sessions at a time |
| `Ingester` | the process: start, scripts, threads, end |
| `MC...` | values of the constants for TLC |
| `StrategyVersionsLemmas`, `GreatestNatural` | lemmas the proofs share |
| `...Proofs` | the theorems about a module |

Some operators are headed "Mutant of X": each is X with a plausible bug,
put next to the operator it alters. No specification uses them. They are there
to show that the property named in `PROJECT.json` tells the code from the bug.

### 2.1 StrategyVersions

A version is an `id` (BIGSERIAL), a `date` (`NOW()` at its insertion) and a
`led`, the `LastEditDate` text in `raw_data`. Of the text the model keeps what
the two readers make of it: the instant it denotes once trimmed (`None` when it
is absent or in neither format) and whether white space follows. `SnapshotLed`
trims (`current_led_from_snap`); `StoredLed` does not (`parse_led_utc` on the
text read back), and is `None` for a padded text. `Latest` is
`ORDER BY version_date DESC LIMIT 1`, with which both `PreviousLed` and
`CurrentVersionId` begin.

### 2.2 StrategyStore

`strategyCall` is the call in progress, its arguments and its program counter:

```
  idle --Call--> row --UpsertRow--> prev --ReadPreviousLed--> insert --InsertVersion--> ok
                                      \___________ReadPreviousLed (no new edit)________/
  row, prev, insert --Fail--> err           the statement was not applied
                    --Answered--> err       it was applied and its answer lost
  ok, err --Return--> idle                  any --Abandon--> idle (killed)
```

`Prune` (an operator deletes a version) and `StepBack` (the clock is set back)
may come between any two steps. The constant `Faults` says which failures an
instance has. `clock` advances with every insertion: `NOW()` has microseconds
and a session inserts one version at a time, so two insertions have one date
only if the clock was set back. `MaxVersionId` bounds the sequence of ids; at
its end an INSERT fails, as the real sequence would.

### 2.3 OrderStore

The same shape with two statements. An order state is a record of the columns
that are treated differently: `strategy_id`, `status` and `sell_reason_code` are
overwritten, `sell_reason` and the six times (one stands for them) are
COALESCEd, the profit is computed, the link is looked up and COALESCEd. The
strategy is that of each report (`strat_id`, `orders.rs:19` and `:168`), one of
`Strategies` or `None` for any other, as of an order placed by hand: nothing in
the code makes the reports of an order name one strategy. `NewVersion` and
`PruneVersion` are the environment: rows appear with fresh ids, and deletion
unlinks. Section 3 says how `Session` discharges it.

### 2.4 MoonRuntime and Session

`MoonRuntime` holds the live strategies, orders and schema, the queue and
whether the client is connected. A live strategy has two flags: `checked`, of
the last full update, and `info`, `StrategyInfo.checked`, which deltas renew
and which may be missing. A change renews the snapshot and sends the event in
one step; while the session's process is down the server goes on and nobody is
told. The server itself survives everything.

`Session` has a program counter:

```
  down --Connect--> init --InitialSync--> sync --Done--> loop
  down --Connect (an error)--> ended      init --InitialSync (no snapshot)--> loop
  loop --OnStrategies, OnOrderUpdated, OnOrdersSnapshot--> event --Done--> loop
  loop --OnSchemaApplied, OnIgnored, NoSnapshot--> loop
  loop --OnDisconnected--> ended          any --Restart--> down
```

In `sync` and `event` the thread works through `strategyWork` and `orderWork`, each
item a call of a store: `StartStrategy`, `StrategyStatement`..., `FinishStrategy`.

The snapshot is taken once, when the loop starts, as in the code; the client's
thread goes on during the loop. `FinishStrategy` and `FinishOrder` hold the
difference between the two loops: an error passes over one item in
`initial_sync` and over the rest in `handle_event`. The order in which a
snapshot lists its items is arbitrary.

`missed` is a history variable: what was to be written and was given up, by an
error or for want of a snapshot. It is what the agreement properties make an
exception for, item by item; an item leaves it with its next successful upsert.

The `SchemaApplied` handler writes the whole table in one transaction; the
model writes the schema in one step (or not at all). The table `parameters`
belongs to no server (`migrations/006:20`): `OtherSession` is a session of
another server that writes its schema at any time. `OtherSchema` stands for all
that others write; where two schemas share some of their fields only,
`Parameters` has the rows.

### 2.5 Parameters

Several sessions write one table. A call is a transaction: an `Execute` per
field, in the order of the schema, then `Commit`.

```
  idle --UpsertSchema--> open --Execute--> ... --Commit--> ok --Return--> idle
       open --Fail, EndDeadlock--> err     the transaction is rolled back
```

`written` holds the rows an open transaction has written, which is also what it
has locked: `WaitsFor(s, t)` is that the next statement of `s` names such a row
of `t`. PostgreSQL (external) lets it wait, and then shows it the row as
committed, which is why `Upserted` is applied to `parameters` and not to a
snapshot (isolation READ COMMITTED, the default). `Deadlocked` is a circle of
waits; one of its transactions is ended. The curator's `UPDATE` waits too.

Of a row the model keeps one column of each kind: `layout` stands for those
the UPSERT overwrites, `group_path` is kept once known, `curated` is not in the
UPSERT. The table begins with any rows of the kind `migrations/006:55-66` inserts, or
none. `ParameterTable` is what readers and curator are promised: schemas
are applied one at a time, each as a whole. A schema names a field once, which
is an assumption about the server; the code does not check it.

### 2.6 Settings

```
  idle --Get--> waiting --ReadCache--> idle                (fresh)
                waiting --Refresh--> connect --Connected--> query --Query--> answer --Load--> idle
                connect, query, answer --GiveUp--> idle     (connection or query failed)
```

Whoever is past `waiting` holds the mutex; `Refresh` and `ReadCache` need it
free. Time is an integer that advances between any two steps, so a connection
may take any time. An operator may `Update` the table at any time.
`changedAt`, `readAt`, `triedAt` are history variables. `init` runs before the
first session (`main.rs:36`), so `db_url` is there.

### 2.7 Ingester

```
  down --Start--> config --Connect--> migrate --Migrate (8 times)-->
       migrate --InitSettings--> load --LoadServers--> spawn --Spawn...-->
       spawn --JoinBegins--> join --Join--> down
  config, migrate, load, spawn --Fail--> down     any --Crash--> down
```

`catalog` is the set of columns, as far as a script creates or drops them: one
column stands for those that come and go together. A script is one transaction
(`batch_execute` sends it as one simple query). It fails when a table it names
is missing. `DatabaseInit` is any database an earlier release may have left, or
none: the tables of the first `n` scripts, with or without the narrow table
`orders` of the first release (`migrations/002:4-5`). A database of a later
release than the code is not a state it is made for. `seeded` is what is in the
columns of the rows that 001 and 006 insert, one column for those that stay and
`Limits` for the three that 006 creates and 008 drops: nothing, the default, or
what an operator wrote. A script that drops a column takes its contents along;
one that inserts rows leaves alone those that are there (`SeededBy`). The operator edits
`servers`, and these rows; a thread writes trades while it
runs, and ends at any time (`Session` is what it does meanwhile).

## 3. What the runs check

Every passing run explores its whole state space; the others stop at the violation.

| run | instance | what it shows |
|---|---|---|
| `store_edits` | 2 strategies, 2 dates, 3 ids, failing statements, crashes | types; `OneVersionPerEdit`, `LatestIsCurrent`, the inductive invariant; `StrategyStore` implements `EditHistory` |
| `store_disturbed` | 1 strategy, padded dates, 2 signal types, 3 ids, deletions and clock too | `EditIsLatest`, `SignalKept` |
| `store_padded_date` | 1 padded date, no failure | **violated** `OneVersionPerEdit` (finding 1) |
| `journal_links` | 1 order, 3 states of it under either of 2 strategies or none, 3 ids, failures, deletions | `LinkSound`, `LinkNeverOlder`, `TradesKept`, `ReasonNamesCode` |
| `journal_relink` | 1 order, 1 strategy, no failure | **violated** `LinkFixedAtExecution` (finding 2) |
| `session_loops` | 2 strategies, 2 orders, 2 schemas, any two known at a time, every `servers.modules`, queue of 2, failing statements, crashes, a client that does not connect or stops, other sessions; symmetric | `StrategiesFollowServer`, `JournalFollowsServer`, `ParametersFollowSchema` with loops that are cut short; `SyncLinksOrders`; `ModulesOffWriteNothing` |
| `session_stores` | 1 strategy, 1 order whose reports name it or none, 2 edits, failing statements, crashes, missing snapshots, deletions, clock, removals | `Session` implements `StrategyStore` and `OrderStore`; `JournalGoesForward`, `LinkIsLatestWhenWritten` |
| `session_live` | no failure, fair thread | every executed trade and every edit arrives |
| `session_lost_trade` | the server removes orders, fair thread | **violated** `UpdatedTradesReachJournal` (finding 3) |
| `settings` | 3 sessions, 3 contents of the table (one empty), TTL of 2, 5 ticks | `ChangesApply`, `OneRefreshPerTTL`, `CacheGoesForward`, `GetReturns` and the inductive invariant |
| `parameters` | 3 sessions, 2 fields, 3 schemas (two orders, two groups), a curator, failures, crashes | `Parameters` implements `ParameterTable`; `NoDeadlockInOneOrder`, `CallsEnd` and the inductive invariant |
| `ingester` | 2 servers, any earlier database, every error, crashes at any point | `ScriptsApply`, `ReadyWhenServing`, `StartKeepsData`, `AllServersOrNone`, `StartEnds` |

`session_stores` is what makes the stores' own runs count for the program:
every behaviour of the session is one of `StrategyStore!Spec` and one of
`OrderStore!Spec`, so what is checked or proved of a store on its own holds in
the session. In particular the versions that `StrategyStore` inserts and
deletes are steps that `OrderStore`'s environment allows.

**Bounds.** Two versions are the least for "an edit", three for an edit, its
successor and a repetition of the first. Two strategies show what one does to
the other (lookups without their condition, loops cut short). One order is
enough for links, two for loops. A queue of two (`MaxQueue`) lets a second
change pass between an event and its handler; what comes later is a repetition.
`MaxKnown` bounds the strategies, orders and schemas a server has at a time: with two, every
pair of things that may be in each other's way is there. `MaxVersionId` bounds
the sequence of ids. `session_loops` has one edit date: there a strategy's version is
the first or is missing, and what later edits do is left to `session_stores`,
`session_live` and the theorem `VersionsFollowed`.
`settings` needs a holder of the mutex and two that wait for it, for a waiting
session to be overtaken; `MaxTime` is two TTLs and a tick, enough for a
successful refresh, a failed one, and an attempt after it. In `parameters` two
fields are the least that can be written in two orders, and the third session
writes a row the others are waiting for. In `ingester` one server is spawned
and the other is not yet, or is not to be ingested from.

**Deadlock** is checked in every run but `session_live` and
`session_lost_trade`: there the server has finite progress to make, and the
session then rightly waits.

**Fairness.**

- `Session`: `WF_vars(Thread)`, the thread is not held up for ever. It waits
  for one thing at a time, the answer of a statement or an event with a
  timeout, and the channel keeps order. Nothing is assumed of the server, the
  operator or failures. `ExecutedTradesReachJournal` and `EditsReachHistory`
  are stated for a process that is not killed and statements that do not fail:
  after a failure the code does not retry, so nothing could be promised.
- `Settings`: a holder of the mutex goes on (the connection is answered or
  fails), and a mutex that is and stays free is taken by one who waits for it
  (both weak). No more: `std::sync::Mutex` is not fair, and a session does not
  pause between two calls of `get` while events are queued
  (`recv_event_timeout` returns at once, `session.rs:59`). So one session may be
  passed over again and again; `GetReturns` says that this is the only way to
  wait for ever, since then others go on getting their values.
- `Parameters`: statements that wait for a row get it in the end (strong:
  PostgreSQL queues them), a commit is answered and a deadlock is found (weak).
- `Ingester`: `main` goes on (weak). A thread need not end, nothing need fail,
  and the process need not be started again.

## 4. Findings

1. **A date with white space after it is recorded for ever.**
   `strategies.rs:129` trims the date of the snapshot, `strategies.rs:99`
   parses the stored one as it is. The stored one never parses, so every event
   adds a version, against `strategies.rs:5-6`.
2. **An executed order does not keep its version.** `orders.rs:19` looks up the
   latest version on every report and `orders.rs:444` overwrites the link;
   `migrations/005:4-5` promises the version at the moment of execution. Lines
   8-9 of the same comment describe what the code does.
3. **A trade can be lost without any failure.** The Updated handler
   (`session.rs:168-169`) reads the snapshot when it runs; an order that was
   removed since is passed over, against `session.rs:162-165`.

Met while modelling, and not refuted by a run, since they are about what the
code leaves out or no doc says otherwise:

- A row of `orders` may be linked to a version of a strategy it does not name:
  `strategy_id` is overwritten by each report (`orders.rs:359`), and a lookup
  that finds nothing leaves the link as it was (`orders.rs:444`). A report that names
  another strategy without a version, or none, leaves such a link behind.
  `LinkSound` says that there is no other way to one, `OwnLinks` that there is
  none if the reports of an order name one strategy.
- `migrations/008` drops the columns `min_value`, `max_value` and `step`, which
  `migrations/006:25-28` gave to the curator, with what he had put there.
  `StartKeepsData` makes that exception, and says that it happens once.
- Rows of `app_settings`, `modules` and `parameters` that an operator deletes
  are inserted again by the next start (`ON CONFLICT DO NOTHING` of 001 and 006).
- The table `parameters` holds, of a field that two servers announce, what the
  last of them to write said (but for the group): `ParametersFollowSchema` has
  to allow the schema of another session.
- `settings.rs:3` says that a value is read at most once per `CACHE_TTL`.
  While the cache is empty, with an empty table or a database that has been down since
  the start, every call opens a connection (`settings.rs:52`);
  `OneRefreshPerTTL` is stated for a cache that is not.
- `README.md:113` says that changes apply after about 60 s. After a refresh
  that failed it is a TTL more, for each failure (`settings.rs:63`, `:79`);
  `ChangesApply` has that term.
- `README.md:109` says that `orders_sync_on_snapshot` deletes absent orders.
  The setting is read nowhere, the handler (`session.rs:197-214`) only upserts,
  and the comments there say that this is meant. `TradesKept` is what holds.
- The quick start of `README.md` inserts into `servers` (step 5) before the
  first start has created the table (step 6).

## 5. What is proved

For every value of the constants that satisfies the named assumptions (None is
neither a date nor a number nor a row; `Leds` are texts; order states are
records of numbers and a strategy or none; the states of `Progress` are of the
types they are used with: `StoresAssumption`). TLC evaluates the assumptions on the
instances. Some theorems have a hypothesis about the server or the failures,
which is named in the theorem and below, with what goes wrong without it.

Eight modules hold theorems. `TypeCorrect`, where it is there, says that the type
invariant of its module holds; that of `Session` needs more to be inductive
(5.3), the others are inductive as they stand.

### 5.1 StrategyStoreProofs

With every failure (statements, crashes, deletions, clock):

- `TypeCorrect`.
- `SignalIsKept`: only `UpsertRow` writes the column, by a COALESCE.
- `UniqueDates`: the only row that is added has a date none of its strategy has.
- `EditIsLatestUnlessFuture`: the step that ends a call in Ok has left the edit
  of its snapshot as the latest version, or there was a version from the future
  of the database's clock. It needs no invariant but the types: an edit that is
  not inserted is the one that was read, and a row that is inserted is later
  than all that are not from the future.

Under `Undisturbed` (no padded dates, no deletions, clock not set back: finding 1 is what a
padded date does, a deletion can put an edit next to a repetition of it, and a
clock that is set back lets a row be inserted before others):

- `HistoryInvariant`: `HistoryInv` is inductive given the types and unique dates.
  `OneVersionPerEdit` alone is not: a call that is about to insert has decided
  long ago. What carries it over is `InsertIsNewEdit`, that the decision is
  still right, which holds because only the call itself inserts; and
  `RowsArePast`, that the new row will be the latest. The core of the step is that
  after an insertion the latest row is the inserted one (`LatestOfNewer`), which
  rests on `GreatestExists`: a bounded non-empty set of numbers has a greatest,
  from the well-foundedness of `<`.
- `NewVersionOnlyForEdit`, `EditNotPassedOver`: the two halves of the contract.
- `StoreImplementsHistory`: the refinement. `InsertVersion` is `Record`, every
  other step is a stutter; the number of rows is their cardinality.

### 5.2 OrderStoreProofs

With every failure:

- `TypeCorrect`, with `RowsArePast` (`TypesAndBounds`): a lookup returns an id.
- `LinkInvariant`: a call about to write holds an id that was right when it was
  looked up. `LinkInv` says that ids are given out once, that this id belongs to
  the strategy of the report or to nobody any more, and that no link is to an id
  still to be given out; the foreign key then makes the written link sound.
- `LinksAreSound`: a link that is set or moved is to an existing version of the
  strategy the same report names, and one to another strategy is only left
  behind, by a report that names another strategy than the row.
- `OwnLinks`, when the reports of an order name one strategy
  (`ReportsKeepStrategy`, which the code does not see to): every link is to an
  existing version of the order's own strategy.
- `LinksGoForward`, when the clock is not set back: `OrderInv` (theorem
  `OrderInvariant`) adds that ids are in the order of dates and that a call
  about to write is not behind the link.
- `TradesStay`: a step writes a row by `Merged` or unlinks it, and neither takes
  a reason or a time away.
- `ReasonInvariant`: `ReasonNamesCode` is inductive: the merged row has the text
  of the new code, or the new code is 0.

### 5.3 SessionProofs

Under every failure: `StrategyStoreImplemented` and `OrderStoreImplemented`.
Every step of a session is a step of each store or leaves it alone. The first
rests on `WorkTyped`: what the loops upsert comes from a snapshot of well-typed
strategies. The second needs that the versions the session writes are ones
`OrderStore`'s environment may add: `VersionsDriven` says that the clock is
behind the sequence of ids, and ahead of all versions unless it may be set back.
So the theorems of 5.1 and 5.2 hold of every session. That last step is an
argument on paper: `tlapm` 1.4.5 cannot cite a theorem of an instantiated
module. Where a proof below needs one of those facts in the session, it is
therefore proved again of the session's steps (`TablesInvariant`).

All safety properties of the session are theorems. None of them is inductive: each says
what holds when nothing is under way, and what is under way is in four places,
the events that have been sent, the work of the loop at hand, the call that is
between two statements, and what was given up. `SessionInvariants` has the
strengthenings, in a chain where each is inductive given those before it
(`Typed`, the first, is in `SessionProofs`):

| invariant | says | carries |
|---|---|---|
| `Typed` | types, of the queue and the work as well, and `VersionsDriven` | `TypeCorrect` |
| `TablesInv` | ids are given out once; a held id is of the strategy of the report | `LinkedToLatest` |
| `LoopInv` | the work is what the client's snapshot held, each item once, of modules that are on; a call is for an item of the work, and for an order only when no strategy is left | `OnlyModulesOnWrite`, and all below |
| `ForwardInv` | row, work and live order are in this order of status | `JournalForward` |
| `HeldVersionIsLatest` | the version a call holds is the latest still, or deleted | `LinkedToLatest` |
| `SchemaInv` | the schema is in the table, or another session's is, or its event is in the queue, or it was given up | `SchemaFollowed` |
| `JournalInv` | an executed order is in its row as the client has it, or in the work, or its event is in the queue, or it was given up; an item of the work that is behind the client has an event in the queue | `JournalFollowed` |
| `StrategyRowsInv` | the same of strategies and their rows | `RowsFollowed` |
| `StrategyVersionsInv` | the same of strategies and their latest versions | `VersionsFollowed` |
| `SyncInv` | in `initial_sync` a strategy of the table has a version or is still to be written | `SyncLinked` |

The core of `JournalInv` and `StrategyRowsInv` is the race of 1.3: the snapshot
is taken when the handler begins, the client goes on meanwhile, and an item
that was written is then out of date. It is not lost because whatever the
client changes after the snapshot was taken has put an event behind it
(`OrderWorkIsLive`, `StrategyWorkIsLive`), and an event leaves the queue only
to become work, or to be counted in `missed`. `WorkIsSingle` is what makes the
end of one call leave no second, older item of the same order behind.
`StrategyTraced` is that argument once for both halves of
`StrategiesFollowServer`, which are stated apart because they need different
things: `RowsFollowServer` holds under every failure and deletion, with any
clock and with edits that have no date, `VersionsFollowServer` of edits that
have one. `HeldVersionIsLatest` is why the two statements of `orders::upsert`
are not a race in this program although they are one in `OrderStore`: versions
are inserted by the same thread, and `OrderCallIsWork` says that none is left
to be.

Hypotheses, and what goes wrong without them:

- `OrdersAppearOpen` (`JournalFollowed`): an order is listed before it is
  executed. The handler ignores `Created` because, as the comment at
  `session.rs:164-165` has it, an Updated follows when the order reaches
  BuyDone; an order that appears executed would wait for its next change.
- `OrdersGoForward` (`JournalForward`): the server does not take an order back
  to an earlier status. The code writes whatever status it is shown.
- `EditsAreDated` (`StrategiesFollowed`, `SyncLinked`): an edit has a
  `LastEditDate` the code can read. One without is not made a version
  (`strategies.rs:104`).
- no deleted versions and no clock set back (`VersionsFollowed`,
  `StrategiesFollowed`), no deleted versions (`SyncLinked`): nothing restores a
  version an operator deletes until the strategy is upserted again, and a row
  inserted with a date before others is not the latest. Failures, crashes, and
  removed orders are allowed.

Before each was proved, TLC checked it: `TypeOK`, `TablesInv`, `LoopInv`,
`ForwardInv`, `HeldVersionIsLatest`, `SchemaInv` and `JournalInv` as invariants
on the instances of `session_loops` (3.9 million states) and `session_stores`
(2.5 million), `StrategyRowsInv` and `RowsFollowServer` too, and
`StrategyVersionsInv`, `VersionsFollowServer` and `SyncInv` on the former,
which has no deletions and no clock that is set back. `MCSession` asserts the
three hypotheses about the server, so that each run of `Session` shows that its
instance satisfies them.

### 5.4 ParametersProofs

For any number of sessions, names and schemas, under every failure:

- `RowsInvariant`: `RowsInv` says that fields are written in order, that a row is
  written by one transaction at a time, and that what was written is the field
  on top of the row *as committed now*. The last is what makes a transaction of
  several statements look like one: it holds because a locked row is changed by
  nobody else.
- `TableImplemented`: `Commit` is then `Apply`, the curator is himself, every
  other step is a stutter.
- `NoDeadlock`: if the schemas that are being written list their fields in one
  order, the transaction of a circle that waits for the row of the greatest rank
  waits for nobody in the circle (`OneOrderNoCircle`, `GreatestExists`).

### 5.5 SettingsProofs

For any number of sessions, any contents and any TTL: `SettingsInvariant`, with the mutual
exclusion and that each picture of the table was right when it was read; from
it `ChangesApplyInTime`, `RefreshesAreRare`, `NoOldPicture`.

### 5.6 IngesterProofs

For any database whatever, any servers and under every failure: `StartInv` says
what the scripts that were applied have left behind (`Prepared`: the tables and
columns of each, from which a later one takes nothing away but the limits) and
that threads run only after all of them. From it `StartNotBlocked`,
`ServesWhenReady`, `DataKept`; the last with the exception of 008 (section 4), and
with the promise that `Limits`, once dropped, stays away. Their proofs do not use what database the process finds: any set of
columns will do.

`TypeCorrect` does: the database an earlier release has left is `Released(old)`,
a recursive function over the scripts. Without induction over data it is
unfolded by hand (`ReleasedUnfolds`): there are eight scripts, so the function
is written down and shown to satisfy the recursion, and each script makes
columns of columns (`MigratedColumns`).

`NoServerLeftOut`: `AllServersOrNone` needs `TodoInv`, that only the loop over
the servers has servers left to spawn, besides the types.

### 5.7 What is only model-checked

Liveness under fairness, for which the prover has no rules here:
`ExecutedTradesReachJournal`, `EditsReachHistory`, `GetReturns`, `CallsEnd`,
`StartEnds`. Every invariant and every action property a
passing run checks, and every refinement, is a theorem; what the runs add to
them is that the hypotheses can be met and the interesting states are reached.

## 6. What is not modelled

- A client snapshot that is still being filled after a connection: `MoonRuntime`
  takes the client's snapshot for the state of the server, and what has not yet
  arrived as not yet happened. Connecting (`MoonClient::connect` with an init
  config) is taken to return with a filled snapshot or none.
- Strategies deleted on the server, and edits that lower the date.
- A database connection that is lost for good: statements fail one by one, any
  number of them.
- Two processes on one database: nothing in the code or its docs says what they
  would do to each other. Several sessions of one process meet in `Parameters`
  and `Settings`, and in `strategies` and `orders` not at all, since these are
  keyed by server.
- Deletion of a server by an operator, which cascades to its rows while its
  session runs.
- A database of a later release than the code.
- Columns that are copied unchanged, the texts and numeric widths of
  conversions (`applicable_types`, `param_type`, picklists, defaults), indices,
  logging, the TOML file: none has control flow that a property could be about.

## 7. Plan

1. Done: the stores with their abstract specifications, the client, the
   session, the parameters, the settings cache, the process with its scripts,
   and the theorems of section 5.
   The safety of the session is proved, in part under hypotheses that are the
   server's and the operator's.
2. What a next step could prove: facts about the conversions for all numbers;
   that the abstract specifications promise what their readers use
   (`EditHistory`, `ParameterTable`).
3. What a next step could model: a snapshot that is being filled and deletion of
   strategies in `MoonRuntime`, once the library documents what it promises;
   conversions as functions with a reference definition.

## 8. Running

```
tlc -config store_edits.cfg MCStrategyStore
tlc -config journal_links.cfg MCOrderStore
tlc -config session_loops.cfg MCSession
tlc -config settings.cfg MCSettings
tlc -config parameters.cfg MCParameters
tlc -config ingester.cfg MCIngester
tlapm SessionProofs.tla
```

Each run takes between a second and a few minutes on two cores; `session_loops`
is the largest.
