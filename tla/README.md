# Verification of the indexer

TLA+ models of the Algorand indexer, the TLC configurations that check them on
small instances, and TLAPS proofs that hold for every instance. The Go code
under `src/` is the reference; comments in the modules name the functions.

## The system and its parts

The indexer keeps a PostgreSQL copy of the Algorand chain. A *writer* process
(Conduit, which is outside this repository) opens the database, calls
`EnsureInitialImport`, then `AddBlock` for one block after another, and
`DeleteTransactions` to prune. *Reader* processes (`algorand-indexer daemon`) open
it read-only and answer REST queries, one goroutine tree per request. Writers and
readers meet only in the database.

| part | code | module | state |
| --- | --- | --- | --- |
| block import | `idb/postgres/postgres.go`, `util/util.go` | `BlockImport`, implements `ImportLedger` | modelled |
| opening and migrating a database | `idb/migration`, `postgres_migrations.go` | `Migration` | modelled |
| account writer | `internal/writer/writer.go` | `AccountTables` | partly |
| transaction writer | `write_txn.go`, `write_txn_participation.go` | `TxnTable` | partly |
| transaction search, pages | `postgres.go`, `idb.go`, `api/handlers.go` | `TxnSearch` (extends `TxnTable`) | partly |
| account rewind | `accounting/rewind.go` | `Rewind` | partly |
| request goroutines, timeout, read pool | `api/util.go`, `handlers.go`, `postgres.go` | `ApiFetch` | partly |
| searches and look-ups of accounts, assets, applications, boxes, headers | `postgres.go`, `idb.go`, `handlers.go` | `ResourceTables`, `ResourceQueries`, `ResourceSearch` | modelled |
| parameter binding and validation, disabled parameters | `routes.go`, `handlers.go`, `converter_utils.go`, `disabled_parameters.go`, `api_config.go` | `ApiParams`, `DisabledParams`, `ApiHandlers` | modelled |
| server, middlewares, shut-down | `api/server.go`, `api/middlewares` | `Daemon` | partly |
| daemon start-up, configuration | `cmd/algorand-indexer`, `config`, `util/pidfile.go` | `Daemon` | partly |
| account conversion migration | `convert_account_data/m.go` | `ConvertAccountData`, a handler of `Migration` | modelled |
| validator | `cmd/validator/core` | `AccountDiff`, `Validator` | partly |
| response conversion | `api/converter_utils.go` | filters only | partly |
| minimum balance, row encoding, metrics, logging, test doubles | | | not modelled |

`PROJECT.json` lists the same parts with their files, the source lines behind each
definition (`map`), and the hazards each property is meant to catch.

## Modules

**`ImportLedger`** is the abstract promise of the import: blocks are accounted one
at a time, in order, and header, account changes and transactions become
readable in the same step; pruning takes the oldest first.

**`BlockImport`** has callers in processes. `lock` is `accountingLock`, `pc` the place in
`AddBlock` or `EnsureInitialImport`, `snap` the snapshot of the serializable outer
transaction, `inner` the goroutine with its own transaction. Tables are sets of
rounds (`headers`, `txns`), a sequence of applied blocks (`accounted`) and the
metastate rows `next`, `network`, `oldest`. Postgres is modelled by what the code
relies on: snapshots, row locks, serialization failures, unique keys. A statement
may fail, a commit may take effect although an error is reported, a process may
crash. A `COMMIT` still executing when its client dies is taken to have effect
before the crash or not at all. `acked` and `horizon` are history.

**`Migration`** has processes that open one database: `isSetup`, the setup SQL,
`markMigrationsAsDone`, the runner's loop with its `blocking` flag and channel, and
`Health`. Each process advances its own copy `mem` of the state (the code keeps it
in memory), which may be stale. A call that takes effect and returns an error is
a crash after it. The final task 9999999 is `MarkDone`.

**`AccountTables`** compares rows with history. `Transact` is the chain's evaluator
(external); the delta holds the final state of every touched object, and the
sender is always touched. `AddBlock` writes one row per touched object with the
upsert and delete statements, whose column lists decide what becomes of
`created_at`, `closed_at` and `keytype`. A resource record describes a param and a
holding together, so an untouched partner may be rewritten (`Carried`).

**`TxnTable`** numbers a block's transaction trees twice, as `yieldTransactions` and
`AddTransactionParticipation` do. **`TxnSearch`** adds blocks and a client that
follows next tokens; one bit per transaction says whether it matches.

**`Rewind`** reads an account in one snapshot and its transactions in another, with
blocks and pruning in between, and undoes them in `uint64` arithmetic (`% 2^Width`).
`ledger` records true balances. One transaction per block, one asset. The loop over the
rows, newest first, is a recursive function of the round (`Rewound`); what a transaction
does to balances is the chain's evaluator, which refuses what overspends or overflows.

**`ApiFetch`** has `callWithTimeout`, the handler, the goroutine that sends rows and a
pool of connections. A request is an account search with or without a rewind, a page
of transactions that a next token asks for, which may take two queries, or another
search. The context ends by its deadline, by the client or because the server is told
to stop (its base context is the daemon's). `got` counts rows dealt with, including
special accounts that a rewinding search leaves out.

**`ConvertAccountData`** is the migration that counts every live account's live
holdings, assets, applications and local states, in batches ordered by address;
`Migration` runs it as the handler of one entry, and `ImportBlock` changes rows in
between. The batches share one transaction and so are one step.

**`ResourceTables`** holds the rows that the other searches read and what a block does
to them, deleted rows included. **`ResourceQueries`** has one operator per query
builder of `postgres.go`: the set of keys the query returns, with its filters, join
semantics and `LIMIT`. **`ResourceSearch`** has the handlers. A request takes the
statements of its repeatable read transaction one by one (round, header, resource
limit, rows) and blocks commit in between. `snap` is the snapshot, `seen` what
earlier pages gave; `always` is history: what has matched since the walk began.

**`ApiParams`** says what the wrappers in `routes.go` bind and what makes binding
fail. **`DisabledParams`** translates `disabled_parameters.go`: the default map, files
in display form, their validation, and the map used at run time. **`ApiHandlers`**
gives each handler as the ordered list of its checks, delegation included: the first
that fails decides the status, and none means `Query`. Paths are written as the routes
write them (`:account-id`) also in configurations, which write `{account-id}`. Values are classes (malformed, undecodable, empty, or a number against
`MaxInt64`). **`Daemon`** composes them: `runDaemon` step by step with its defers, the
server's goroutine, the goroutine that waits for a signal, and a request on its way
through migration middleware, authorisation, wrapper and handler.

**`AccountDiff`** is how the validator's two processors compare answers, and
**`Validator`** its goroutines: the reader, the workers with their retries, both
bounded channels, the printer and the exit code, while algod and the indexer move on.
What the indexer answers (`Shown`) is a constant, any answer at any round; `Right` is
the answer of an indexer without faults. Reading may fail within a line (`ScanFails`),
which gives up the line or leaves a part of it.

Each state machine has an `MC` module with the values its configurations use.

## Runs

Passing runs:

| run | shows |
| --- | --- |
| `import_rivals` | Two processes with different genesis files initialise one database, import and prune, with a failure or crash: one network wins and the other process is refused (`EnsuredNetwork`); blocks are accounted once and in order, transactions are never behind and ahead by one round at most, a round is acknowledged once, and all this implements `ImportLedger` (`LedgerSpec`). `AddBlock` does not look at the network, so both rivals go on to offer blocks. |
| `import_progress` | Two callers of one process, on a new database or one without a network row, with two connections: every call returns, pruned rounds stay gone. |
| `migrate` | The stored state is true of the schema, a once-only change is never due again, queries pass only on a migrated schema, the channel is closed once, whoever is let in reads converted totals (`TotalsConverted`); restarts after errors and crashes lead to an available database. |
| `tables` | Rows, `created_at`, `closed_at` of deleted rows and `keytype` are those of the ledger's history. |
| `txn_pages` | `txn` and `txn_participation` agree; paging in either order gives every match once and misses none, while blocks arrive. |
| `rewind` | Rewound amounts are the historical ones, outside the shapes named in `Misread`. |
| `fetch` | A success is complete, unless a page of transactions was cancelled between its queries; rollback precedes the cancelling of the context, every request is answered, every connection returns. |
| `list_pages` | For every list endpoint but transactions, and every look-up: what matches throughout a walk is returned and nothing twice, each page is the state of the one round it names and within the limit, resource limits hold of what is shown, pending rewards never wrap, look-ups find exactly what exists, walks end. |
| `server` | The pid file follows `runDaemon`; what `api-config` prints loads back to the same restrictions; only allowed (`QueriesAllowed`) and meaningful (`QueriesMakeSense`) requests reach the database; a caught signal ends the daemon. |
| `validator` | Of answers of one round, those called equal agree with algod (`Agrees`) and right ones are called equal; the exit code tells of every difference, error and lost or repeated line among those read; the program ends. |

Runs that show a disagreement between the code and what its comments say
(`findings` quotes both):

| run | the code |
| --- | --- |
| `txn_log_pages` | A page of logs that ends inside a root skips the root's other inner logs. |
| `rewind_close` | The receiver of a closing payment is credited with the closing amount. |

Further disagreements met while modelling, which no run shows. A property that
excepts one of them says so in its comment.

Import, migration, rewind:
- A crash between the setup SQL (`postgres.go:158`) and `markMigrationsAsDone` leaves a
  new database that every later start refuses as too old.
- `DeleteTransactions(keep)` deletes the rounds below `keep`; its comment
  (`postgres.go:2917`) calls it the number of rounds to keep.
- An account closed and funded again in one block has no `closed_at` for it, which
  the schema (`setup_postgres.sql:50`) calls the round it was last closed.
- An account read at round 0 is rewound by later blocks: `MaxRound = 0` is no bound
  (`rewind.go:99`, `postgres.go:519`).
- The clawback address is credited with what it clawed back (`rewind.go:156`), and
  pruned rounds are not undone and not noticed (`rewind.go:104`).
- A rewind with `exclude=assets` appends holdings to the list that was left out
  (`rewind.go:38`).

Searches and parameters:
- `limit=0` is a query without limit (`converter_utils.go:916`, `daemon.go:90`), except for
  headers, where it is `LIMIT 0`.
- A rewinding account search whose page holds only special accounts has no next
  token (`handlers.go:487`), so the walk ends early.
- `SearchForAccounts` by asset or application, without `include-all`, returns accounts
  whose holding or local state is deleted.
- An empty box name finds a "box" in every application (`handlers.go:658`).
- `max-account-list-size` 0 means no limit (`daemon.go:87`); the check
  (`converter_utils.go:1032`) then refuses every list.
- A delegating handler's parameters are checked again for the inner endpoint, so a
  parameter disabled for `/v2/transactions` is refused on an account's too.
- A page of transactions whose context is cancelled between its two queries ends without
  an error (`postgres.go:893`). While a stopping server still answers, such a page is a
  success with rows missing; `SuccessIsComplete` excepts it.
- An undecodable next token of a transaction search is answered with 500.

Daemon and validator:
- A supplied API config file with `enable-all-parameters` is refused
  (`daemon.go:175`); one found in the data directory is accepted and wins.
- `log.Fatal`, and a signal before `signal.Notify`, leave the pid file behind, although
  exits are meant to honour defers (`main.go:26`). After a signal, `StartServer`
  returns `ErrServerClosed`, and its `log.Fatalf` (`server.go:180`) races with them.
- `val == 0` (`dynamic_processor.go:165`) compares an interface holding a decoded number
  with an `int` and is never true, so an unused account is not recognised.
- Accounts of amount 0 in algod are never compared (`struct_processor.go:86`).
- Tolerances of `equals` that `Agrees` names: the own address passes for any auth
  address, also one algod still has (`struct_processor.go:115`), and rewards may lack the
  pending ones (line 123). Fields listed at line 93 are not compared at all.
- `scanner.Err()` is not asked for (`command.go:124`): after a line that is too long, or an
  error of reading, the rest of the input is not compared and the exit code may be 0.
- `--threads 0` ends with exit code 0 and compares nothing.

`TypeOK` documents the variables of each state machine. Where there is a `...Proofs`
module it is proved there; no run lists it.

## Bounds

- Import: two callers, blocks 0 to 2, both later ones with transactions, one
  fault. One retry after a failure, and a rival at each step, need no more; the
  proofs remove these bounds. `import_progress` has one block and `MaxConn = 2`.
  With `MaxConn = 1` the goroutine never gets a connection; the model assumes two
  or more. The pruner asks only for accounted rounds, `keep <= next`.
- Migration: five entries that stand for the kinds in the table (unsupported with
  and without the blocking flag, once-only, repeatable), two writers and a
  reader, two faults: enough for a stale copy to be written back twice.
- Tables: two accounts, an asset, a holding that shares its record, a box; two
  rounds of three transactions: made, changed, removed and made again within a
  block and over blocks, an account funded again by the other.
- Transactions: 17 paysets (empty, or two of four trees with up to two inner
  transactions or nesting of depth two) with no payout or one that matches or
  not, over two rounds, limits 0 to 3 against a maximum of 2: a page ends inside a
  root, between roots and between rounds.
- Rewind: three users (sender, receiver and close-to differ), three rounds
  (create, opt in, transfer), and 6-bit integers that wrap. A key registration,
  which costs a fee like an application call, is left out.
- Requests: two account searches, with or without a rewind, or pages of transactions
  (any other search is a page that is not cut), and two connections, so that two rewinding
  searches exhaust the pool and each wants one more; two rows, so that the
  sending goroutine blocks on a full channel.
- Lists: three addresses, ids and names, pages of at most two, so that a walk has
  two pages; one block, which may come between any two statements or pages;
  databases whose rows are missing, live or deleted; a resource limit of one.
- Server: settings that fail at each step or reach serving, and one request, which
  deviates from a plain one in one parameter or in two that a handler looks at
  together; requests meet only through the options, which do not change.
  `MaxInt64 = 3` and `MaxUint64 = 5` are stand-ins.
- Validator: two workers, up to three lines, channels of one (so both fill), one
  retry, two rounds: the indexer is behind, level or ahead. Accounts and boxes are
  shown rightly, with a wrong amount, a resource missing or kept as live, or the own
  address for another.
- Conversion: batches smaller than the number of accounts.

Symmetry is used only in runs without liveness: over the users of `rewind`, and
over the accounts and the contents in `tables`, which are all configured alike.
Deadlock is not checked where a client, a daemon or a program may be finished.

## Fairness

- `BlockImport`: strong fairness of a caller's steps and its goroutine's. The Go
  scheduler runs goroutines, `sync.Mutex` and the pool hand over in turn, and the
  server grants row locks in turn. Faults and crashes are never fair.
- `Migration`: weak fairness of a process's steps, and of being restarted when it
  is down or its runner halted, which an operator or supervisor does.
- `ApiFetch`: weak fairness of every goroutine and of the deadline. An error of
  `BeginTx` is certain only once the context has ended: with a live context it
  may wait for a connection as long as others hold them. This is why the handler
  timeout, and not the pool, is what answers the requests in `fetch`. Nothing makes
  a page stop between its queries.
- `ResourceSearch`: weak fairness of the request's steps; blocks are not fair.
- `Daemon`: weak fairness of `runDaemon`, the server's goroutine, the handling of a
  signal that was sent, and a request's goroutine. Signals are not fair.
- `Validator`: weak fairness of every goroutine, since each either runs or waits for
  a channel. That HTTP calls return is an assumption about algod and the indexer: the
  default client has no timeout. `Interrupt` and `ScanFails` are not fair.

## Proofs

Each `...Proofs` module proves an inductive invariant `IInv`, with one lemma per
action, and reads the properties off it. TLC checked each `IInv` on the run's instance
before it was proved (that of `Rewind` on a smaller one, two rounds of 4-bit integers). `Spec` is always the module's own; liveness plays no part.

| module | theorem | property |
| --- | --- | --- |
| `BlockImportProofs` | `BlocksAccountedExactlyOnce`, `TxnsAheadNotBehind`, `TxnsAheadByOneRound`, `BlocksAcknowledgedOnce`, `EnsuredMeansSameNetwork`, `PrunedRoundsStayGone` | `AccountedExactlyOnce`, `TxnsNeverBehind`, `TxnsAheadByOne`, `AcknowledgedOnce`, `EnsuredNetwork`, `PrunedStaysGone` |
| | `NetworkNeverChanges`, `ImplementsLedger` | `NetworkPinned` (an action property), `LedgerSpec` (the refinement) |
| `AccountTablesProofs` | `LiveRowsMatchLedger`, `CreatedAtMatchesHistory`, `ClosedAtMatchesHistory`, `KeytypeMatchesHistory` | `LiveRowsAreLedger`, `CreatedAtIsFirst`, `DeletedAtLastClosing`, `KeytypeIsLastSignature` |
| `MigrationProofs` | `StateNeverAhead`, `OnceOnlyOnce`, `AvailableMeansMigrated`, `AvailableMeansConverted`, `ChannelClosedOnce` | `StoredIsApplied`, `OnceNotDueAgain`, `AvailableIsMigrated`, `TotalsConverted`, `ClosedOnce` |
| | `BatchesConvertEveryAccount` | about the operator `RunMigration` |
| `ApiFetchProofs` | `SuccessMeansComplete`, `CancelFollowsRollback` | `SuccessIsComplete`, `RolledBackBeforeCancel` |
| `ResourceSearchProofs` | `WalksMissNothing`, `PagesDoNotRepeat`, `PagesAreOfTheirRound`, `LookupsAreRight`, `AccountsAreWithinLimits` | `NothingMissed`, `NoRepeats`, `PageIsOfItsRound`, `LookupsFind`, `AccountsWithinLimits` |
| `ValidatorProofs` | `ExitCodeIsRight`, `VerdictsAreRight` | `ExitCodeTells`, `VerdictsRight` |
| `RewindProofs` | `RewindsToHistory` | `RewoundIsHistorical` |
| `DaemonProofs` | `PidFileFollows`, `DisplaysRoundTrip`, `QueriesAreAllowed`, `QueriesDoMakeSense` | `PidFileFollowsProcess`, `DisplayRoundTrips`, `QueriesAllowed`, `QueriesMakeSense` |

Type correctness (`TypeOK`) is proved in the same modules. Where a proof would go by
induction it takes the least counterexample instead (`WFMin` over the naturals).

### Import

For any callers, processes, rounds and faults. The properties are not inductive: that a commit appends the right block
depends on who holds the row lock. `IInv` adds
- `GenesisLoaded`: the account rows of genesis exist exactly when the import state does;
- `Checked`: what a call that is past a check may rely on;
- `RowLock`: at most one caller is past the upsert, and its round is `next`;
- `Goroutine`: when the outer transaction is past `wg.Wait`, the rows of its round are committed.

`PrunedStaysGone` needs `OneProcess` (all callers share one `accountingLock`), which is
how an importer runs: with two processes the goroutine of a call that lost the race
may still commit rows of a round that was pruned since. Under it `PruneInv` adds that
whoever is between `Lock` and `Unlock` holds the lock, and that a goroutine still
running works on round `next`.

Assumptions:
`ProcAssumption` and `BoundsAssumption` (types), `AllocationAssumption` (a genesis
file funds an account; it makes the second import of a genesis fail on its first
row), and `LegacyAssumption` (a database without a network row is opened for one
network; `checkGenesisHash` reads and sets that row without a transaction).

### Account tables

For any objects, contents and chain. The properties speak of the time between two blocks; `IInv` says what
holds within one: rows of untouched objects are up to date (`Settled`), touched
ones carry what `AddBlock` needs (`Pending`), and the pending signature is the last
one (`SignatureOK`). `TablesAssumption` gives types and keeps boxes, whose rows
have no history, apart from the other objects.

### Migration

For any table, processes, accounts and batch size. `IInv` says of the database that
changes are made in order, so that no process runs an entry whose successor was run
before it (`SchemaInv`); of the accounts that what was never live owns nothing and
totals are right from the conversion on (`AccountInv`); and of each runner that every
entry before its task is in the schema, *also when another process has written an
older state back*, and so is every blocking entry behind `blockUntil` (`RunnerInv`).
The stored state alone would not do: it may fall back.

`BatchesConvertEveryAccount` shows that batches after the last address until a short
one come, together, to all live accounts: none falls between two batches, and a full
batch is not taken for the last.

`TableAssumption` and `ConvertAssumption` are types. `OrderAssumption` says of the table
what is true of `postgres_migrations.go`: the conversion blocks queries, and before an
entry whose SQL fails the second time there are only such entries and unsupported
ones. Otherwise a process with a stale copy, by finishing a repeatable entry again,
could make a later entry of that kind due again.

### Requests

For any requests, rows and connections, with or without a deadline. `IInv` counts:
while the handler reads, each row is still in the database, in the channel, in the
handler's hand or dealt with, unless an error row stands in for the rest or a page has
stopped between its queries (`CountInv`); `ConnInv` says who may hold which connection,
`CallerInv` that the context ends only when the handler is done. `FetchAssumption` is
types.

### Searches

For any tables, requests, limits and blocks. `Reading` says that within a request's
transaction everything read so far is of its snapshot, including that the resource
limit was checked on the rows that will be shown. `Walk` is what next tokens rely on:
everything that has matched throughout, up to the token, was returned, and nothing
beyond it. For each query there is a lemma that its answer is a page (the least keys
behind the token, as many as the limit, in the order of its `ORDER BY`), and for each
look-up that it finds its row exactly when the row exists. The header query works on
a window of rounds computed from times, which is right because block times never
decrease (part of `WellFormed`, kept by every block).

`KeysAssumption`, `RequestsAssumption`, `RowsAssumption` and `DatabasesAssumption` are
types, the parameters that a path always has, and `WellFormed` of the first database.
`LimitsAssumption` leaves out a configured default or maximum of 0.

### Validator

For any lines, workers, retries and capacities, any accounts and boxes, and any
answers of the indexer. `IInv` follows the lines: each one read is in a channel, with a
worker or printed, and counted once (`LinesInv`); unless reading failed, what was read
and what is left make up the input (`ReadInv`); a worker leaves only when the closed
channel is empty (`WorkerInv`), results are closed after all have left (`ClosedInv`).
`VerdictsRight` rests on lemmas about each processor: what it calls equal has algod's
amount, pending rewards and live resources, algod's auth address or the own one, and
algod's rewards with or without the pending ones (`StructEqualAgrees`,
`DynamicEqualAgrees`); the lists agree because every resource of algod's has its like
among the live ones and their numbers are the same. `CallAssumption` asks for a worker,
as the default does; `HistoryAssumption` is types, and says that neither side lists a
live resource twice and algod none that is deleted.

### Rewind

For any accounts, any chain of the modelled transactions and any width. The argument
has two parts. For each kind of transaction a lemma (`PaymentRecorded` to
`AssetClosingRecorded`) shows that undoing it gives an account's balance before it from
the balance after it, modulo `2^Width`, unless `Misread` names it; one that does not
touch the account leaves its balance alone. `LoopRewinds` puts them together: after the
rows beyond a round the account is the one of that round. The invariant keeps, for
each round of the chain, that its transaction is such a step between the recorded
balances (`ChainInv`), and of a request that it holds the balance of the round it read
(`RequestInv`), which later blocks do not change. `RewindAssumption` is types, and
that the special accounts are no users.

### Server

For any settings and requests. `PidInv` ties the pid file to the deferred removal at
every step of `runDaemon`; `OptionsInv` says that the options of a server that listens
are those of the settings and were validated, and `RequestInv` what a request has
passed when it is at a stage. `DisplayRoundTrips` then needs that a valid configuration
names known paths and parameters only, no two operations share a path, and the display
lists every restricted parameter. For the queries there are two lemmas per
handler: which checks a request has passed when the answer is `Query`, and that these
checks exclude what `QueriesMakeSense` excludes, through delegation with its changed
arguments. `QueriesAllowed` follows from the `verify` that comes first in every one.

`SettingsAssumption` and `RequestsAssumption` are types, and what the router and
the command line give: at most one API config file, a request has the parameters of
its path. `LimitsAssumption` orders the two integer limits.

A set difference after `SUBSET` or `UNION` is always parenthesised: tlapm and
SANY read it differently. The proofs take tlapm about three quarters of an hour from
nothing. A leaf that Zenon proves within a few seconds cites it: the translation for
the SMT solver gets slower with every obligation of a module and has a time limit of
five seconds, which a module with all its leaves on SMT exceeds.

## Only model-checked

- Liveness (`CallsReturn`, `EventuallyAvailable`, `EveryCallReturns`, `ConnectionsReturn`,
  `WalkEnds`, `SignalEnds`, `Terminates`), which is out of the prover's reach.
- `TablesAgree`, `NoRepeats` and `NothingMissed` of `TxnSearch`: what its `RECURSIVE`
  operators compute for trees of transactions of any depth is an induction over data.

## Limits of the models

- `ApiFetch`: in the run only account searches, whose handler drains its channel, meet
  a row they cannot convert (`Corrupt`). `fetchTransactions`, `fetchAssets` and
  `fetchBlockHeaders` return at such a row without draining, and the goroutines that
  read headers or the first query of a page go on after an undecodable one
  (`AfterError`), which leaves the goroutine and its connection blocked.
- `Rewind`: requests that exclude assets, the rewards base, participation and key
  fields are not modelled; the global `specialAccounts` cache, set without synchronisation, is taken as loaded.
- `AccountTables`: the frozen flag that a deleted holding keeps is not modelled.
- `ResourceSearch`: a row has the fields that some filter reads. Name and unit filters
  compare values, where the code matches `ILIKE '%name%'`.
- `Daemon`: of what flags, environment and files may set, only API parameters are
  followed. CORS, compression, private network headers and metrics are left out. The
  removal of the pid file always succeeds; the code logs a failure (`daemon.go:250`).
- `AccountDiff`: one amount stands for the fields compared one by one, one list for
  the four. A single address or box, given by a flag, is an input of one line.

## Not modelled

- Row encoding (`internal/encoding`): codecs over unbounded data; the repository's
  round-trip tests reach more of it than a bounded instance.
- Conversion of rows to answers (`converter_utils.go`, `fetchBlock`): field by field and
  without state; a model would repeat it and have nothing to compare it with.
- Minimum balance (`types/min_balance.go`): one sum of products, for the same reason.
- `config/datadir.go`: no command of this program calls it.
- Metrics, logging, the embedded OpenAPI text, generated model types, mocks and the
  dummy database: no behaviour of their own.
