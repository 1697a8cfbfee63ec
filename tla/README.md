# Polo: models, checks and proofs

TLA+ specifications of the ledger under `src/`, the TLC configurations that
check them on small instances, and TLAPS proofs of the properties that matter
most. Paths below are relative to the repository; `core/` stands for
`src/pkg/polo-core/src/`, `store/` for `src/internal/polo-store/src/` and
`server/` for `src/internal/polo-server/src/`.

## The system

Polo is a bitemporal ledger. A **fact** says that an attribute of an entity had
a value over an interval of valid time; it is stored under a **transaction**
with a hybrid logical timestamp, on a **branch** of a **namespace**. An HTTP
server (`polod`) exposes a `Db`, which owns a clock and delegates to a `Store`;
there are two stores, one in memory and one on SQLite.

| Component | State | Operations | What makes it correct |
|---|---|---|---|
| Clock, `core/clock.rs` | one atomic 64-bit word | `tick`, `observe`, `now`, `new` | ticks increase and differ, in every interleaving; the word never runs back |
| Db, `core/db.rs` | the clock, the store | `record`, `bulk_record`, `retract`, `asof`, `effective`, `history`, branches, `merge`, `gc`, `apply_retention`, tags | timestamps tell transactions apart; a fact is only ever retracted; retries are answered alike |
| MemoryStore, `store/memory.rs` | facts, transactions, branches, namespaces, idempotency cache, tags, under one lock | the `Store` trait | every fact has its transaction; heads stay on their branch; roots stay |
| SqliteStore, `store/sqlite.rs` | the same as seven tables, one connection under a mutex | the `Store` trait, seeding | calls look indivisible; damage by crashes is bounded and does not spread |
| Merge and diff, in both stores | none of their own | `merge`, `diff` | the policy decides; nothing that is there is changed; diff misses nothing |
| gc, in both stores | none of its own | `gc` | removes only retracted facts and none as young as the cutoff, spares transactions in use |
| Schema, `core/schema.rs` | a schema for each namespace | `validate` | stored values conform |
| Retention, `core/db.rs:305` | none of its own | `apply_retention` | keeps the newest versions, the young ones, and no more than the policy says |
| Dump and restore, `server/api/backup.rs` | none of its own | `dump`, `restore` | replaying is harmless |
| PQL, `core/pql/` | none | lexer, parser, evaluator | every query of the grammar is accepted, with the one tree it has; push-down to the store does not change the answer |
| Event stream, `server/api/stream.rs` | a broadcast channel, two tasks for each connection | `publish` (which nothing calls yet), `subscribe` | a subscriber gets the events of its filter, once and in order, and misses only what the channel has overwritten; the tasks of a client that has left end |
| HTTP API, `server/` | the `Db`, the token | one handler for each route | a handler is one `Db` call |
| polod, CLI, client | none | start-up, one request for each command | – |

**How they interact.** A request is a task. `Db::record` checks the interval and
the schema (a store call), ticks the clock, and then calls `store.record`; other
tasks run between any two of these. `bulk_record` ticks once and calls
`store.record` for every fact. A store call holds the store's lock (the
`RwLock` of MemoryStore, the mutex of SqliteStore) from start to end, but `merge`
is made of store calls and holds no lock between them, and neither do
`apply_retention`, dump and restore, which make a call for each fact. Only the clock is
lock-free. On SQLite each statement commits by itself, since no transaction is
ever begun. A WebSocket connection is a handler with two tasks, one that receives
from the broadcast channel and sends, one that drains what the client says; the three
meet only in the connection and in `select!`.

**What is hard.** The compare-exchange loops of the clock, its saturation and
its wall clock that moves both ways; timestamps that commit in another order
than they were taken; half-done bulks, merges and retentions that other requests, gc
and the deletion of branches meet; retries with an idempotency key; a process that dies
between two statements; two units of time (milliseconds and the raw
timestamp, 65536 times as large) compared with each other, and unsigned times that
become signed; subscribers that lag, and tasks of a connection that outlive it; a
query language whose clauses come in any order. `PROJECT.json` lists
each of these at its line under "hazards", with the properties that guard it.

## The modules

| Module | Models | Correspondence |
|---|---|---|
| `HlcTime` | the timestamp: order, packing, and the values `tick` and `observe` compute | operators; `Encode` is `from_parts` |
| `AtomicClock` | what the clock promises: indivisible `tick` and `observe` | abstract specification |
| `HLC` | `core/clock.rs`, one step for each access to something shared | `state` is `Clock.state`; `seen`, `cur`, `recv` are the locals `wall_ms`, `cur`, `received`; one action for each load, compare-exchange, failed compare-exchange, spin and rejection; `Restart` is a new process |
| `MemoryStore` | the state and calls of `store/memory.rs` that write | one variable for each field of `State`; one action for each writing call; `Asof`, `Effective` are the reads of `core/db.rs` over `scan` |
| `Ordering` | `sort_by` and `filter` of vectors | `Arrange` lists a set in an order, `Kept` leaves rows out; what Rust's library does for `Reads` and `PQL` |
| `Reads` | `scan` and the listings of `store/memory.rs`, and pages | operators over the variables of `MemoryStore` |
| `Ledger` | `core/db.rs` on `MemoryStore`, driven by concurrent requests | `req[r]` is what the task `r` holds between two awaits; `CallX` is the part before the store call, `X` the store call; `clock` is the clock as `AtomicClock` describes it, as one number |
| `Merge` | `merge` and `diff` among the requests of `Ledger` | `merge[m]` holds the locals of the function: `found`/`todo` the source facts, `there` the target facts, `policy`, `ts`, `tx` |
| `AtomicStore` | what the `Store` trait promises: each writing call is one step | abstract specification, made of the actions of `MemoryStore` |
| `SqliteStore` | `store/sqlite.rs`, statement by statement | the variables of `MemoryStore` are the tables; `job` is what the holder of the mutex still has to do, named by its next statement; `StatementFails` and `Crash` strike between statements; `phase` is the opening of the file; `shown` is history, the tables as the last release of the mutex left them |
| `SqliteReads` | `scan`, `get_fact` and the listings of `store/sqlite.rs` | `Clauses` is what is appended to the text of the statement, each clause with the `bind_idx` of its placeholder, `Binds` the list of values; a query is the set of sequences that SQL may answer, since it leaves equal timestamps in any order |
| `Maintenance` | `apply_retention`, and the dump and restore handlers of `server/api/backup.rs`, among the requests of `Ledger` | `job[r]` holds the locals of the function and `at` the place it has reached; one action for each call of the store, which is an action of `Ledger`; `backup` is the last file a dump has written |
| `PQLTree` | the syntax tree, `core/pql/ast.rs` | constructors |
| `PQLParser` | `core/pql/lexer.rs` from words on, and all of `core/pql/parser.rs` | functions named after those of the parser, each from a place in the tokens to what it has read and the place after it; a text is a sequence of lexemes, and `Next` appends one |
| `PQL` | the evaluator `core/pql/eval.rs` on the scan of `Reads`, as `server/api/query.rs` calls them | operators named after the functions |
| `EventStream` | `server/api/stream.rs`: the bus, the handler of a connection and its two tasks | `sent` is the channel, `next[c]` the place of the receiver in it, `handler`, `sender`, `reader` how far the three tasks are, `held` the event `send_task` is sending; the client and its connection are actions and variables of their own |
| `HLC_proofs`, `Ledger_proofs`, `Merge_proofs`, `Maintenance_proofs`, `SqliteStore_proofs`, `EventStream_proofs`, `PQL_proofs` | – | theorems about the module they are named after; those about `SqliteReads` are in `SqliteStore_proofs` |
| `Reads_proofs` | – | the lemmas about sorting, filtering and recursion that `SqliteStore_proofs` and `PQL_proofs` share |
| `MCHLC`, `MCLedger`, `MCSqliteStore`, `MCMerge`, `MCMaintenance`, `MCPQL`, `MCPQLParser`, `MCEventStream` | – | constants and bounds for TLC |

`Ledger`, `SqliteStore` and `Reads` extend `MemoryStore`; `Merge` and `Maintenance`
extend `Ledger`; `SqliteReads` extends `SqliteStore` and `Reads`, whose answers it is
compared with; `Reads` extends `Ordering`, `PQL` extends `Reads` and `PQLTree`, and `MCPQL` asks its queries of the
stores that the requests of `Ledger` produce. `HLC` is shown to implement `AtomicClock`,
and `SqliteStore` to implement `AtomicStore`. `EventStream` stands alone, as nothing
publishes to it. Operators marked "Mutant of X" are plausible mistakes in X: with
one of them in place of X the property named with it in `PROJECT.json` fails,
which shows that the property depends on that code.

**Abstractions.** An (entity, attribute) pair is a key. A value is its type,
which is all that a schema looks at; author, message and `caused_by` are left
out. Identifiers (UUIDs) are consecutive numbers. The vector of facts is a set, and
insertion order is the order of identifiers: a scan sorts by timestamp, and a
stable sort leaves facts with equal timestamps in insertion order. A timestamp in
`Ledger` is one number, and `TicksPerMs` of them make a millisecond, so that the
two units are different. In `HLC` the counter is `LogicalMax + 1` values wide,
and the saturation the code has at 65535 happens at the bound of the model.
Reads change nothing and are operators. `dry_run` of gc and of retention and
statistics, which change nothing either, are left out. In a job the wall clock is any
of `Walls`, and an age is subtracted from it in a word of `Word` values, where an age
before 1970 wraps around (a debug build panics there). In `PQL` entities and attributes
are numbers, so that they have an order, and `Spelling` gives the letters that `LIKE`
looks at; which columns are shown is left out. In `PQLParser` a lexeme is a word, a
symbol, a number or a string; how characters make lexemes is left out. In `EventStream`
an event is the fields that filters look at, and the channel of tokio and the connection
are modelled as their documentation describes them: a bounded ring that overwrites, and
a bounded pipe that breaks.

## What is checked

| Run | Shows | Bounds |
|---|---|---|
| `hlc_clock` | `TicksIncrease`, `ObservesIncrease`, `CallsReturn`, and that `HLC` implements `AtomicClock` | two threads, three calls, two milliseconds, a one-bit counter, one restart: enough for a lost compare-exchange, saturation, a wall clock stepped back, and a rejected `observe` in the same behaviour |
| `ledger_requests` | `TxRecorded`, `CountCovers`, `RetrySafe`, `HeadOnBranch`, `FactsPermanent`, `PastAnswers`, `GcSparesYoung` | two interchangeable requests, four calls, bulks of two, one idempotency key, two ticks to a millisecond, gc with two cutoffs and without. `OneBranchOrNoBulks` keeps bulks and keys to one branch, where a bulk, a retraction, a gc and a retry can all meet; or lets branches of two namespaces be forked, written, deleted and forked again among single writes |
| `sqlitestore_faults` | `AnswersHold`, `DamageBounded`, `RetriesBounded`, `DefaultSeeded`, `ScanAgrees`, `ListsAgree`, and that `SqliteStore` implements `AtomicStore` | four calls and two faults: a retry can fail as well, gc can follow a fault, and a retracted fact can be read. `MCScans` has every subset of the conditions of a scan, times in and beyond the range of an i64, and pages |
| `merge_races` | `TxRecorded`, `HeadOnBranch`, `TargetKept`, `MergeCarriesNewest`, `DiffMissesNothing` | one merge, one request, three calls, two keys, one with two values. `InOther` keeps to the namespace that is created with a policy, `SideIntoMain` to bulks of at most two different facts into the source and one fact into the target: conflicts of either kind, an abort after a write, and a write to the target while the merge runs are within it |
| `maintenance_jobs` | `RetentionBounds`, `RetentionSparesLatest`, `RestoredOnce`, `AgeSpares` | two requests, five calls, three jobs, up to three facts of one key with two interchangeable values; one wall clock, three, and two ages, one of which, four, wraps around in a word of 16 values; the cutoffs are what the two ages become. `WhoDoesWhat` lets one request write and retract while the other one applies a retention, or until there is a dump, which both may restore, at once or again: a retention that meets a retraction, a write or a gc, and lines that two restores import at the same time, are within it, and, as intervals begin at one, lines that `record` refuses because their fact was retracted before |
| `pql_queries` | `NothingPushedAway`, `RowsAsAsked`, `AsofAgrees`, `LikeIsWildcard`, `ListedIsFound` | every store of up to three facts with three keys; filters that meet each rule of the push-down, each comparison and values of other types; orders by two columns, pages of one row, and both times; patterns of up to two `%` over names whose letters repeat |
| `pqlparser_syntax` | `AcceptsQueries`, `FilterAsWritten`, `LastClauseCounts` | up to five lexemes after each of six beginnings: nothing, a table, filters that have begun in three ways, and two clauses; all keywords of the grammar that behave differently |
| `eventstream_events` | `InOrder`, `OnlyLagLoses`, `EventsArrive`, `HandlerReturns`, `SenderEnds` | four events of three kinds through a channel of two, one connection that holds one event, a client that subscribes between any two of them, says one thing, and reads, closes or breaks off at any moment; connections share nothing but the channel, which none of them writes |
| `ledger_schema`, `merge_last_write`, `maintenance_restore`, `maintenance_retention` | one difference each between the code and what is written about it, see below | the smallest that show it |

Type invariants, and the invariants the proofs rest on (`Consistent`, `Careful`, `StreamInv`,
`SqliteInv`, `ShownInv`, `MergeInv`, `RetentionExact`, `RestoreConsistent`, `NowIsUpperBound`,
`NeverBack` and the like), hold in these instances too. Since they are proved, no run repeats them; whoever changes a module does
well to add its invariant to the cfg before turning to its proof.

Deadlock is not checked: with calls bounded, and no call pending, nothing is left
to do.

**Fairness.** `hlc_clock` and `eventstream_events` run under `FairSpec`; nothing else needs
fairness. In `HLC` a thread inside a call is scheduled again (`WF` on its steps), which
any scheduler of threads gives. Nothing is assumed of the wall clock, so `CallsReturn`
says what is true without it: a call that never returns is one that finds the counter
used up, while the wall clock is not past the word, again and again. In `EventStream`,
`TasksRun` says that the runtime runs each of the tasks of a connection again while it can
go on, which is what tokio promises of a task that has been woken; there is no fairness
for `Publish`, so a sending task that waits for an event may wait for ever. `ClientsRead`
is an assumption about clients, not about the code: without it a client that stops
reading while it stays connected holds up its sending task, and `EventsArrive` means
nothing. The other components make progress by their callers alone and have no loop
that waits.

## What is proved

TLAPS checks the following for all values of the constants, under the
assumptions stated in the modules (physical times and bounds are naturals,
`DefaultNs` and `Main` exist, `None` is neither a number nor a key nor a branch, a
policy's bounds are naturals, calls and scans come with arguments of their types). About
queries it is assumed that trees are finite: `Exprs` are the trees that filters are built
from, with all their parts, and `Height` falls from a tree to its parts. About
SQLite two more things are assumed: what a client writes ends at a date (`DatesAssumption`),
as a `DateTime` does, and writes with one `TxId` go to one branch (`TxIdsAssumption`), as
`bulk_record` takes one namespace and one branch and every other call makes a new `TxId`.

`HLC_proofs`: `TypeCorrect`, `TicksIncreaseAlways`, `ObservesIncreaseAlways`,
`NowBoundsHistory`, `WordNeverBack`, and `LoopsImplementAtomicClock`, the refinement. The inductive
invariant says that the word is not behind any timestamp of this process, and that
what a thread has loaded is neither ahead of the word nor, where it is about to
tick, saturated; each property alone is not inductive since nothing in it ties
the history to the word. A successful compare-exchange maps to an abstract call
with the wall clock the thread has seen, every other step to a stutter.

`Ledger_proofs`: `TypeCorrect`, `ConsistentAlways`, `TxRecordedAlways`,
`HeadOnBranchAlways`, `TimestampsAlways`, `FactsPermanentAlways`,
`RetrySafeAlways`, `RootsKeptAlways`, `GcSparesYoungAlways`, `CountCoversAlways`,
`PastAnswersAlways`. The inductive invariant is `Consistent` in
`Ledger`, in two parts: `TxConsistent` about identifiers and transactions, and
`TimesConsistent` about timestamps, which alone rests on all of them coming from one
clock. Besides the properties they say that identifiers and timestamps a request
holds are behind the clock and the generator (`IdsBehind`), belong to nobody else
(`IdsUnique`), that a bulk stays on one branch (`BulkOnOneBranch`), and that a
transaction, or a head, with the identifier of a pending request is the one
this half-done bulk has created (`PendingApart`). Without the last two, a
second fact of a bulk could land in a transaction of another branch after gc has
purged and somebody else recreated it. `RetrySafe` rests on an invariant of its
own, that every answer is what the cache holds: the cache is never emptied.
`FactsPermanent` follows from uniqueness of identifiers, `GcSparesYoung` from
milliseconds never being more than ticks. A count is compared with
the size of a set of facts step by step; that needs the facts to be finite, and that a
gc which purges the row of a half-done bulk has purged all of its facts. An answer about
the past changes only through a fact that has come or gone: one that comes belongs to the
request that stores it, by `TxConsistent`, and one that gc takes was no answer, since answers
are not retracted. Whether the newest of a set changes with one fact more or less is
a matter of a total order (`NewestWithOneMore`, `NewestWithOneLess`).

`Merge_proofs`: `MergeTypeCorrect`, `MergeTxRecordedAlways`, `MergeHeadOnBranchAlways`,
`TargetKeptAlways`, `MergeCarriesNewestAlways`, `DiffMissesNothingAlways`, for any number of merges
and requests. A merge takes its timestamp from a clock of its own, so `TimesConsistent`
is false here and the proofs go without it: `MergeInv` is `TxConsistent` and, for every merge,
that its transaction is its own as a request's is; that what it has scanned is finite
and has been given its identifiers; that it has gone through its facts newest first, each
of which it wrote or passed over for a fact of the target; and that what it has
written of a key answers what the facts it has gone through so far do. The last holds
when a retraction or a gc takes one of them only in the weaker form that
`MergeCarriesNewest` asks for, as long as none is missing.

`Maintenance_proofs`: `JobsAreRequests`, that every behaviour with retention, dump and
restore is one of `Ledger`, so that all theorems above hold with jobs as well;
`JobsTypeCorrect`; `RetentionSparesLatestAlways`, `RetentionBoundsAlways` and
`AgeSparesAlways`. `JobsAreRequests` needs an
invariant, since a retention retracts what it has read some steps ago: the facts it
still holds have been given their identifiers, which follows from `IdsBehind` when it
reads them and stays true since identifiers only grow. `RetentionConsistent` adds
that whatever a job is about to retract, or has retracted, is spared by what it has
read (`Careful`), and that what it has read is finite, so that reading more cannot
lower the count. The other direction, that not too much is left, is `RetentionExact`:
whatever a retention has read and does not hold for retraction any more is at most
what the policy allows, or retracted, or purged (`Bounded`); it rests on the request of the
job being the one it waits for (`Remembers`), so that a retraction which succeeds has
closed that very fact, and on no more than n facts having fewer than n newer ones
(`LatestAreFew`). `Aged` ties what is held to the cutoff and the cutoff to the clock it was
computed from; the remainder in a word of any width is never more than the difference.

About restore there is `RestoredOnceAlways`, in the same module. Its hypothesis `ClientKeys`, that no request outside
a restore uses a number, that is the id of a fact, as its idempotency key, is about
clients: the code does not enforce it, and without it the property is false, since a record
under such a key takes the place of the line. The invariant is `RestoreConsistent`: an
identifier stands for one key, value and branch in the store, in the last dump and
in whatever a job has read of either, even after its fact was purged (`HeldAlike`); what
is stored under it as a key is a copy of the same (`CopiesAlike`); and a restore has
recorded each accepted line it has read but the one it is at (`RestoreOnCourse`), which
nobody else can move on (`Waiting`). A line that is accepted at the end was accepted when
it was read (`AcceptedBefore`), since namespaces get their schema when they are created.

`EventStream_proofs`: `TypeCorrect`, `InOrderAlways`, `OnlyLagLosesAlways`, for any number
of connections and any capacity. The inductive invariant is `StreamInv`: neither property
is inductive without `Connected`, which says that nothing is on its way to a client
before its handler has subscribed, that only a running sender holds an event, and that
the receiver is never ahead of the channel, so that a new event is not counted as missed.

`SqliteStore_proofs`: `TypeCorrect`, `DefaultSeededAlways`, `AnswersHoldAlways`,
`RetriesBoundedAlways`, `DamageBoundedAlways`, for any number of calls, failing statements and crashes, and
`CallsImplementAtomicStore`, the refinement. The inductive invariant is `SqliteInv`:
`RecordInv` says what a record in progress has already written and that its key is still
unused, without which the statement that stores the key could overwrite an answer;
`AnswersInv` that identifiers are used once and that what the cache holds has been
answered, so that a hit repeats an answer; `SeedInv` ties the phases of opening the file
to its tables; and `KeyedInv` counts the facts written for a key one lower while the
key is not taken, which makes the count inductive. `DamageInv` does the same for damage:
it counts the orphaned facts and the namespaces without a root one lower for the
one that the call in progress is about to mend, so that a fault adds one and a call that
is done none. The refinement needs in addition
`ShownInv`: as long as no fault has cut a call short, the tables are ahead of what was
shown by exactly the statements of the call in progress. The last statement of a call
maps to the step of `AtomicStore`, every other one, opening the file and a crash between
calls to a stutter. Its hypothesis `LowCutoffs` excludes the cutoffs of gc that become
negative as an i64, for which the refinement is false: such a gc purges no facts.

About `SqliteReads` there are `ScanAgreesAlways` and `ListsAgreeAlways`, in the same module,
for every state that calls, failing statements and crashes lead to. The inductive invariant is `SqliteInv` with
`ReadsInv`: identifiers tell facts apart, a live fact ends as it was written, and what has
one `TxId` is on one branch; without the last, a transaction could be listed on
another branch than its fact. What a statement selects is what was asked (`RowsAsked`),
since the list of values, cut off before any clause, is as long as the index of
that clause's placeholder is high (`BoundTo`); MemoryStore selects the same (`MatchesAsked`).
The order needs no induction over sequences: the rank of a fact is the number of newer ones,
ranks are the numbers below the size of the set (`RankTaken`), and in a sorted
sequence the place of a fact is its rank (`SortedRank`). So there is one way to sort by
timestamp and insertion (`ArrangeSorts`, `SortUnique`, in `Reads_proofs`), and it is one of the orders SQL allows
(`OrderAllowed`), the only one if timestamps differ (`OneAnswer`). Pages of two sequences
that agree place by place agree (`SamePage`).

`PQL_proofs`: `RowsAsAskedAlways`, `NothingPushedAwayAlways`, `AsofAgreesAlways`,
`ListedIsFoundAlways`, `LikeIsWildcardAlways`, for every store that requests can produce,
every filter, order and page and every pattern. They need no more of the state than that
facts are finitely many and differ in their identifiers (`Sound`), which follows from `Consistent`.
The definitions that recur are functions, and a function that looks at smaller arguments
alone has the value its definition gives it (`Recursion`); what holds of all of them is
shown by induction over the height of a tree, or over a number of columns or parts
(`AllByRank`). A fact that passes a filter has every name that is taken out of it
(`PushedHolds`: a conjunction that passes has parts that pass), so that what the store
selects and the filter lets through is what was asked for (`WantedFound`). What is kept
of sorted rows is sorted (`KeptSorts`), a stable sort of what is in order Q puts it in the
order of the column and, where that is equal, Q (`StableSortSorts`), and one such sort for
each column, last first, amounts to the order by all of them (`SortIsOrdered`); since a
set has one sorted sequence, the answer equals the reference, ties included. For `LIKE`,
the parts so far are always placed, and no other way of placing them uses up less of the
name (`LikePlaces`), so a later part fits if it fits at all.

**Only model-checked.** Liveness (`CallsReturn`, `EventsArrive`, `HandlerReturns`,
`SenderEnds`), which is out of the prover's reach. The three
properties of `PQLParser`: its functions call each other with what has been read so far, and
so do those of the grammar it is compared with, as RECURSIVE operators, which tlapm does not
expand.

## Differences between the code and what is written about it

Shown by runs:

- `ledger_schema`: `bulk_record` never looks at the schema (`core/db.rs:442`);
  `CHANGELOG.md:74` says types are enforced.
- `merge_last_write`: the index of the target keeps the oldest fact of each key
  (`store/memory.rs:383`), so last-write-wins can write an older fact over a
  newer one.
- `maintenance_restore`: a dump lists each branch newest first, and restore records
  the lines in that order under new timestamps (`server/api/backup.rs:72`), so a
  restored namespace answers with the oldest version. Retracted facts come back
  as well. `server/api/backup.rs:6` calls restoring to a fresh namespace a clean
  import.
- `maintenance_retention`: the gc after each attribute knows no namespace
  (`core/db.rs:389`, `store/memory.rs:523`) and purges what is retracted on the branch of this
  name in all of them, of any age and key if the policy gives no age; `CHANGELOG.md:27`
  speaks of a policy across a namespace.

Seen while modelling, and part of the models, but without a run of their own:

- `gc` compares `before_ms` with the raw timestamp (`store/memory.rs:529`); `core/gc.rs:8`
  says milliseconds since the epoch. A cutoff in milliseconds removes nothing.
  `GcSparesYoung` shows the mistake is on the safe side. Retention by age does the
  same (`core/db.rs:360`); `AgeSpares` shows that it, too, errs on the safe side, except for
  an age that reaches back before 1970: the subtraction (`core/db.rs:347`) panics in a debug build
  and in a release build wraps around to a cutoff that everything is older than.
- On SQLite the idempotency key is stored by the last of four statements
  (`store/sqlite.rs:309`); a crash before it lets the retry record twice.
  `RetriesBounded` says how often.
- On SQLite `retract` stores the raw timestamp in `valid_to_ms` (`store/sqlite.rs:332`),
  which reads back as a date it is not, or as the epoch; a scan that includes retracted
  facts compares the raw timestamp with milliseconds. `ImplementsAtomic` and `ScanAgrees` show
  that nothing else differs.
- On SQLite an offset without a limit is a syntax error (`store/sqlite.rs:437`), and a query
  without a filter hands one over (`core/pql/eval.rs:40`). A time of 2^63 or more turns
  negative: a scan as of it finds nothing, and a gc with it as cutoff purges no facts. Facts
  with equal timestamps come in any order.
- The idempotency cache is shared by all namespaces: once a dump has been restored,
  restoring it to another namespace imports nothing.
- Retention keeps the last written of facts with equal timestamps (`core/db.rs:350`),
  as-of answers with the first written; a merge writes such facts.
- A query without a filter hands `LIMIT` to the store, which cuts off what is not newest
  before the rows are ordered (`core/pql/eval.rs:35`); `CutTooEarly` excepts these
  queries. `ORDER BY` of any other column than the four in `compare_col` has no effect,
  and the query handler ignores the namespace of its path.
- The clauses of a query may be repeated and come in any order, the last one counts
  (`LastClauseCounts`); `ORDER` needs no `BY`, `EFFECTIVE` and `AS` no second word, the list of
  `ORDER BY` may be empty, and a comma may end a list; keywords cannot be names of columns.
  An Int and a Float can be `<=` and `>=` but not `=`; a filter that is a literal lets
  everything through. A column that does not exist is an error only if there is a row, and
  no `*`.
- Nothing calls `publish`; `server/api/stream.rs:19` says handlers do, `README.md:103` and
  `CHANGELOG.md:76` speak of a stream of facts. A ping is answered by nothing, where
  `server/api/stream.rs:65` promises a pong. A connection subscribes after its upgrade has been
  answered, so events in between are lost to it. When a client has left, its sending task
  stays until the next event that its filter lets through (`SenderEnds`).
- `snapshot` returns every live version of each attribute; `README.md:96` calls it the
  current state of the entity.
- Once the logical counter is used up, two calls of `observe` return the same
  timestamp (`core/clock.rs:130`), where `tick` would wait; `ObservesIncrease` shows that it
  happens in no other case.
- A new process starts its clock from the wall clock alone (`core/clock.rs:79`),
  so timestamps may repeat after a restart; `README.md:76` promises increase
  even if wall time jumps backwards.
- `bulk_record` can be seen half done; `CHANGELOG.md:26` calls it atomic.
- `retract` updates the fact in place; `README.md:58` says a new fact is written.
  As-of then leaves the fact out for times before the retraction as well.
- A fork shows none of its parent's facts (`README.md:80`).
- On SQLite, a crash inside `create_namespace` leaves a namespace without main
  for good, since a retry finds that it exists.
- A merge under first-write-wins writes over what was recorded in the target
  after its scan; its timestamp comes from a fresh clock (`store/memory.rs:391`) and
  need not be later than what it has read.
- diff lists keys that answer the same on both branches, since it compares facts
  with their ids.

## Not modelled, and the plan

In this order:

1. Two requests and two attributes with a retention, and a restore while others
   write, at larger bounds: the proofs cover them, the runs do not.
2. The event stream among the requests of `Ledger`, once handlers publish to it.

Left out for good: decoding, routing and error codes of the HTTP API,
authentication (one comparison), configuration, start-up of `polod`, the CLI and
the client (one request for each command, no retry and no state), the splitting of a
query's text into words, numbers and strings, the choice of columns, statistics, and
`dry_run`. The order `Merge` relies on is that of MemoryStore; on SQLite ties between
equal timestamps are any order's, which `ScanAgrees` allows for.
