# TLA+ specifications of bandwith

bandwith is a bandwidth monitor for Windows: it takes network events from ETW,
sums the bytes per flow, and stores one row per flow and two-second window in
SQLite.  This directory models the program with TLA+, checks small instances
with TLC and proves with TLAPS, for every value of the constants, every safety
property that it checks.  Source paths are relative to the crate, so the writer is
`src/store/writer.rs`.  (`PROJECT.json` maps every definition to its lines.)

## 1. The system

    ETW session --callback--> [events, 50 000] --> aggregator --> [messages, 50 000] --> writer --> SQLite
                                                    |   |  ^                                          ^
                                                    |   |  [results, 1024]                            |
                                   process snapshot |   v  |                             queries, demo, second
                                                    | [requests, 1024] -> DNS task       programs on the file

    main: joins ETW thread, aggregator, timer; then shuts the writer down
    timer (BANDWITH_HEADLESS_SECS): sets the stop flag, which the ETW thread polls

| component | source | state | operations | module |
|---|---|---|---|---|
| writer | `store/writer.rs` | channel, batch, deadline, connection | submit, flush, shutdown, drop of a handle; receive, timed flush, exit | `Writer`, `RowSink` |
| flow aggregator | `capture/flow.rs` | sums per flow, process names, domains, last flush | observe, update_*, maybe_flush, flush_now | `FlowAggregator` |
| resolver, cache | `dns/mod.rs`, `dns/cache.rs` | two queues, worker task, moka cache | request, lookup, reply, invalidate | `Resolver` |
| process names | `capture/process.rs` | pid -> name, twice: in the cache and in the aggregator | refresh, snapshot_map | `ProcessCache` |
| capture program | `lib.rs` run_headless, `capture/etw.rs` | threads, stop flag, ETW session, event channel | loop of the aggregator, ETW thread, timer, joins, kill and restart | `Headless` |
| schema | `store/schema.rs` | objects of the file, version row | run_migrations, by writers and by read-only connections | `Schema` |
| queries | `store/query.rs` | none (reads) | top_domains, top_processes, rate_series, total_since | `Queries` |
| demo, query command | `lib.rs` run_demo, run_query | none of their own | writes, shuts down, reopens, asserts; opens and reads | `Demo` |
| cli, config, paths, main, ui, app | | none, or empty files | | not modelled |

How they interact: the threads of a program share nothing but channels, the stop
flag and the SQLite file; programs share the file alone.  Both big channels
block a sender that finds them full; the resolver's queues forget a request
(`try_send`) but block a result.

What is hard here, and the property it must not break (the list with lines is
under "hazards" in `PROJECT.json`):

* writer: a batch emptied before the transaction succeeds, a BEGIN refused,
  duplicates of a primary key, several handles shutting down, messages behind a
  Shutdown (`OneFate`, `InOrder`, `FirstRowWins`, `AtomicCommit`,
  `SilentLossBehindShutdown`, `ShutdownReturns`, `RowsSettle`);
* aggregator: windows named by a wall clock that may be set, `last_flush` kept by
  another clock (`TimedFlushOpensNewWindow`, `BytesConserved`);
* resolver: lifetimes of replaced entries, failures cached but never consulted,
  full queues (`BoundedStaleness`, `FailureForgottenInTime`, `RequestsAnswered`);
* process names: a scan that is not atomic, pids that are reused, a buffer that
  is too small (`SettledNamesAreCurrent`, `WrongNameOnlyAfterReuse`, `RefreshEnds`);
* capture program: back-pressure all the way into the ETW callback, the order of
  the joins, a capture that fails, a kill (`EventsConserved`,
  `ExitSettlesEverything`, `StopTerminates`, `QuietMeansDurable`,
  `OnlyLastFlushCollides`, `DatabaseSpec`);
* database: statements without a transaction around them, run by several
  processes at once, any of which may be killed (`OpenMeansComplete`,
  `UndisturbedOpenSucceeds`);
* demo and queries: reading through a second connection, lists that are cut off,
  rows that other programs commit in between (`ReadsItsWrites`,
  `PanicsOnlyInCompany`, `GroupsAddUp`, `TotalsNeverShrink`).

## 2. The modules

    Headless  = FlowAggregator + Resolver + Writer + threads, ETW, kill and restart
    Demo      = Schema (EXTENDS) + Writer + Queries, three programs on one file
    Writer   => RowSink            (refinement, without restarts)
    Headless => RowSink            (refinement, a kill or restart is a restart of the sink)

**`Writer`**.  `Submit`, `Flush`, `Shutdown`/`Await`, `DropHandle` are the calls on a
handle; a call that blocks is an action that is not enabled yet.  `Prepare`,
`RecvRow`, `RecvFlush`, `RecvShutdown`, `Timeout`, `Disconnected`, `SignalDone` are the
writer thread, one action per branch of `writer_loop`, each with the whole
`flush_batch` in it (nobody can observe the thread between the drain and the
commit but through the database, and there the commit is one step).  `Faults`
says which SQLite calls may fail: `prepare` ends the thread, `begin` leaves the
batch alone, `statement` (an INSERT or the COMMIT) loses the drained batch.
`due` is the deadline test: `DeadlinePasses` sets it whenever the thread runs.
Rows carry an `id`, the number of their `submit()`; `ignored`, `failed` and
`dropped` record the rows that were not stored: a duplicate key, a logged error,
and silence.

**`RowSink`** is what the writer promises: rows are taken in order, leave memory
oldest first in transactions that commit or fail as a whole, the first row of a
key wins, and a closed sink takes nothing.  `Restart` empties its memory and opens it
again; the table stays.  `Writer!SinkSpec` is its specification with `pending` = the rows
of channel and batch and no restarts; `Headless!DatabaseSpec` is the same of the whole
program, with one restart of the sink for each start of the program but the first.

**`FlowAggregator`**.  A sum of bytes is the set of the events summed, and `observed`
remembers every event there was, so adding up twice, losing and attributing to
the wrong flow can be told apart: the sums of the map and of the rows handed out
have exactly the events observed (`InSums = observed`).  A drain is one step that yields the rows; a `FlowKey` is a record of which only
the pid and the address matter to the rows.  There are two clocks, as in the code:
`Instant` (`now`) decides when to flush, the wall clock (`now + skew`) names the
window; `SetWallClock` moves the second one forward or back.

**`Resolver`**.  `Request` is `try_send`; `TakeRequest`, `LookupEnds`, `Reply` are the
worker task between its awaits.  The cache is moka, which is a library: it is
modelled from the calls `cache.rs` makes.  An entry gets its lifetime on
creation (`Ttl`), keeps it on replacement (`Expiry`'s defaults), lives no longer
than `time_to_live` (`HardLimit`), and may be evicted when the cache is full.
`Driven` says whether a thread is inside `block_on` of the worker's runtime; in
`run_headless` none is.

**`ProcessCache`**.  `Enumerate` is one EnumProcesses with the test of its result
(complete, buffer to be doubled, too many), `Resolve` the query of one pid,
`Resolved` the replacement of `by_pid` and the merge into `proc_names`.  Between any
two of them processes start and exit and free pids are given away.  A program
is its name; `held` remembers the programs of each pid, `settled` the processes
that lived through a refresh.  The result of the very first refresh is not used
by the aggregator, as in the code.

**`Headless`** instantiates aggregator, resolver and writer and adds the threads.
The aggregator's loop is split where another thread can come between: taking
results, waiting for an event, draining, each `submit` and the final `flush`.  The
hand-over from a drain to the channel (`outbox`) is the `for` loop of
`maybe_flush`.  ETW is external: a session, a thread in ProcessTrace, and three
calls that may fail (`EtwFaults`).  `Restart` is a kill at any point, or a return,
followed by a new start: all memory is gone (`lost` records the events that were
in it, and the aggregator's `observed` forgets those of its map), the table stays.

**`Schema`** is run_migrations statement by statement: each commits by itself.
`Connect` creates the file unless the connection is read-only, `Statement` is one
CREATE IF NOT EXISTS, `ReadVersion` and `InsertVersion` the end.  `Refused` lets
SQLite refuse any statement to the openers in `MayFail` (SQLITE_BUSY after the
busy timeout); an error of the version's SELECT is taken for a missing row
(`.ok()`).  `Close` in the middle is a killed process.  `excused` remembers whether
an open met another process at work, a refused statement, or a file nobody
could open.

**`Queries`** are the four statements as operators on a set of rows.

**`Demo`** puts `--demo`, a capture that commits rows and `bandwith query` on one file:
the demo opens, submits its rows through a `Writer` of its own, the last of them
drained from an aggregator (`DemoDrains`, whose window `bucket` keeps), flushes,
shuts down, opens again read-only, lists and asserts.  `DemoKilled` ends it anywhere
and starts it again.

**`MCFlowAggregator`, `MCHeadless`, `MCDemo`** give structured constants their values;
`Writer`, `Resolver` and `ProcessCache` are run as they are.  **`WriterProofs`,
`FlowAggregatorProofs`, `ResolverProofs`, `ProcessCacheProofs`, `SchemaProofs`,
`HeadlessProofs`, `QueriesProofs`, `DemoProofs`** hold the theorems.

Operators marked "Variant" in a module are plausible mistakes in the definition
that follows them; each one is shown by TLC to violate the property listed with
it in `PROJECT.json`.

## 3. What is checked

Runs that pass:

| run | what it asks | bounds |
|---|---|---|
| `writer` | the safety of the writer, atomic transactions, the refinement of `RowSink`; every row leaves memory, every `shutdown()` returns | 2 handles, 2 keys, 4 rows, batch of 2, channel of 3, all faults |
| `resolver` | staleness of names and failures, every queued address is answered | 2 public and 1 private address, cache of 1, 5 ticks with lifetimes 3 and 2 |
| `flow` | no byte lost, counted twice or misattributed, timed flushes do not meet unless the wall clock was set back | 2 flows of different processes, 2 events, 3 windows, wall clock ahead by 0 to 2 |
| `processes` | whose name a row can carry; that a refresh ends | 3 pids, 3 programs of which one may not be opened, 2 starts or exits, 1 event, buffer of 2 that may become 4 |
| `demo` | opening a file in company, reading one's own writes, the lists | 4 connections of 3 programs, 2 migrations, a demo started twice, 2 commits of the capture, 2 ticks |
| `headless_safety` | no event counted twice or lost between the threads; nothing left at exit | 2 flows, 2 events, 3 ticks, channels of 1, ETW and SQLite faults |
| `headless_prompt` | what a kill can cost, which flush may collide with an earlier one, the refinement of `RowSink` with restarts | 1 flow, 2 events, 6 ticks = 3 windows, 2 starts of the program |
| `headless_live` | a stop ends the program, with every channel full and with a resolver | 1 flow, 2 events, channels of 1, start and ProcessTrace failing |

The bounds are small but contain the cases that matter: a batch of 2 has a
threshold, a remainder and a duplicate inside it; 4 rows give two batches and
rows behind a Shutdown; channels of 1 are full after one message, so that every
sender blocks; a cache of 1 for two addresses evicts; 5 ticks outlive a lifetime
of 3; 6 ticks hold two timed flushes and the final one, of one run or of two;
two changes are what it takes to hand a pid to another program during a scan;
a buffer of 2 is too small for two processes and the idle one, and one of 4 for
three and the idle one; two statements and a version give every partial file.
The receive timeout and the flush interval are equal, as they are in the code
(2 s each), but in `headless_safety`, where the interval is two ticks and the
timeout one: the loop then also meets a timeout at which no flush is due yet, the
early return of `maybe_flush` (`NotYet`).

Runs that show a disagreement between the code and its comments ("findings"):

| run | comment | what the code does |
|---|---|---|
| `writer_two_shutdowns` | `writer.rs:67`: shutdown flushes any pending batch, or returns an error | the writer exits at the first Shutdown; a second handle whose row and Shutdown lie behind it gets Ok and its row is gone |
| `resolver_undriven` | `flow.rs:73`: the reverse-DNS hint is wired in | nobody drives the runtime the worker was spawned on |
| `headless_cadence` | `flow.rs:1`: flushes at a fixed cadence | no flush while events come at intervals shorter than the receive timeout |
| `demo_assertion` | `lib.rs:327`: "aggregator row should be in DB" | the row is in the file (`ReadsItsWrites`), but larger processes push it out of the list of five; `PanicsOnlyInCompany` says that this is the only way |

Two more that the passing properties delimit.  A name that replaces a live cached
failure keeps the rest of `negative_ttl`, although `cache.rs:3` gives positive
entries `max_ttl`: names die early, never late (`BoundedStaleness`).  The flush at
exit may make a second row for a window flushed before, which INSERT OR IGNORE
drops with its bytes, although `flow.rs:103` lets the events of a window collapse
to one row: `OnlyLastFlushCollides` says that no other flush does.

`QuietMeansDurable` is the promise about kills: what was observed is committed, or
lost with an error logged, once there has been no event for longer than the
receive timeout.  It follows that a kill costs the events since the last pause
of two seconds, which under steady traffic (`headless_cadence`) may be all of
them.

**Fairness.**  The writer thread, the aggregator, the ETW thread, the timer and
main are OS threads that run on when they can (`WF`).  ProcessTrace returns once
its session is stopped; after a ControlTrace that fails nothing ends it, so that
fault is left out of `headless_live`.  Nothing is asked of the traffic, of the
clock, of processes that come and go or of the clients of the writer, except
that a client that waits for the done signal is woken.  BEGIN may be refused
again and again, but not for ever (`SF` of the writer's steps that empty the
batch): a database that refuses it for ever keeps the batch for ever.
`PromptSpec` lets the clock tick only while the aggregator waits with nothing to
do and the writer's channel is empty, which is a machine that keeps up;
`QuietMeansDurable` and `headless_cadence` are stated for it, so that what they say
is not the effect of an overloaded machine.

CHECK_DEADLOCK is on everywhere: the final states are actions of their own
(`Finished`).

## 4. What is proved

Every proof is from the module's named assumptions alone, but for the hypotheses
`QuietIsDurable` and `PanicNeedsCompany` state; sizes and bounds are any naturals.
`Headless` assumes of its constants what its components do (`ComponentAssumptions`) and
the sizes of its own channel and timeout (`HeadlessAssumption`).  `Demo` assumes the
names of its connections, that the generated rows are not older than the minute the
lists look back, which is longer than a flush interval, a list that is one longer
than the generated rows have names: five, for four names (lib.rs:236, 318, 325), and that
the bytes of a row are a natural number (u64: writer.rs:33).

**`WriterProofs`**, for any number of clients, keys, data, rows, any batch size and
channel capacity and any set of faults: `TypeCorrect`; `Inductive` (`Spec => []IInv`)
and from it `RowsHaveOneFate`, `RowsStayInOrder`, `FirstRowAlwaysWins`,
`NoOtherSilentLoss`; `CommitsAreAtomic` (`Spec => AtomicCommit`);
`WriterImplementsSink` (`Spec => SinkSpec`).

The argument.  None of the invariants is inductive alone.  `FirstRowWins` needs
that rows leave memory oldest first (`InOrder`), which needs that ids are bounded
by `sent` (`IdsBounded`); `OneFate` needs the same, so that a new row is none of
the old ones; `SilentLossBehindShutdown` needs to know that behind a Shutdown
message of the channel lie only rows submitted after it, and that its sender
waits (`ShutdownsMarked`); and a writer that is gone must hold nothing
(`ClosedIsEmpty`).  `IInv` is their conjunction with `TypeOK`.  To keep the proof from
repeating itself per action, `StepKinds` first shows that every step is one of
seven kinds of what it does to the *sets* of rows (accepted, refused, quiet,
written, unwritten, closed, aborted) and `ChannelStep` that it is one of four
kinds of what it does to the *sequences*.  The invariants about sets and the
refinement follow from the former, those about positions from the latter.

**`FlowAggregatorProofs`**, for any flows, names and flush interval, and a wall clock
set as far and as often as one likes: `TypeCorrect`, `BytesAreConserved`,
`TimedFlushesNeverMeet`.  `BytesConserved` is inductive with `Numbered`, which says
that the next event is a new one; its first part, `InSums = observed`, is kept by a
drain because the rows it makes have the events of the map it empties.  `TimedFlushOpensNewWindow` needs `WindowsBegan`:
as long as the wall clock was not set back, the window of every row handed out
began before the last flush.  A timed flush comes an interval later, hence
(`WindowOver`) in another window; a flush at exit does not.

**`ResolverProofs`**, for any addresses, names, capacities and lifetimes:
`TypeCorrect`, `StalenessIsBounded`, `FailuresAreForgotten`.  insert() over a live entry
inherits its deadline, so a deadline by itself bounds nothing.  `CacheOK` bounds
each entry by `time_to_live` and a failure by `negative_ttl`; it is kept because of
`LooksUpUnknown`: the worker looks up only what has no live name, so what it writes
over is at most a failure, whose deadline is earlier than the new one's own.
That the cache stays within its capacity rests on the library's facts about
finite sets.

**`ProcessCacheProofs`**, for any pids, programs and buffers and any number of
changes: `TypeCorrect`, `SettledNamesStayCurrent`, `WrongNamesNeedReuse`.
`ScanIsTrue` says of the middle of a scan that an enumerated process which still
lives is yet to be resolved, or was found under its own name, or may not be
opened, and that whoever was settled before is among the enumerated.
`NamesWereTrue` says that every name anywhere belonged to its pid once.

**`SchemaProofs`**, for any openers, migrations and kills: `TypeCorrect`,
`OpensAreComplete`, `LeftoversAreNoObstacle`.  Nothing removes an object or changes a
version that is there, so what an opener has seen stays true (`AppliedAreThere`,
`PastAllMeansAll`).  For the last theorem, `ClearPath`: an open without an excuse so
far has a file of its build or without a version in front of it, and the only
opener that could change that excuses it by moving.

**`HeadlessProofs`**, for the whole capture program, with any traffic, capacities,
timeouts, faults and number of kills and restarts: `TypeCorrect`,
`EventsAreConserved`, `ExitSettles`, `OnlyTheLastFlushCollides`, and
`ComponentsKeepTheirPromises`, which carries the safety of writer, aggregator and
resolver over to the program they are part of.

The argument.  The proofs of the components are used as they are, by
`INSTANCE ... WITH` under the substitutions of `Headless` (`SameNames` to
`SameWriterThread` say that the instance the program uses and the one the proofs use
are the same), and `ComponentsKept` shows that every step of the program is, for each
component, a step of its own, a stutter, or a fresh start.  A fresh start is what the
components do not have by themselves, hence `KInv` and `Sums`: the parts of the
writer's and the aggregator's invariants that survive one (`FreshStartKeepsKInv`,
`FreshStartKeepsSums`, `FreshStartKeepsIInv`).  `OneFate` does not, as a kill forgets rows
that were submitted, and neither does the aggregator's numbering.

`HInv` adds what no component can know.  `Stopping` is the order in which the threads
end (no callback after the ETW thread, no event after the last flush began, a
flushed map is empty), `Handles` what each of them has done to its handle, and that a
Shutdown message is the last of its channel, so that the exit of the writer throws
nothing away: together `ExitSettles`.  `Pipeline` says that hand, queue, sums, drained
rows, rows of the writer and losses share no event and have exactly the events
captured; `QueuedOnce` and `Drained` are what it needs to be kept when an event is
received (an event in the queue is not there twice, and not in a row already).
`KeysApart` says that before the last flush no row meets another; it is kept because
a timed flush opens a window that no drained row has (`SumsNewWindow`), also one
drained by an earlier run.  As in the writer, `PipeSteps` shows once that each of the
steps of the program is of one of seven kinds of what it does to the places of an
event (made, queued, summed up, drained out, submitted, killed, stays), and
`ApartKept`, `DrainedKept`, `KeysApartKept` are proved of the kinds.  `HInv` was checked
by TLC on the instances of `headless_safety` and `headless_prompt` before it was proved.

`ProgramImplementsSink` (`Spec => DatabaseSpec`) is the refinement of `WriterImplementsSink`
carried over to the program.  A step of the program that is a step of the writer is one of
the sink that leaves `restarts` alone; one that is not touches nothing the sink has; a
kill and the start that follows are its `Restart` (`RestartIsOne`).  What had to be shown
anew is that the sink's steps need only the part of the writer's invariant that survives
a restart (`KInv`): a later run goes on with the numbers of the rows, so its rows are
younger than those of the table, and `INSERT OR IGNORE` keeps the older.

Last in `HeadlessProofs`, of `PromptSpec`: `QuietIsDurable` (`PromptSpec =>
[]QuietMeansDurable`), if the receive timeout is not shorter than the flush interval
(both are two seconds: lib.rs:142, flow.rs:42) and BEGIN does not fail.  `SummedOnTime`
says where the aggregator's loop is while it holds bytes: it waits since the last
event, and when the wait has timed out the flush is due, because the last flush was
no later than that event; so `NotYet` never postpones it.  `FlushFollows` says that the
rows of a finished flush have its Flush message behind them (`FlushStaysBehind` of
`WriterProofs`), so that an empty channel means an empty batch.  A BEGIN that fails at
that message leaves the batch until the next one, hence the hypothesis.

**`DemoProofs`**, for any generated rows, any rows of a capture, any sizes and faults of
the demo's writer, and kills of the demo: `DemoTypeCorrect`, `DemoReadsItsWrites`,
`PanicNeedsCompany`, and `SharedOpensAreSafe`, the two properties of `Schema` in the
presence of a kill that ends two connections at once (`KillKeepsOpens`).

The argument.  The writer's own invariant is of no use here: a killed demo numbers its
rows afresh, and the table has rows that no `submit()` of its handle made.  `DInv` says
what is left.  `Phases` is where the demo's main thread, its handle, the count of its rows
and the window of its drain are together; `Lifecycle` that a Shutdown message is the last of its channel and
that a writer that is gone holds nothing; so that when `shutdown()` has returned
(`AllInTable`) there is nothing but the table.  `Accounted` says that each row submitted
so far, or one of its key, is in memory or in the table, as long as no batch was
refused.  Every step of the writer thread keeps it because none loses a *key*
(`ThreadStep`, from `CommitKeepsKeys`: of the rows of a batch with one key the first is
inserted, if the table has none).  For the panic, `Origin` names who can have made a
row; without the rows of others the list groups at most the demo's own names
(`NamesFit`), so that its limit cuts nothing off (`TopOfFew`), and the aggregator's row is
from the last minute because a window is not longer than a minute (`DrainKeepsDemoInv`).  The
hypothesis `KeyIsItsOwn` is about the key: nobody else writes a row of the aggregator's
address under a generated name, in the code the same pid, address, port and second.
Without it `INSERT OR IGNORE` would keep that row instead of the demo's.  `DInv` was
checked by TLC on the instance of `demo`, with and without faults of the writer, before
it was proved.

The lists: `GroupsAlwaysAddUp` and `TotalsOnlyGrow` need of the programs only that the
table is finite, that its rows have natural byte counts (`TableCounted`) and that a step
adds rows to it or leaves it (`TableSteps`).  The rest is arithmetic of sums:

**`QueriesProofs`**, for any finite set of rows: `GroupingsAddUp` (the groups of each
GROUP BY add up to `total_since`) and `TotalsGrow` (more rows, no smaller total).
`MapThenSumSet` is a fold that takes one element after another, chosen by CHOOSE, so
nothing about it follows without induction.  The induction is on the set: a claim that
fails fails of a smallest subset (`SmallestSubset`, from the library's facts that strict
inclusion is well-founded on finite sets).  With it, two functions that satisfy the
fold's equation are one (`SumsAgree`) and there is one that does (`SumsExist`), so that
the fold satisfies its own equation (`TotalEquation`); hence a sum does not depend on
which element comes first (`TotalWithout`), sums of disjoint sets add up (`TotalOfUnion`),
and so do the parts of a partition (`BytesOfParts`), which the groups of GROUP BY are
(`GroupsPartition`).

Only model-checked: liveness, that is `StopTerminates`, `RowsSettle`, `ShutdownReturns`,
`RequestsAnswered` and `RefreshEnds` (fairness and ENABLED are beyond the prover).  Every
other property of a passing run is a theorem.

## 5. What is not modelled

* In `capture/etw.rs` the parsing of the event record and the callback counters: a
  record that does not parse is dropped before the pipeline, which is a choice
  of the traffic here.  The thread of `spawn_proc_refresh`: its cache is never
  read.  The session a killed process leaves behind: the next run uses another
  name and nothing in the code looks for old ones.
* `last_seen_ms` (never stored), and the lookups that change no state
  (`lookup_blocking`, `cached_name`), with them the demo's last step.
* A version value that is not a number (`.parse().ok()`, schema.rs:71): no build
  writes one.
* A message that is sent between the receipt of a Shutdown and the drop of the
  receiver: the writer's exit is one step, in which such a message counts as queued
  behind the Shutdown, where it has the same fate.
* Two captures at once on one file: `Demo` has one capture and one demo, which
  write rows of different keys.
* In the run `demo` SQLite refuses statements of opens, not of the demo's batch; the
  `writer` run, `WriterProofs` and `DemoProofs` have those.
* `Headless` has one process whose snapshot does not change; processes that come
  and go are in `ProcessCache`.  Its wall clock is not set; `FlowAggregator`'s is.
* The width of a sum of bytes: u64 in the aggregator and in a row, i64 in SQLite
  (writer.rs:258).  They differ from 2^63 bytes on, which no link carries.
* The command line, configuration, paths and the entry point have no state; the
  files of the user interface are empty at this commit.

What could follow: the counters of the ETW callback against the events it forwards.
