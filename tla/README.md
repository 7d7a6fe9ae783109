# TLA+ models of SNIPER

SNIPER is a research and paper-trading program.  It has two halves that share
little code.  The older one collects ticks from MetaTrader 5 (MT5), backtests
strategies on them and runs statistical research on them.  The newer one reads
Binance Spot, never sends an order, qualifies strategies on history, and advances
one simulated ("paper") account with a frozen strategy, `TOP3_RS_2H`, one decision
every five minutes.  The paper account runs unattended for weeks, through crashes,
network errors, restarts and long gaps, and its result is the evidence on which
the strategy is judged.

Paths below are relative to `src/python/sniper/`.

1. [Inventory](#1-inventory)
2. [Modules](#2-modules)
3. [Runs](#3-runs)
4. [Fairness](#4-fairness)
5. [Proofs](#5-proofs)
6. [Abstractions](#6-abstractions)
7. [Not modelled](#7-not-modelled)

## 1. Inventory

### The forward paper system

| component | state | operations | talks to |
|---|---|---|---|
| `PaperExecutionEngine` (`binance/forward_paper.py` 346-566) | the `ForwardPaperState` it is given: open position, closed trades, equity, peak, drawdown, baseline and entries of each day, last exit | `mark`, `process_signal`, `_close` | called twice per cycle by the runner, with the same quotes |
| `ForwardPaperRunner` (799-1273) | the account in memory; `state.json`, `status.json`, a daily report, `events.jsonl`, `runner-errors.jsonl`; next bar, stop flag | `run_forever`, `bootstrap`, `run_cycle`, `_write_reports`, `_append_*_event`, `_record_technical_error` | REST client, archive, engine, files |
| runner lock (780-795, 847-865, 1276-1289) | `runner.lock` with a pid | `_acquire_lock`, `_release_lock`, `read_forward_paper_status` | other processes, the operating system |
| market archive (`binance/storage.py`, `m1_continuity.py`, `service.py`, `market_data.py`) | Parquet parts under `date=` directories | `write`, `repair_m1_continuity`, `collect_binance_market_data`, loaders | the exchange, the runner |

What is hard here: a cycle changes the account in memory, appends to a log and
replaces three files, and may fail or die between any two of these steps; a
failed cycle is run again on the account it has already changed; a stop writes
whatever is in memory; a bar may be too late for its cycle; two processes may be
started together; the exchange answers with a candle that is not finished; a
batch of candles spans midnight.

What makes it correct: every bar is decided once, in order; the account's round
trips respect the cool-down and the daily limits whatever fails; the recorded
trades explain the equity; the log, the checkpoint and the status differ only by
what a fault explains; a decision is taken on complete, closed candles; one
runner writes the files.

### The historical qualifications of Binance

| component | state | operations | hard behaviour |
|---|---|---|---|
| strategies V1, V2 (`binance/strategy_engine.py`) | none | bars of several widths, regimes, signals | a bar of another width counts only once closed |
| strategy V3 (`binance/v3_cross_sectional.py`) | none | features, ranking, gates, replay | looking ahead; exits that compete in one bar |
| costs, filters, universe, opportunity, market report, risk engine | a day's results | scan, score, `size`, `record` | rounding, both sides' costs, boundaries of a day |
| deliveries (`second_delivery.py`, `v2_delivery.py`, `v3_delivery.py`) | frozen universe, collected history, reports | freeze, collect, replay, verdict | a second run after a kill, on an exchange that has moved |

What makes it correct: no decision looks ahead; the account adds up under base and
stress costs; a position risks its budget at most; a universe, once frozen, stays;
the replays obey the ledger that the paper account obeys.

### The MT5 half

| component | state | operations | hard behaviour |
|---|---|---|---|
| history (`data/history.py`, `collector.py`, `parquet_store.py`) | ticks, bars and a manifest per daily slice | `collect_history`, `TickParquetStore.write`, bar builders | a kill between slice and manifest, torn manifests, overlapping ranges, pages that share an instant |
| holdout (`data/holdout.py`) | a seal on a range | seal, verify | the range collected again |
| backtest (`backtest/engine.py`) | delayed requests, one position, account, equity curve | tick by tick: due requests, protection, strategy, mark | order on one tick, end of data |
| signal engine (`strategy/`, `features/`) | none | score, direction, blockers, context | boundaries, staleness |
| event discovery (`evaluation/event_discovery.py`, D.7) | armed, open episode, bound of the minute | `run`: minutes, seconds, episodes | seconds that are skipped because a bound rules them out |
| research (`evaluation/research_v2.py` D.8, `research_v3.py` D.9 and D.9A, `research_d10.py` D.10) | cached observations, folds, reports, registered decisions | build, fit, evaluate, report, audit | labels that run into the validation, stale caches, costs counted twice |
| other research (D.4 to D.6, D.11 to D.14) | reports | statistics over the same observations | numeric |

## 2. Modules

```
Ledger ──┬── PaperLedger ──── PaperLedgerProofs
         │       ▲ implemented by (INSTANCE ... WITH)
         │       ├─────────────┬───────────────────┐
         ├── PaperEngine    ForwardRunner          │
         │   MCPaperEngine  ForwardRunnerProofs    │
         │   PaperEngineProofs                     │
StrategyEngine ── CrossSection ── SpotEconomics ── Replay ── MCReplay
                                                   └─ ReplayProofs

RunnerLock ── ForwardRunnerProofs     MarketArchive ── MarketArchiveProofs

HistoryCollect ── MCHistoryCollect    BacktestEngine ── MCBacktestEngine
                                      └─ BacktestEngineProofs

Sums ── SumsProofs      Sums is extended by PaperEngine, BacktestEngine and
                        StrategyEngine, SumsProofs by the proofs about the
                        engines and the replays

Observations ── WalkForward ── Evidence ── ResearchProgram ── MCResearch

SignalEngine ── EventDiscovery ── MCEventDiscovery
                │  ▼ implements (INSTANCE ... WITH)
                │  EpisodeScan
                └─ EventDiscoveryProofs
```

**Ledger** holds the time rules of the account as operators on a value: `Enter`,
`Exit`, `CanEnter` (one position, cool-down, entries per day), with what makes a
ledger `Sound` at an instant.  It has no variables, so that `ForwardRunner` can keep one ledger in memory and another in
its checkpoint.

**PaperLedger** is the abstract specification of an account in time: a clock and a
ledger, entries and exits at any time the rules allow.  It has no run of its own:
`PaperEngine` and `Replay` are checked against it (`ImplementsLedger`,
`ReplayObeysLedger`), `ForwardRunner` keeps its invariant of both its ledgers
(`CheckpointObeysRules`), and `PaperLedgerProofs` proves its promises.

**PaperEngine** is `PaperExecutionEngine`.  Its variables are the fields of
`ForwardPaperState` that the engine reads or writes, plus the quotes of the cycle
under way.  `Mark` is `mark` with all it does (excursions, then stop, target,
timeout, then `_close`); `ProcessSignal` is `process_signal`, with one operator
for each way it can go: `LeaveOn`, `HoldOn`, `EnterOn`, `RefuseOn`.  `Abandon` is
the retry of a cycle after `mark` has sold and the append of the event has
failed.  What the strategy may answer is `Evaluations`, every combination that
`evaluate_v3_timestamp` can return; what the risk engine may accept is `Sizings`,
cut by what the account can pay.

**Sums** is the loop over a sequence (`Scan`), as a recursive function, and what the
code does with such loops: the sum of a sequence of numbers (`Total`), what is in a
set of its elements (`Only`) and a stable sort (`Sorted`).  `_daily_realized`, the
totals and the two loops of `calculate_metrics`, the curve that trades draw, the
universes of V1 to V3 and their rankings are instances of them.

**ForwardRunner** is the process.  `pc` names the point it has reached in
`run_forever`/`run_cycle`; every file write is a step, and `Fail` and `Die` may
come before it.  `Fail` is an exception that `run_forever` catches (1260-1266):
memory stays as it is and the same bar is tried again.  `Die` is a kill or an
exception that it does not catch: only the files stay.  The clock moves where the
code reads it: while waiting, while backing off, and during the repair, which
comes between the check of the bar's age and the decision.

**RunnerLock** is the pid file, one step per file-system call, several processes,
each of which lives once and may be killed anywhere.

**MarketArchive** is the archive of one symbol's minute candles: the store with
its partitions by date, the repair with its ranges and pages, the collection with
its fetch, its normalization and its stream, and the loader.  A candle is its
opening minute and whether the values held are final.

**StrategyEngine**, **CrossSection** and **SpotEconomics** are the pure part of
the Binance half: bars of several widths from one series of minutes, signals and
regimes; ranking and gates of the cross section; filters, costs, the scan of the
universe, the market report of V2, the universe of V3 and the size of a position.

**Replay** is the three commands that freeze, collect, replay and judge.  A
command goes from file to file and may be killed between two of them; a replay
advances one bar a step.  `Move` is the exchange showing something else to the
next command.

**BacktestEngine** is the tick-driven backtest under any strategy.  `NextTick` does
what `run` does before it asks the strategy (due requests, protection, mark to
market), `Open` and `Close` are what the strategy may ask for, `EndTick` what
follows it, `EndOfData` the closing of what is left and the metrics.

**HistoryCollect** is `collect_history` with its files, one step per write, and
the seal of a holdout.

**SignalEngine** is the score of a snapshot, its direction and its blockers, and
`MaximumScoreBelow`, the bound from which event discovery decides that a second
need not be evaluated.  **EventDiscovery** is the scan with its shortcut,
**EpisodeScan** the same without it.

**Observations** builds what the research observes at an instant (ticks and bars
before it, labels after it), **WalkForward** the folds and their purge,
**Evidence** predictions, gates, metrics and verdicts, **ResearchProgram** the
commands with the files they leave for one another.

The MC modules give the constants of a run that a `.cfg` cannot write.
Definitions that follow a comment "Fault:" are not part of a specification: each
is the definition after it with a plausible bug, used to see that the property it
is paired with notices.

## 3. Runs

| run | configuration | bounds |
|---|---|---|
| `paper_engine` | `PaperEngine.cfg` | 2 symbols, 2 quotes each, 2 sizings, 4 instants over 2 days, 2 entries a day, cool-down 1, timeout 2 |
| `forward_runner` | `ForwardRunner.cfg` | instants 0 to 6, bars of 2, days of 5, cool-down 2, 1 entry a day, 2 errors, 1 death |
| `runner_lock` | `RunnerLock.cfg` | 3 processes |
| `runner_lock_race` (violated) | `RunnerLockRace.cfg` | 2 processes |
| `market_archive` | `MarketArchive.cfg` | 5 minutes, days of 2, window of 4, pages of 3, perhaps one minute missing at the exchange |
| `archive_duplicates` (violated) | `MarketArchiveDuplicates.cfg` | 5 minutes |
| `archive_provisional` (violated) | `MarketArchiveProvisional.cfg` | 4 minutes |
| `backtest` | `BacktestEngine.cfg` | 3 ticks of 3 quotes, latency 0 or 1, slippage of either sign, 4 kinds of request, the last of which is refused |
| `history` | `HistoryCollect.cfg` | 2 days of 4 instants, 8 ticks, 2 overlapping ranges, 2 deaths |
| `replay` | `Replay.cfg` | 3 symbols, 3 histories of 32 minutes with gaps, 3 views of the exchange, 2 commands |
| `research` | `Research.cfg` | 12 days of 4 minutes, 6 tapes of 236 ticks, 2 extents of collection, 3 commands, 1 kill, 1 edit of the protocol |
| `discovery` | `EventDiscovery.cfg` | 8 seconds in minutes of 2, 6 kinds of bars, 6 kinds of ticks |

Why the bounds are enough.

* `paper_engine`: the two quotes are eight ticks apart.  With a stop two ticks
  from the midpoint one move crosses stop or target, with a stop nine ticks away
  neither is reached, so that all five reasons of exit happen.  With a capital of
  1000, one unit stays inside the daily limit of one percent and five units break
  it on either side.  Four instants over two days are enough to enter on one day,
  exit on the next and enter again.
* `forward_runner`: three bars allow one that is handled, one that fails and is
  retried, and a late one with another behind it that must not be jumped over.  The
  budget of one entry and the cool-down of one bar let an entry be refused for the
  budget alone.  A day begins between a bar and the next instant, so that a
  decision can fall on the day after its signal.  Two errors let the first attempt
  of a bar enter, the second exit and the third be refused.
* `runner_lock`: the third process is the one that left the lock behind; the race
  needs no such lock, and two processes.
* `market_archive`: a page of three candles lies across a midnight, two midnights
  separate the partitions, a range can end inside the window.
* `backtest`: three ticks are enough to ask, be delayed, open, be stopped and ask
  again; two steps of time let ticks share an instant.
* `history`: the ranges cut the days differently, ticks lie on the seams of pages
  and slices, and two ticks share an instant.  Two deaths let the recovery of the
  first be hit by the second.
* `replay`: the histories share their beginning, so that a decision that looks
  ahead can differ; two commands let the second find what the first, killed
  anywhere, has left.
* `research`: tapes agree up to a cut and mirror one another after it; the cuts lie
  where a fold opens, where the labels of the training end, and at candidates.
  Every fold trains and validates, and each of the four engines finds candidates.
* `discovery`: the kinds of bars have bounds on both sides of the two thresholds
  (100, 88, 85, 83, 68), and the ticks confirm, deny or block a direction.  Four
  minutes are enough for an episode, a spared minute and another crossing.

`CHECK_DEADLOCK FALSE` is set where the system really stops: all processes of the
lock have ended, the data of a backtest or of a discovery is read, the operator of
the commands gives none any more.

### What the passing runs show

* Engine.  Each trade's net result is its gross result less the costs recorded in
  two halves at entry and exit (`PnLDecomposes`).  The excursions enclose the
  midpoint of the exit even for the exits of `process_signal`, which does not
  update them (`ExcursionsEncloseExit`).  Equity, peak and drawdown are those of
  the curve drawn by the trades (`CurveReplays`).  No entry follows a day's result
  of one percent (`EntriesInsideDailyLimits`).  A position that outlives a cycle is
  inside its stop, target and timeout at the cycle's quotes, unless it was opened
  in that very cycle (`SurvivorsInsideLimits`): with a spread wider than the stop, a
  position may open with its stop already crossed.  The engine implements
  `PaperLedger` (`ImplementsLedger`).
* Runner.  Bars are caught up one by one, none is jumped over
  (`EveryBarIsDecided`), and only a death repeats a decision, never a retry
  (`DecisionsRepeatOnlyAfterDeaths`).  The log misses an order of the account only
  through an error in the cycle that made it, and has one more only after a death
  (`LogDiffersOnlyByFaults`).  A bar logged as skipped, because its cycle is late or
  its data incomplete, has an order only when a fault came between the two
  (`SkippedBarsHaveNoOrder`): an error before a retry that is late or short of data,
  or a death after the skip was logged and before the checkpoint, whose successor
  comes in time.  The checkpoint obeys the
  rules of the ledger (`CheckpointObeysRules`), never forgets
  (`CheckpointNeverRegresses`) and is never behind the status
  (`StatusNeverAhead`).  A running process checkpoints every bar that has closed
  (`EveryClosedBarIsHandled`).
* Lock.  Whoever dies where, with or without a pid in the file, a process that
  starts alone starts (`LoneStarterRuns`).  As long as no two acquire at once there
  is one runner (`OneRunnerWithoutRace`) and the status command names it
  (`StatusNamesRunner`).
* Archive.  After a repair that ends, the loader finds every candle of the window
  that the exchange has (`RepairCompletes`); the repaired history holds no candle
  twice although the store deduplicates by date only (`HistoryHasNoDuplicates`),
  because the repair keeps only what was missing from all dates; and it ends
  (`RepairEnds`).
* Backtest.  Balance, trades and costs explain one another
  (`TradesExplainAccount`), trades follow one another (`TradesInOrder`), after a
  tick nothing that was due is left and no position is beyond its stop
  (`TicksSettle`), every request is answered once (`RequestsAreAnswered`), and the
  metrics are those of the trades (`MetricsDescribeRun`).
* History.  A slice whose manifest says complete is stored, each tick once
  (`CompletedSlicesAreStored`); bars partition the ticks however the days were cut
  (`BarsAreIntervals`); a seal holds the range it was given
  (`SealHoldsItsRange`).
* Replay.  The replays obey `PaperLedger` (`ReplayObeysLedger`); equity, costs and
  trades add up under base and stress costs (`AccountAddsUp`); a round trip
  of V3 that ends at its stop loses no more than the budget
  (`StopsLoseWithinBudget`); histories that agree up to an
  instant give the same decisions up to it (`DecisionsAreCausal`); a frozen
  universe keeps its pairs, with the spread and, for V2 and V3, the fees and the
  slippage recorded there, whatever the exchange shows and whatever was killed
  (`UniverseStaysFrozen`).  The taker fee of V1 is not frozen: each run reads it
  from the latest `binance-check` (`second_delivery.py:85`), and two reports of V1
  may differ by it, as they do in this run.
* Research.  What a fold trains on is settled when its validation opens
  (`TrainingIsBlind`); for D.8, which does not purge, when the labels of its
  training end, a few seconds later.  Candidates are paid at the quotes: the spread
  once, half at each end, never past the timeout (`EvidenceIsPaidAtTheQuotes`).  A
  decision uses nothing that comes after it (`ResearchDecisionsAreCausal`).  The
  observations that D.8 builds once remain true when more ticks are collected,
  except that labels at the edge of what had been collected may be unknown
  (`CachedObservationsStayTrue`).
* Discovery.  The scan that spares seconds finds the episodes of the scan that
  spares none (`ImplementsScan`).  Episodes are disjoint and hold their peak
  (`EpisodesAreDisjoint`), and between two of them the score has been below the
  lower threshold, seen or not (`CrossingsAreApart`).

### What the violated runs show

* `runner_lock_race` (`OneRunner`): check, removal and creation of the lock and the
  writing of the pid are separate calls.  There is no lock; the first process
  creates one and has not written its pid; the second reads the empty text, takes
  it for a dead owner, removes the file and creates its own; the first writes its
  pid into the file that was removed, and both run.  (A stale lock is not needed for
  it.  Such locks are in `runner_lock`, whose third process may leave one.)
* `archive_duplicates` (`KlinesHaveNoDuplicates`): the store looks for existing
  keys under the date of the batch's first record, and stores the whole batch
  there.  The candles after midnight of a batch that begins before it are stored
  again by the first batch that begins after it.  The loaders remove such
  duplicates.
* `archive_provisional` (`LoadedCandlesAreClosed`): whether a candle is closed is
  decided by the clock at normalization, not at the answer.  A minute that ends in
  between turns provisional values into a closed candle, which the repair counts as
  present and the loader prefers to the repaired history.

## 4. Fairness

* `ForwardRunner`: weak fairness of `Cycle`, the steps of a running process; calls
  return or raise (the client has timeouts) and sleeps end.  Nothing obliges anyone
  to start the process, and the number of errors is bounded, without which a bar
  could fail for ever.
* `RunnerLock`: weak fairness of `Acquire(p)` for each process: it makes no
  blocking call.
* `MarketArchive`: weak fairness of the steps of a repair; nothing is assumed of
  the clock or of the collection.

The other modules describe programs that an operator runs and that may be killed;
nothing is promised to happen there.

## 5. Proofs

Checked by TLAPS for every value of the constants that satisfies the named
assumptions of the modules (`LedgerAssumption`, `NoneAssumption`,
`EngineAssumption`, `SymbolsAssumption`, `PositionsAssumption`,
`ReasonsAssumption`, `RunnerAssumption`, `LockAssumption`,
`ArchiveAssumption`, `DiscoveryAssumption`, `BacktestAssumption`,
`StrategyAssumption`, `CrossSectionAssumption`, `SpotAssumption`,
`ReplayAssumption`): numbers are
natural where the code's are, and the marks for "nothing" are none of the values
they stand beside.  What the replays read is assumed to have its type and no more:
a history is any sequence of bars, in any order and with gaps (`Bars` has integer
prices, none of them related to another); a view of the exchange (`IsView`) has any
pairs, each shown once, whose book is neither empty nor crossed, because the scan
and the market report leave such books out (`universe.py:64` and `:282`,
`v2_market.py:107`); the windows of the indicators fit into the bars they wait for;
every protocol has a configuration to replay.  `BacktestAssumption` also says that the unit of money makes
every division by a midpoint exact: the rounding of `Decimal` at its 28th digit is
outside of the theorems, as it is outside of the runs.

Every inductive invariant named here was an invariant of a run of TLC before it
was proved.

* `PaperLedgerProofs`.  `LedgerInv` is inductive.  Round trips stay apart because
  the last exit dominates every recorded instant (`Dominated`) and the
  cool-down is measured from it: without that conjunct nothing relates a new entry
  to the older exits.  The day's counter is the cardinality of the day's trips, so
  the finiteness of the set of trips is carried along.  What an entry, an exit and
  the clock do to a sound ledger is stated of the value (`EnterIsSound`,
  `ExitIsSound`, `SoundLater`), because a step of a replay does all three.
* `ReplayProofs`.  `ReplaysObeyLedger`, from `LedgerKept`.  The replay of V2 does not
  count its entries but the trades that ended on the day: `Counted` says that it has
  entered at most once more than that, and only while it holds a position; V3 counts
  its entries.  The end of the data closes at the last bar of the position's symbol
  or at the last section, which `Placed` shows not to come before the entry.
  `UniversesStayFrozen`, of the pairs and of what the freeze records of them (the
  fee that V1 reads again at each run is not among it), from `FrozenKept`: a file is absent, torn or whole, and a
  torn one ends the protocol that would read it, because no command replaces it.
  What a command has read of the freeze is what the freeze holds, and what V2 reads
  of the market report lies inside the freeze although the report is another file:
  the report is rewritten only while there is no freeze yet.  That a replay of V3
  selects inside the universe of its report needs that no view of the exchange
  lists a symbol twice.
  `ReplaysAddUp` and `ReplaysLoseWithinBudget`, from `SourcesKept` and `MoneyKept`.
  The first says where numbers come from: the files hold scans and reports of views
  of the exchange, a command holds pairs of them, so that fees, half-spreads and
  slippages are no gains (`ScenarioIs`) and the bars, signals and rankings that a
  replay reads are made of whole numbers, through every loop of the strategies
  (`GenerateV1Is`, `GenerateV2Is`, `SectionsAre`).  That the steps of the quantities
  of V3 are positive rests on the scan that preceded it.  The second says of the
  account that the equity is the capital and the results of its round trips, and
  that a day started with what those that ended before it left.  While a replay
  runs, no round trip lies in the future and every day with one has its start
  (`InPlay`): without that, a close would change what an earlier start is measured
  by.  A result is market less spread, slippage and commission exactly, for the two
  sides of a round trip are one polynomial in the prices and the rates
  (`TradeAddsUp`).  V3 sizes by the distance of the stop plus the fees, slippage
  and half-spreads of two sides; `Safe` carries that bound with the position, and
  `RelativePositionIs` shows that the rounding of the quantity to its step keeps it
  and that a sale at the stop, which is below the entry, costs no more than the
  purchase did.
* `SumsProofs`.  `SetInduction`: a set that holds 0 and with each number the next
  one holds them all.  It is proved from the cardinality of intervals (the numbers
  missing below a missing one could be mapped one to one into fewer) and replaces
  the library's induction theorems, whose parameter is an operator and which no
  installed prover can instantiate: here the hypothesis is a set, and a property of
  every round of a loop is the set of the rounds that have it.  From it, the
  recursive function of `Scan` exists (`ScanExists`, `ScanDefinition`), and a total
  grows by what is appended (`TotalAppend`), what is taken from a sequence or sorted
  has its elements (`OnlyType`, `SortedType`), sorting rearranges a sequence along a
  bijection of its places (`SortedPermutes`), and by an order it puts it in order
  (`SortedInOrder`).
* `PaperEngineProofs`.  `EngineInv` is inductive.  `PnLDecomposes` needs that the
  costs recorded at the entry explain the fill (`EntryCostsExplainFill`);
  `ExcursionsEncloseExit` needs that after `mark` the excursions of the open
  position enclose the quotes of the cycle (`ExcursionsEncloseQuotes`).
  `SurvivorsStayInside` needs `MarkedInsideLimits`: what `mark` leaves open is
  inside its limits until `process_signal` of the same cycle, which changes neither
  quotes nor limits.  `CurveIsReplayed` needs `CurveInv`: equity is the last sum of
  the net results, the peak and the worst drawdown are the largest members of the
  sets of points and of falls, and one trade adds one point to the first and its
  distance from the peak to the second.  `EntriesStayInsideLimits` needs
  `BaselinesInv`: a day that has seen an entry has its baseline, no baseline and no
  exit is of the future; an exit after the last entry of a day then changes no sum
  that an entry was measured by.  `EngineImplementsLedger` maps `Mark`, when it
  sells, and the sales of `ProcessSignal` to `Close`, `EnterOn` to `Open`, the
  clock to `Tick`, the rest to a stutter.  With `PaperLedgerProofs` it follows that
  the engine's round trips stay apart and inside the budget for any quotes, sizings
  and answers.
* `ForwardRunnerProofs`.  `RunnerInv`, with the ledger's invariant for the account
  in memory and for the one on disk, is inductive.  Every step of the process steps
  the ledger in memory or leaves it; a checkpoint copies memory to disk, a restart
  copies disk to memory, so that either keeps its invariant from the other's.
  `EveryBarIsDecided` rests on the relation between `pc`, the bar in hand and the
  log; `CheckpointNeverRegresses` on the account in memory being an extension of
  the one on disk.  Three more invariants build on it.
  `RepeatsAreOfDeaths` (`DecisionInv`): a decision that no memory has any more, the
  one after the checkpoint's last bar, counts as a repetition to come and has its
  death already; there is never more than one, because decisions are at most one
  bar ahead of the checkpoint.
  `SkippedBarsAreIdle` (`SkipInv`): besides the bars that are skipped and have an
  order, two kinds are counted against the errors and deaths because they may still
  become such: bars with an order that whoever reads the memory or the checkpoint
  will decide again, and bars logged as skipped that the checkpoint lacks and a
  successor may work on again (`Reopened`).  The bar under way is at risk only once
  its cycle fails or its process dies; one fault puts one bar at risk.
  `LogIsTheAccount` (`StoryInv`): what the log lacks of the account has its error;
  what it has beyond the checkpoint has its death or its error, or was appended by
  the cycle under way, which has one event only.
  The lock of the runner: `NoRaceInv` is inductive.  Without a race one process is
  acquiring, what it has read is what the file holds, and a process beyond the
  acquisition owns the file, so that nobody removes it.
* `MarketArchiveProofs`.  `ArchiveInv` is inductive: what a running repair has left
  to fetch is missing from the history and lies ahead of its cursor, and what it
  has passed is stored.  The store deduplicates by date only, so uniqueness does
  not follow from the store but from this relation (`HistoryStaysUnique`);
  completeness (`RepairsComplete`) is the same relation with nothing left.
* `EventDiscoveryProofs`.  `BoundIsSound`: no ticks give a triggered direction a
  score above the bound of its minute.  From it, a spared second has a decision
  that neither opens nor extends an episode and is below the thresholds that the
  shortcut compares with, so that the step is one of `EpisodeScan`
  (`DiscoveryImplementsScan`).
* `BacktestEngineProofs`.  All five properties of the backtest, from one inductive
  invariant, `EngineInv` (`EngineInvariant`).  Most of it is `Sound`, which speaks
  of an engine and not of a state of the run, so that each operation has one lemma
  (a sound engine stays sound: `RefuseSound`, `OpenSound`, `CloseSound`,
  `EnterSound`, `ExitSound`, `MarkSound`, `DueSound`, `ProtectionSound`,
  `EndSound`) and an action, which is a chain of operations, chains the lemmas.
  `Queued` says that at most one request waits and fits the position: nothing in
  the code bounds the queue, the refusals of `open_market_position` and
  `close_position` do it together with `_check_protection`, which drops a close
  when a stop takes its position.  `Continued` orders trades, position and queue in
  time and in sequence numbers, from which `TradesAreOrdered` and the uniqueness of
  the numbers follow (`NumbersAreUnique`).  A result is exactly its gross less
  spread and slippage, although each of the four is divided by the midpoint on its
  own, because what is taken out divides without a rest (`MoneySplits`,
  `Decomposes`).  `MetricsAgree` has two inductions over the
  rounds of a loop: the fall found in one pass is the deepest between any two
  points (`DrawdownIsDeepest`), the streak is the longest interval of losses
  (`StreakIsLongest`).

Only model-checked: all liveness (`EveryClosedBarIsHandled`, `LoneStarterRuns`,
`RepairEnds`), which TLAPS does not treat; the properties of the history and of the
research; and of the replays `DecisionsAreCausal`.  The history and the research are
built from operators on sequences that take an operator (`FoldLeft`, `SelectSeq`,
`SortSeq`), about which nothing can be shown here; their loops would have to be
restated as `Scan` first, as those of the two engines, of the universes and of the
strategies were.  `DecisionsAreCausal` compares what two histories that
agree so far give: it needs, of each indicator, that an entry depends on the entries
before it alone, which is an induction over each of their loops and not one over the
steps of a replay.

## 6. Abstractions

* Prices, fees and slippage are small integers.  Where the code keeps decimals,
  amounts are counted in units small enough to be exact or are rounded down in one
  place, named in the module.
* `PaperEngine`: slippage and fee rates are the same for all symbols; the strategy
  and the risk engine are arbitrary within what they may return.
* `ForwardRunner`: what `mark` and `process_signal` do to the account is left to
  the rules of `Ledger`.  A bar that is not in time is more than 60 seconds late;
  the instants are coarser than that minute.  Appending a line to the log is
  atomic.  Nothing in the code bounds how late a decision is taken once the repair
  has begun, and no property says anything of it: `MaxCycle` bounds the model's
  clock only.
* `RunnerLock`: the pid of a dead process is not reused, and processes belong to
  one user.
* `MarketArchive`: the clocks of the exchange and of the program agree.  The raw
  copies, which nothing reads, the intervals other than one minute, whose keys
  differ, trades and books, which go through the same `write`, and the stream's
  updates of a forming candle, which no reader takes, are left out.
  `collect_historical_m1` pages as the repair does, without a window, and writes
  what it receives to the same dataset without asking what is there
  (`historical.py:67-78`): `HistoryHasNoDuplicates` is about what the repair writes.
* `Replay`: the exchange moves between commands only; a collection within a command
  sees one history.  The market report of V2 is one step.  Maker orders are never
  credible, as in the code's report without a live queue.
* `BacktestEngine`: prices stay positive after slippage (`slippage.py:26` raises a
  `ValueError` otherwise), every operation is asked for on a tick (`_require_tick`),
  and the drawdown in percent, which is a function of the curve, is left out.
* `HistoryCollect`: of the three timeframes one is kept; the others are built in
  the same way.
* `ResearchProgram`: scikit-learn is external; a fitted model estimates by the
  average of the training rows that it cannot tell from the row in question, all
  of them or those that moved like it.  The bootstrap's bounds are any bounds.  What
  is computed from a tape is computed once, since a tape does not change while it
  is collected, and ticks are collected between commands only.  More ticks come at
  the end of a tape, and the interval of a command is fixed:
  `CachedObservationsStayTrue` says nothing of a cache that another `--start` or
  `--end` finds.  The check of the frozen engine's own source
  (`_assert_frozen_engine`, `research_v2.py:1076`), which ends a command before it
  does anything, is left out.
* `EventDiscovery`: any bars and any ticks may come.  What an episode records of
  the features and of the market after it is left out.

## 7. Not modelled

* `archive_pre_parity_and_create_epoch` (`forward_paper.py` 243-285): a one-off
  without a caller, whose last step is the atomic replacement of the checkpoint
  that the runner then loads.
* The figures of the status and daily reports and of `concentration_audit`: they
  are functions of the account that nothing reads back.
* The REST client's retries, signing and clock offset: they lie within one call.
  Every call that the models make of it may fail.
* The audits of V3 that compare a function with itself along two paths
  (`v3_parity`): both paths are one definition here.
* Indicators that are numbers without a decision of their own (EMA, patterns,
  structure), position sizing of the MT5 half, the broker survey.
* D.4 to D.6 and D.11 to D.14: statistics over the observations of D.8 and D.9, by
  data-frame operations and models of scikit-learn, with files written once.
* Option parsing, printing, rendering, the breakdowns of reports.
