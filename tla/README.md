# Daybagger in TLA+

Daybagger is a paper-trading system for Indian intraday equities.  This
directory holds TLA+ models of the parts of it that keep state and interact,
TLC configurations that check them on small instances, and theorems that TLAPS
proves for every instance.  Paths below are relative to the repository root.

## 1. Inventory

The repository contains two trading programs that share nothing but the host,
and tools around them.

* The **signal engine** (`daybagger/engine/`): signals arrive over ZeroMQ, are
  sized, pass a portfolio gate inside a DuckDB transaction and become positions
  of an *order desk*, which closes them when a price crosses a level or the day
  ends.
* The **paper runtime** (`daybagger/runtime/`, `decision/`, `execution/`,
  `operations/`): a loop of cycles that read the market, exit what is due,
  rank candidates, fill some of them into a SQLite ledger and later learn from
  what became of all of them.

| component | source | state | operations | talks to |
|---|---|---|---|---|
| signal listener | `engine/signal_listener.py` | `latest_prices` | one loop iteration per message | calls risk desk and order desk |
| risk desk | `engine/risk_gate.py` (`RiskDesk`) | none | `evaluate` one signal | called by the listener |
| portfolio gate | `engine/risk_gate.py`, `risk_metadata.py` | none | `rejection_reason` | called inside the desk's transaction |
| order desk | `engine/order_desk.py` | DuckDB ledger, `open_instrument_locks`, `portfolio_admission_mutex`; `active_positions` in memory | constructor, `record_signal`, `evaluate_open_positions` | DuckDB |
| telemetry daemon | `engine/telemetry_daemon.py` | last heartbeat, end-of-day flag | one poll every 30 s | systemd, Telegram, reads the desk's database |
| paper runtime | `runtime/paper_runtime.py`, `session.py`, `archive/scripts/run_paper_runtime.py` | lock file, the `CapitalState` of a cycle | `run_cycle` in a loop | ledger, trace store, market data |
| paper ledger | `runtime/ledger.py` | SQLite positions and closed trades | `open_fill`, `close_fill`, queries | SQLite |
| broker and costs | `execution/paper.py`, `integration/costs.py` | none | fill price, statutory charges | - |
| decisions and sizing | `decision/baseline.py`, `risk.py` | none | `decide_baseline`, `allocate`, `size` | - |
| trace store, outcomes, learning | `operations/trace_store.py`, `outcomes.py`, `decision/learning.py` | two SQLite databases | record a decision, label it, weigh a model | market data |
| billing guard | `operations/oci_billing_guard.py` | `LOCKDOWN.json`, `last-check.json` | one check per timer tick | OCI, systemd |
| market data | `data/upstox.py`, `universe.py` | candle caches | quotes, candles, instruments | HTTP |
| intelligence, meta, specialists | `intelligence/`, `meta/`, `specialists/` | none | float features and models | - |
| CPR/OI study | `validation/reconciled_cpr_oi.py`, `scripts/run_reconciled_cpr_oi_backtest.py` | candle cache, dataset hash | download, reconcile, simulate, filter | HTTP, thread pool |
| meta validation | `validation/meta_intelligence.py`, `historical.py`, `registry.py`, `meta/stack.py` | candle cache, evidence, registry and model files | one long batch run | HTTP, files the paper runtime reads |
| configuration, notification, readiness | `config.py`, `bootstrap.py`, `runtime/telegram.py`, ... | none | start-up checks, messages | - |

What is hard in each, and what makes it correct:

* **Order desk.** Several desks (objects or threads of one process: DuckDB's
  file lock keeps a second writing process out) read a portfolio and write into
  it.  The portfolio read, the lock row and the ledger row are separate
  statements; contention raises and is retried a bounded number of times; the
  in-memory positions are updated after the commit and lost by a restart.
  Correct means: one open row per instrument; the lock table and the open rows
  agree; every admission is decided on the ledger it commits to; no position
  is orphaned; calls return.
* **Portfolio gate.** Every rule looks at a newcomer against the book, the
  limits are meant of the book as a whole, whatever the order of admissions.
* **Listener.** Nothing happens between messages; messages repeat, expire, get
  lost; an exit can raise in the middle of a scan.  Correct means: no known
  price leaves a breached position behind; after square-off the book stays
  flat.
* **Paper runtime and ledger.** `open_fill` and `close_fill` SELECT before the
  transaction of their INSERT or UPDATE starts; the capital is read once and
  carried through a loop of fills that may fail; the time is read once and used
  minutes later; any exception ends the cycle; processes die.  Correct means:
  one open position per symbol, a trade per close, limits respected, nothing
  opened too late, the last sweep complete but for failures.
* **Learning.** An observation goes into one database and the mark that it was
  made into another.  Correct means: none is lost, none is repeated without an
  interruption, all that can be labelled is.

* **Market scan.** A cycle reads quotes, sectors and candles one request after
  the other over several minutes while the market goes on; each may be retried,
  refused or malformed.  Correct means: everything that is compared is of one
  minute.
* **Telemetry daemon.** What was sent is remembered in globals; a fault skips
  the rest of an iteration.  Correct means: one summary a day, unless a named
  fault or restart explains another number.
* **Billing guard.** A check is a chain of steps that fail one by one, the
  reaction depends on a file the operator edits, costs arrive late, with credits
  and in other currencies.  Correct means: no exit 0 beside a cost, no reported
  lockdown that did not happen, and in the end a lockdown.
* **Studies and validation.** Caches survive deaths and overlap with other
  runs; data have gaps; a split must keep the future, the holdout sessions and
  the held-out symbols out of what is fitted.  Correct means: what is reported
  rests on what it says it rests on.

The complete list of hazards, each at its line, is in `PROJECT.json`.

## 2. Modules

```
RiskGate  <-- LedgerRows <-- PaperBook <-- PaperBookProofs
                   ^             ^    ^         : its limits, instantiated by
                   |   refines   |    | INSTANCE: OrderDeskProofs and
                OrderDesk -------+    |         : SignalListenerProofs
                   ^                  SignalListener <-- SignalListenerProofs
            OrderDeskProofs

PaperAccount  <-- PaperRuntime <-- PaperRuntimeProofs
(abstract account)  (refines it)

OutcomeLearning <-- OutcomeLearningProofs

MarketScan   TelemetryDaemon   BillingGuard          run by MCHosts,
                                                     proved about in HostsProofs
TradeCosts <-- CprOiSimulation   ReconciledData
MetaValidation   PortfolioReplay   ModelFiles        run by MCResearch,
                                                     proved about in ResearchProofs

SetLemmas: sums over finite sets, used by the proofs of PaperBook, PaperRuntime,
           the hosts and the research programs
```

**`RiskGate`** is `PortfolioRiskGate.rejection_reason` and the correlation
look-up as pure operators over sets of signals, and the two statements about a
whole book the rules exist for (`ExposureWithinLimits`,
`NoDenselyCorrelatedGroup`).  Rupees are integers.

**`LedgerRows`** is what the desk's tables say: status of a signal's row, which
rows are open, what was realised on a day.  `Legacy` signals are OPEN rows of a
database older than the lock table.

**`PaperBook`** is the abstract specification: `Admit`, `Reject`, `Close`,
`NextDay`, each one step.  It is what the rest of the system may believe of the
desk, and `SignalListener` is built on it.

**`OrderDesk`** is the transactional desk.  `ledger` is the committed database;
`pc`, `call`, `due`, `tries` are a desk's thread; `mutexOwner`, `snap`,
`mutexCurrent`, `verdict` its transaction; `held`, `heldQty` the keys and
quantities of `active_positions`.  `InitDb` and `HydrateActiveState` or
`HydrateRaises` (an OPEN row that makes no position) are the
constructor (with the migration that adds missing locks); `RecordSignal`,
`Begin`, `UpdateMutex`, the four verdicts (`SignalReplay`,
`DuplicateDbLocked`, `AdmitSignal`, `RejectSignal`), `Commit` and
`RecordReturns` are one `record_signal`; `EvaluateOpenPositions`,
`ClosePosition`/`ZeroQuantity`, `DecideClose`/`CloseRefused`, `Commit` and
`CloseReturns` are one scan; `AttachConflict`, `WriteConflict` and
`TransactionFails` with `RetryOrRaise` are the retry loops.  `Crash` takes all
desks of the process down and rolls their transactions back.

DuckDB is external.  The model assumes of it what the code relies on: a
transaction reads the snapshot of its BEGIN, its writes are invisible until
COMMIT, and an UPDATE of the mutex row raises when another transaction has an
uncommitted write of it or has committed one since the snapshot.  `InitDb` is
atomic: its statements are idempotent autocommits that no property
distinguishes from one.

**`SignalListener`** is the production loop: `Receive` stores the message's
price and computes the exits that are due; `Exit`/`ExitRaises` walk them in any
order; the message is then blocked, admitted, rejected, a replay, or leaves
nothing.  `interrupted`, `swept` and `openedOn` are history variables.

**`PaperAccount`** is the abstract account: open and close in one step,
within the allocator's and the sizer's limits.  **`PaperRuntime`** refines it:
`Launch` is the `flock`; a cycle is `BeginCycle`, then one position at a time
`KeepPosition`, `StartClose`/`CommitClose` or `ExitFails`, then `EndExits`,
`Scan`, `ReadCapital`, one candidate at a time `RejectCandidate` or
`StartOpen`/`CommitOpen`/`ReserveFill`, and `EndCycle`.  `StartClose` and
`StartOpen` are the SELECTs, `CommitClose` and `CommitOpen` the transactions, and
`ReserveFill` takes the fill off the capital the cycle carries, or raises when it
is not covered and leaves a row that nothing was reserved for.  `CycleRaises` is the
script's `except`; `Crash` releases the lock as the kernel does.  The order of
positions, rows and candidates is nondeterministic.

**`OutcomeLearning`** is the pair of stores: `RecordDecision`, then at the end
of a full cycle `PendingOutcomes`, one trace at a time
`FetchCandles`/`NoCandles`/`NoOutcome`/`RecordOutcome`, and
`MarkOutcomeRecorded`.  `BeginShortCycle` is a cycle that returns early: once
the entry window is over, or at any time for want of usable symbols.

**`MarketScan`** is the part of `run_cycle` between the exits and the entries.
`minute` and `feed` are the market, `fetched` the candles as they were when
their request was answered.  `request` walks through timings, instruments
(`LoadUniverse`), quotes in batches (`QuoteBatch`), `ChooseDeep`, sectors, the
three indices (`FetchContext`) and each stock (`FetchStock`); every request is
answered, retried (`Retry`) or abandons the cycle.  `AlignData` cuts all series to
the last minute the indices share, `Decide` is `decide_baseline` and `Reject`
its exceptions.  `PaperRuntime` takes the result as a nondeterministic set of
candidates, so the two can be checked apart.

**`TelemetryDaemon`** is `run_loop` in units of five minutes: `ServiceFault` is
the early `continue`, `HealthyPoll` the rest of an iteration.  `healthy`,
`cleared`, `restarts`, `report` and `summaries` are histories of the day.

**`BillingGuard`** is one check after the other: `StartCheck` reads the
configuration, `QueryRecentCosts`/`QueryFails` is the query with the evaluation,
`SaveCheck` the payload, `WriteMarker`, `StopUnit`, `StopInstance`,
`EndLockdown` the reaction, each with its failure; `Exit` is `main`'s mapping to
return codes.  The environment publishes costs, edits the configuration, removes
the marker and starts units and the VM again.

**`TradeCosts`** is the arithmetic of `integration/costs.py` (cap, both roundings,
the linear estimate) and of `RiskDesk.evaluate` over integers.
**`CprOiSimulation`** uses it: a day's bars are laid out, walked
(`EnterBar`/`ProbeOn`/`CloseTrade`/`ExcludeTrade`), then `FilterNext` is
`portfolio_filter` over trades of several symbols and days.

**`ReconciledData`** is the study's download: the main thread, a pool of
`Workers` tasks, the API lock with its retries, the cache whose files a death
leaves torn, the hash, the reconciliation with the exchange's archive and the
report.  **`MetaValidation`** follows what may be looked at when: a sample is the
set of candle cells its features and label read, `Fold`, `EvaluateHorizon`,
`SelectHorizon` and `EvaluateHoldout` record what they fit and judge.
**`PortfolioReplay`** is its `_evaluate_portfolio`: `NextTimestamp` settles what is
due and reads the capital anew, then the candidates come by prediction, are
allocated from the carried `capital` (`AllocatorApproves`, `MaxLoss` and
`Deployable` are `AdaptiveCapitalAllocator.allocate`) and reserved.
**`ModelFiles`** is the file side of it, with inodes, truncation on open and
renaming, for several runs at once that may die anywhere.

`MCHosts` and `MCResearch` instantiate programs that never meet.  The variable
`live` says which of them moves in a behaviour; the others keep their initial
state, so a run is the sum and not the product of its parts, and every part is
explored completely.

Mutated definitions beside the real ones (`\* Mutant: ...`) are plausible bugs;
`PROJECT.json` pairs each property with one that breaks it.

## 3. Runs

| run | instance | what it shows |
|---|---|---|
| `desk_locks` | 2 desks, 3 signals of which 2 share an instrument, 1 legacy row, 2 tries | one open row per instrument, locks mirror open rows, the mutex owner reads the present, no orphan, a desk that is alone holds what the ledger has open, **refinement of `PaperBook`** |
| `desk_retry` | 2 desks, 2 signals of one instrument, 2 days, fairness | every call returns |
| `book_limits` | 5 signals, 2 sectors, correlated triangle | limits of the whole book, no densely correlated group, the day's loss is bounded by the stop plus what was open |
| `listener` | 5 messages (levels that hit each other, an expiring one, one without a price), 2 days of 4 moments | no breached position at a seen price; flat after square-off |
| `runtime` | 2 processes, 3 fills of 2 symbols, 2 days of 6 moments, fairness | risk limit, one position per symbol, one trade per close, capital view current, no late entry, complete sweep, **refinement of `PaperAccount`**, cycles end |
| `learning` | 3 traces of 2 symbols, one without a bar, 2 sessions of 5 moments, 1 extra request | nothing lost, duplicates only by interruption, late decisions never learned, full cycles label all they can |
| `hosts` | `live` = daemon: 2 days, 2 restarts a day; guard: 4 cost lines, 4 hours, 5 configurations, 2 units; scan: 4 stocks, 3 minutes, a lagging feed, fairness of the guard | missed and repeated summaries are explained by faults and restarts; exit 0 means no cost, a reported lockdown happened, a visible cost is locked in the end; all decisions of a cycle are of one minute and go the market's way |
| `research` | `live` = data: 2 days, 2 futures, 2 workers, 2 runs; simulation: 4 bars of 7 shapes, 6 of 9 trades; meta: 5 symbols, 8 sessions, 7 archives, 2 horizons; files: 3 runs, 2 at a time; replay: up to 6 of 10 scored rows over 2 sessions | only complete, reconciled sessions are simulated and equal hashes mean equal data; simulated trades follow the tape, pay for their target and fit the book; nothing is fitted on the holdout sessions or the future; the replay keeps its reservations covered and its limits; a loadable model has its evidence, and only overlapping runs or a death damage a file |
| `desk_replay` | 1 desk, 3 signals, 2 days | *violated*: a replay sets the quantity of an open position to 0 |
| `listener_overnight` | as `listener` | *violated*: a position stays open overnight |
| `learning_late` | as `learning` | *violated*: the last decisions of a session are not labelled |
| `holdout_leak` | as `research` | *violated*: development fits read candles of held-out symbols |

### Bounds

* `TransactionRetries = 2` (20 by default): one failed try and one that gives up
  are all the cases of the counter.
* `MaxDay = 1`: what one day can leave for the next (open rows, realised
  results, pending traces) crosses one midnight.  In `desk_locks` `MaxDay = 0`: none of its properties
  mentions the day.
* `Slots` and the moments `EntryEnd`, `SquareOff`, `MandatoryExit`, ... keep the
  order of the session's times and leave at least one slot in each period the
  code distinguishes.  In `runtime` `MarketOpen = 0`: a cycle before the opening
  takes the same branch as one after the cutoff.  In `learning` the two slots
  after `LastFullCycle` are the horizon.
* `CycleSlots < Horizon` is an assumption of `PaperRuntime`, not a fact of the
  code: nothing bounds a cycle.  Read: *if* a cycle takes less than the 15
  minutes of the baseline's horizon, then no entry is late.  Ticks happen
  during a cycle up to that bound; for the desks, the listener and the
  labelling, calls are short against a slot and time passes between them.
* `MaxRows = 3` bounds the duplicates of an observation, `MaxExtraFetches = 1`
  (20 in the code) makes the budget bind with two symbols.
* `hosts`: a unit of the daemon is five minutes, since an iteration takes half a
  minute or three; two days show what a flag does to the next one.  The
  guard's costs belong to the first two of four hours, so that with a lookback of
  two they enter the window, leave it, or are published too late for it; `MaxAttempts = 2`, `BatchSize = 2` and `MinBars = 1` give every
  retry, batch border and short series a case.
* `research`: two completed runs are enough to compare two hashes and to find a
  file the first one left torn; `ChunkDays = 2` puts two days into one request.
  The thresholds of the meta validation (55 sessions, 30 for training, ...) are
  scaled to eight sessions in the same order, and each `Archives` entry fails
  one of them.  `Workers = 2` with one archive worker is the smallest pool in which
  tasks overlap.  Rates of `TradeCosts` are scaled so that the cap of the brokerage
  and both roundings occur; the prices lie around pivots of 36 and 44, far enough
  apart for stops of the least distance (3 here; ten paise in the code).
* Deadlock is not checked: a system whose signals, days and fills are used up
  rightly stops.
* `SYMMETRY` is used in `desk_locks` for the two desks, which nothing tells
  apart and which has no liveness property.

The rupee values are chosen so that each rule binds: two fills that fit the
risk limit but not the cash and conversely, a loss that ends the day, notional
and sector limits that admit two of three.

### Fairness

`desk_retry` assumes `WF_vars(Step(d))` for each desk and `runtime`
`WF_vars(Step(p))` for each process: a thread that is inside a call or a cycle
goes on running, which is all the operating system gives.  Nobody has to call,
launch, deliver a message or advance the clock.  A crash ends a call or a cycle
too; the properties allow for it.  No strong fairness is assumed of them: in
`desk_retry` a try that meets contention fails and is counted, so the loop ends
by its budget and not by luck.

`hosts` assumes `GuardFairness` when the guard is live: a check that runs goes
on, its timer starts checks for ever (every 15 minutes,
`deploy/daybagger-billing-guard.timer`), and
strongly that among infinitely many checks some query is answered or refused,
some payload is saved and some marker is written without the check being killed
at that point.  Without the last a disk that is full for ever would refute the
property and say nothing of the guard.  Nothing is assumed of the operator, of
OCI's publishing or of a stop of the instance: `CostIsLocked` promises the
marker, not the stop.

### Findings

* **`desk_replay` (code).** `record_signal` overwrites `active_positions` also
  for a replayed OPEN signal, with the quantity 0 of the replay branch
  (`order_desk.py:312`), which logs `Ignored existing signal` (line 369).  The
  next exit of that position raises `ValueError` in the cost estimate, so it
  cannot be closed before a restart, and it hides the positions behind it.
* **`listener_overnight` (doc).** `ARCHITECTURE.md:32` promises a mandatory exit
  at 15:15.  Exits run only when a message arrives and only for instruments
  whose price this process has seen.
* **`learning_late` (doc).** `ARCHITECTURE.md:15` says accepted and rejected
  opportunities are labelled from future candles.  A decision that matures
  after the last full cycle of its session never is: the remaining cycles of
  that day return before the labelling, later days fetch their own candles
  only.  The invariant `LateDecisionsStayPending` states the same positively.
* **`holdout_leak` (doc).** `validation/meta_intelligence.py:354` says the held-out
  symbols never contribute to development training.  No sample of theirs is
  fitted, but the cross-section state of every sample is computed from the
  candles of all usable symbols (lines 196-209), so the features that are fitted
  read theirs.  The holdout of *sessions* is clean: `HoldoutUnopened`.

Divergences noticed without a run: `telemetry_daemon.py:119` says the summary
fires once, a restart inside the window repeats it (`SummariesAreExplained` states
how often); the replay's allocator is said to be "the exact same" as the live one
(`meta_intelligence.py:866`), but its risk fraction is fixed by the starting capital,
where the runtime divides by the present equity (`paper_runtime.py:555`), so that
after gains a replayed position may risk more than `max_risk_per_trade_inr`; the
embargo of `meta_intelligence.py:667-673` excludes nothing, for a fold trains on
whole earlier sessions (`EmbargoRemovesNothing`);
`README.md:18` speaks of three positions,
the gate's default is four; `session.py` stops entries at 15:05 and exits at
15:10 where the architecture says 15:15; sizing rejections and failed
executions leave no trace, though every evaluated decision is said to be
persisted.

## 4. Theorems

Everything below is proved by `tlapm` for every value of the constants that
satisfies the modules' `ASSUME`s.  Each module states its inductive invariant
in named parts; a theorem about a property is that the invariant holds and
implies it.

**`OrderDeskProofs`**: `TypeCorrect`, `OneOpenRowPerInstrument`,
`LocksMirrorTheLedger`, `DecisionsReadThePresent`.  None of them is inductive.
The invariant `IInv` adds the chain the code's argument really is: the owner of
the mutex row is exactly the desk between its UPDATE and its end
(`OwnerIsDeciding`); a snapshot no mutex write has overtaken *is* the ledger
(`CurrentSnapshots`), because whoever commits has written the mutex; what a
desk has decided is right for its snapshot (`VerdictsJustified`); locks belong
to open rows and, once a desk has run `_init_db`, open rows have locks.  So a
commit writes a verdict that is right for the present ledger.

`PositionsAreLookedAfter` and `LoneDeskMirrorsLedger` are about the memory
beside the ledger.  `MemoryInv` adds that a desk which returns from a COMMIT
takes over what that commit wrote (`ReturnsFitLedger`), and that a desk which has
been alone differs from the ledger only by the commit it is returning from
(`LoneMemory`).

`DesksImplementBook` is `Spec => BookSpec`.  The mapping drops everything but
the ledger's three columns; a commit with verdict OPEN, REJECTED or CLOSED is
`Admit`, `Reject` or `Close`, justified by `VerdictsJustified` and
`CurrentSnapshots`; a commit of a replay and every other step stutters.  The
`Same...` lemmas say that the instance's operators are the desk's.

**`PaperBookProofs`**: `PositionLimitHolds`; `BookLimitsHold`, every portfolio and
sector limit on the sums of risk and notional; `NoCorrelatedCycleHolds`: a group in
which every member is correlated with `MaxCorrelatedPositions` others never
forms, although the rule looks from the newcomer only; and `DailyLossBound`: when
the daily stop engages, each position that is still open can lose at most the
worst exit, and no more than `MaxOpenPositions` are open.  Its invariant carries
the slack: realised loss plus what the open positions can still lose stays above
the bound.  Hypotheses, beside the assumptions on the constants: the rows found at
the first start (`Legacy`) respect the limit in question; for the sums they have
no negative risk or notional, which a later position could be set off against;
for the loss the set of results is finite, as an amount of money and a finite price
range make it.

`DesksKeepTheLimits`, `DesksAdmitNoCycle` and `DesksBoundTheDailyLoss`, in
`OrderDeskProofs`, say the same of the ledger that the desks share, under the same
hypotheses: whatever transactions interleave, lose the mutex, retry, fail or
crash.  No argument is repeated.  `Limits` is `PaperBookProofs` instantiated under
the refinement mapping; the `Limits...` lemmas discharge its assumptions and show
that its sums, cardinalities and verdicts are the desk's, `DesksKeepLimitsBook` that
the book it is about is the one the desks implement.

`CallsRunOut` is the part of `CallsReturn` that needs no fairness.  `WorkLeft(d)`
bounds the steps desk `d` has left: two for every attempt its retry budget still
allows, three for the attempt that gets the mutex, and a whole call for every
position its evaluation loop has not come to.  Every step of a thread inside a call
brings it down; nobody else changes it, however hard the desks contend; and it
starts at a value the budget fixes.  That each thread inside a call is allowed to
run is then all that termination takes, and this last step is TLC's.

**`SignalListenerProofs`**: `MemoryHoldsTheBook`, `ScansLeaveNoBreach`,
`SquareOffKeepsFlat`.  The invariant needs what a half-finished scan may rely
on: every open position the message's price makes due is still in `due`
(`ScanMissesNothing`), so that an exit which raises is the only way to leave one
behind, and a sweep happened at or past 15:15 (`SweptAfterSquareOff`), after the
entry cut-off.  `ListenerUsesTheBook` is `Spec => Book!Spec`.  The loop's
positions and prices are all entry prices of messages (`PricesAreEntries`), hence an
exit's result is that of a position closed at the entry price of a signal of
its instrument; the hypothesis `BookKnowsTheResults` is that the book's `Pnl`
contains these, finitely many.  `ListenerKeepsTheLimits`, `ListenerAdmitsNoCycle`
and `ListenerBoundsTheDailyLoss` follow for the listener as they do for the desks.

**`PaperRuntimeProofs`**: `OneRuntimeAtATime`, `OneOpenPositionPerSymbol`,
`EveryCloseIsBookedOnce`, `SweepIsComplete`, `EntriesAreInTime`.  The ledger
alone does not protect itself; `IInv` says that a process is up exactly
when it holds the lock (`OnlyHolderRuns`), hence what it has read of the fill in
its hand is still so when it writes (`HandIsCurrent`), and that in a mandatory
sweep every open position is still to be visited or has failed (`SweepCovers`).
Failed means within the loop's `try`: what raises outside it ends the cycle
(`CycleRaises`), and of such a sweep the theorem says nothing.
`EntriesAreInTime` uses `CycleSlots < Horizon`.

`CapitalViewHolds`: the capital that a cycle reads once and reduces in memory is what
the ledger would answer, but for the row whose reservation is the next step.  `AllInv`
adds `CapitalCovers`: between a candidate's checks and its row the view still covers
it, and between the row and its reservation the view is that one reservation behind,
so that the reservation does not raise.  `RuntimeImplementsAccount` is the
refinement (`CommitOpen` is `Open`, `CommitClose` is `Close`, everything else,
`ReserveFill` included, stutters), `AccountRiskIsBounded` the abstract account's limit, and
`RuntimeRiskIsBounded` follows from both without another look at the runtime.

`CyclesRunOut` is the part of `CycleEnds` that needs no fairness: `StepsLeft(p)`, two
for every position and three for every candidate the cycle has not dealt with and
one for every phase before it, falls with each step of the cycle, failures included, and with
nobody else's does it rise.  It rests on what a cycle has in hand being on its list
(`HandIsListed`): a position that fails is struck off, not tried again.  Hypothesis:
the universe is finite.

**`OutcomeLearningProofs`**: `NoObservationIsLost`,
`DuplicatesAreInterruptions`, `LateDecisionsAreNeverLearned`,
`FullCyclesLabelWhatTheyCan`.  The invariant counts: a pending trace that is not
in hand has at most as many rows as it was interrupted (`RowsAreAccountedFor`),
the trace in hand has one more and is not yet marked (`HandIsHalfway`), a row
needs a bar of a day on which a full cycle followed it (`RowsHaveBars`).

**`HostsProofs`**: `DaemonAccountsForSummaries` (the flag and a fault-free poll both
mean that a summary was sent, `FlagMeansSent`, and a summary leaves the flag up
until a restart, `SummariesCounted`); `QuietChecksSawNoCost` and `LockdownComesFirst`
(`CheckKnows`: the items a check evaluates are the window as it is, and whoever
stops units has written the marker); `ScanDecidesInOneMoment`, whose
`BegunIsShared` follows the minutes the three indices had in common from request
to request while candles keep arriving: they stay shared, so the last common
minute exists and no later candle enters a feature.

**`ResearchProofs`**

* `HoldoutStaysUnopened`: what was fitted or judged is a development sample
  (`OnlyDevelopmentUsed`); the last sessions of a finite calendar lie after all
  others (`LastAreLater`).  `ModelsKnowOnlyThePast`: the base models behind a row of a
  fold have seen earlier sessions only (`FoldIsHonest`, kept by `RowsAreHonest`), and
  so have the regressors, which know what they were fitted on and what the base
  models behind those rows were fitted on (`StackIsOrdered`).  The argument is the
  order of the sessions: `EmbargoRemovesNothing` shows that the embargo adds nothing
  to it.
* `RuntimeModelHasEvidence`, `FilesNeedOverlapToBreak` (`FilesInv`): what is in a model
  file, under whichever of its names, was written by runs with evidence and
  record (`ModelsSettled`); as long as no two runs wrote the candles at once, the
  one that does is alone with its draft and the file in place is complete
  (`CandlesInOrder`); the same of the registry, unless a run died in the write
  (`RegistryInOrder`).
* `SimulationFollowsTheTape` (`WalkInv`): bars passed since the entry touch neither
  level, and trades lie behind the walk.  `FilterKeepsTheBook` (`FilterInv`): the
  accepted trades are earlier than the queued ones, so at an opening nothing
  comes into the book afterwards.
* `TargetsPayForThemselves`: a trade that reaches its target earns money, for all
  prices.  What it earns is the edge times the quantity, less charges and slippage.
  The charges of the real turnover are at most the uncapped linear rate of both legs
  and half a unit for each rounding (`ChargesBound`, `MoneyRounds`); the probe the
  desk estimates with stays below the cap, so its charges are that same rate less
  half a unit at most (`ProbeBound`); the hurdle demands two and a half times the
  estimate (`ApprovedTrade`).  What is left of it pays for the roundings and for the
  exit lying higher than the entry, on which charges are levied too.  Of the
  rates the argument needs `RatesAssumption` (the probe of a thousand rupees costs
  one rupee of brokerage, the cap is twenty; its round trip costs more than a
  rounding; no stop is closer than three steps) and `SellingAssumption` (selling
  costs less than a tenth of the turnover; the published rates come to some 15
  basis points).
* `TradesStayWithinBudget`: no simulated trade risks more than the budget or buys for
  more than five times the capital: the cut by one does not undo the other.
* `HashIdentifiesData`, `SimulatedDaysAreGenuine` (`DataInv`): a finished report is a
  function of its hash (`ReportsAsHashed`), because what was read of a file and
  can be used is the file and is hashed (`Hashed`), the bars table holds the
  files collected whole (`SpoolOfFinished`) and the sessions are those hashed.
* `ReplayKeepsTheLimits` (`ReplayInv`): while there are candidates, the carried
  capital is that of the book (`CapitalIsCurrent`), and what is reserved was opened
  before the rows to come (`RowsInTime`).

**`SetLemmas`** makes sums provable.  `MapThenSumSet` is a recursive function whose
order `CHOOSE` fixes.  The lemmas show that such a function exists for every
finite set and that the sum does not depend on the order: `SumAdd`, `SumRemove`,
`SumSplit`, `SumMonotone`, `SumLowerBound`, and the least and greatest member of a
set of integers.  The library's induction takes an operator as a parameter and
cannot be instantiated here; the induction is by infinite descent instead: among
the finite sets that refute a claim one is smallest (`SmallestSet`), and without
one of its members it would not refute it.

What the proofs needed of the models:

* Constants are assumed to be numbers where the code computes with numbers
  (`SquareOff`, `Slots`, `SessionStart`, bar prices, the fields of a trade) and a trade to
  close after it opens.
* `ExitPrice` of `CprOiSimulation` was a `CASE` whose guards overlap on a bar that
  spans stop and target, and which therefore said nothing of the order.  The proof of
  `SimulationFollowsTheTape` failed there; now it is the code's chain of `if`s.
* `TargetPaysForItself` is false for arbitrary rates.  `RatesAssumption` and
  `SellingAssumption` state what of the published ones makes it true; the instance
  of `research`, whose rates are coarse, got prices twice as high and a least stop
  distance of three, so that it satisfies them.
* `BookKnowsTheResults` of the listener replaced a hypothesis no finite `Pnl` meets.
* `reserved` of `PortfolioReplay` was a sequence, rebuilt by `SelectSeq`, a
  recursion out of the prover's reach.  It is a function of places now, with the
  same reachable states in number.

**Only model-checked.**  The liveness properties `CallsReturn`, `CycleEnds` and
`CostIsLocked` (fairness and ENABLED are beyond the prover); of the first two
`CallsRunOut` and `CyclesRunOut` prove what does not depend on fairness.
The properties of the violation
runs, which are false.  The type invariants of the runtime's, the learning's,
the hosts' and the research programs' proofs are conjuncts of the invariants
proved there, not properties of runs; in a run, an ill-typed state would show in the
others.

## 5. Not modelled

* `_backfill_accounting` of the desk: fills columns of old rows, changes no
  status and no lock.
* The ranking score, `size` of `decision/risk.py`, the broker's
  slippage and quote age: pure functions; `PaperAccount` takes `Risk`, `Paid` and
  the like as constants and assumes of them what the functions guarantee.
* The statistics and weights of `ModelLearningStore`; minute prices and the
  labels computed from them.
* Floating-point features, model training and inference, calibration; the
  training of specialists and the walk-forward of `validation/walkforward.py`; the
  statistics of the evidence (rank correlation, calibration, bootstrap).  In
  `MetaValidation` a model is the
  set of samples it was fitted on and a score is chosen.
* HTTP, URLs, JSON and gzip, the option-chain, news and profile endpoints beyond
  what the scan needs.
* Configuration and bootstrap checks, Telegram texts, reports: they keep no state
  that outlives a call.
* Archived experiments under `archive/`, but for the script that runs the paper
  runtime.

Three hazards have no property: traces that can never be labelled use up the
request budget of later cycles (`paper_runtime.py:674`; the models stay below
the number that starves the queue), an expired message leaves its old price
behind (`signal_listener.py:36`; prices carry no time), and one position without a
two-sided book aborts the exits of a cycle (`paper_runtime.py:632`; `CycleRaises`
models it, nothing states what should hold).

## 6. Plan

1. *(done)* order desk, gate, book, refinement, listener.
2. *(done)* paper runtime over the account; outcome labelling.
3. *(done)* telemetry daemon, billing guard, market scan.
4. *(done)* costs, the CPR/OI study, the meta validation, its replay and its files.
5. *(done)* Proofs: every safety invariant and action property the passing runs
   check, and the three refinements.
6. *(done)* The limits of the book as theorems about the desks' ledger and the
   listener's, through the refinements; the bounds on calls and cycles.
7. **Sizing**: `ExecutionSizer.size` with its shrinking loop over `TradeCosts`,
   checked against the largest quantity the budget supports, and shown to return
   what `PaperAccount` assumes of it.
