# tradekit: TLA+ models and proofs

tradekit drafts trading theses, has them reviewed, gates every order through a policy engine,
fills orders on a simulated paper account, grades each thesis against the market and decides from
the grades whether an account may trade live. Everything it knows is one hash-chained SQLite event
log (the *ledger*); every state is a fold over that log, read again on each call. Several
operating-system processes share the file: the `tk` CLI, the hourly cadence and the HUD server.
Beside the desk, a fleet of collectors keeps order books and trades in an archive of Parquet
files, which other programs compact, backfill and repair. There are no locks above SQLite's: a
verb reads the log, decides, and appends later, each append a transaction of its own. That
read-then-append shape is where the hard behaviour is, and what these models are about.

Paths below are relative to `src/tradekit/`, or to the repository for `scripts/`. `PROJECT.json`
maps every definition to the lines it models and lists the hazards line by line.

## 1. Inventory

| Component | State it keeps | Operations | Talks to | What makes it correct |
|---|---|---|---|---|
| Thesis lifecycle (`thesis/`) | none; folds `ThesisDrafted`, `ThesisSubmitted`, `ReviewCompleted`, `ThesisApproved`, ... | draft, submit, approve, reject, grade, void, activation on a fill | ledger, reviewer, grading, order pipeline | only the diagram's edges, whatever stale appends arrive; structural VOID only behind attestation and sign-off |
| Reviewer (`review/`) | none | run_review, verify_claim | ledger, a model subprocess | a verdict is recorded before anyone relies on it |
| Order pipeline (`broker/_pipeline.py`, `_tokens.py`) | none | execute_order, execute_exit, cancel_order, reconcile, verify_token | policy, paper broker, lifecycle | a halt stops fills; activation only behind a fill; an exit flattens |
| Paper broker (`broker/_paper.py`) | none; folds `OrderSubmitted`, `FillRecorded` | submit, order_status, positions, fills | ledger, market data | one fill per order; limits fill only when traded through |
| Grading (`thesis/_grading.py`, `_grade_wiring.py`) | none | evaluate, evaluate_criteria, lookback | closed bars, clock | no lookahead, a verdict hindsight gives, always one by the horizon |
| Ledger store (`ledger/`) | the event table, FTS index, projection tables | append, query, rebuild, verify_chain | every component | an unbroken chain, each event stored once, projections whole |
| Promotion and series (`policy/_series.py`, part of `policy/__init__.py`) | none; folds grades, violations, grants, confirmations, demotions | promotion_status, confirm_promotion, maybe_close_series | ledger, cadence, CLI, report | a live tier is earned and is lost after a violation |
| Policy engine (`policy/_evaluate.py`, `_rules.py`, `_context.py`, `_dials.py`) | none | evaluate, assemble, the 18 rules | ledger, broker | the verdict is recorded before the act; what is missing denies |
| Halt control (`policy/__init__.py` halt, resume) | none; last of `HaltSet`/`HaltCleared` | halt, resume | pipeline, reconcile | a live-path halt needs a confirmation |
| Manual broker (`broker/_manual.py`) | none | record_manual_fill | lifecycle, policy | an external fill is never refused |
| Alpaca broker (`broker/_alpaca.py`) | none | submit, order_status, fills over HTTP | a venue | what the venue executed is recorded, or a reconcile halts |
| Registry (`broker/__init__.py`) | account rows | get, create_paper_account | brokers | a live adapter only behind its dial |
| Projections (`ledger/_projections.py`, `_models.py`) | theses, accounts, pnl_daily, series, promotion_state | rebuild, latest_grades, active_theses | ledger, report, cadence | agree with the live derivations |
| Cadence (`cadence/`) | none; a digest file | run_once: entries, exits, digest | all of the above | a failed step does not strand positions; nothing unreported |
| HUD server (`hud/_serve.py`) | none | POST /ack: confirm chain, binding evaluate | all of the above | never a second position in a pair |
| HUD funnel (`hud/_build.py`) | none; a scan log | build_state, preview, tickets, attrition | scanner, regime, policy | every ticket earned; the size shown is the size bound |
| CLI (`cli/main.py`) | none | thin dispatch of every verb | all of the above | its processes are those of the models |
| Market data (`mae/_runtime.py`, `mae/_data/`) | bar cache, token bucket | get_closed_bars, get_or_fetch, get_macro_bars | providers | closed bars final, rate bounded |
| Market analysis (`mae/`) | fitted regime model in two files | scan_markets, compute_regime, confluence, size_position | market data | a match is its filters; a regime is of a fresh fit |
| Tick collectors (`scripts/collect_*.py`, `collector_core.py`) | a session's timers, books, subscriptions; a cursor on disk | connect, receive, keepalive, flush | venues, the archive | the tape and the book the venue speaks of, within the age limit |
| Tick archive (`collector_core.py`, `scripts/compact_*.py`) | part files, hourly files, a lock file | flush, compact_hour, archive_lock | collectors | no readable row lost, none twice |
| Backfills (`scripts/backfill_*.py`) | markers, hourly files, a token | pull, verify, write, mark, resume | vendors | what is marked is whole |
| Repair (`scripts/repartition_archive.py`, `downsample_book.py`) | a lock file | rewrite a day | the archive | each row in its hour, once |
| Prop simulator (`prop/_sim.py`) | none | Monte Carlo walk | - | numerical |
| Memory, report, bridge, costs, contracts | - | search, formatting, desktop I/O, fee tables, data types | - | no state of their own |

The hard behaviours, in the order they matter:

1. **Read, then append.** Two processes act on one reading: double submit, two racing executions
   of one thesis, stale void, two grants.
2. **A verb is many appends.** A process dies between any two; what it appended stays.
3. **A halt against calls in flight.** The last check of a halt is long before the fill.
4. **Time.** Grades, windows, lookbacks and tokens compare stamps taken at different moments; bars
   close while a call runs.
5. **Lock errors and retries** in the ledger itself.
6. **Events nobody reads** (`OrderCancelled`, `passed` of a review, a `ThesisGraded` outside
   `active`): a call succeeds and has no effect.
7. **Two derivations of one fact**: the projections fold in log order, the live verbs in the order
   of stamps.
8. **A venue that answers late, in part or never.**
9. **Files instead of transactions**: the archive, the markers and the regime model are several
   files each, written one after the other and killed in between.
10. **Silence**: a quiet feed looks like a dead one; timers cut one another short.

## 2. The modules

| Module | Models | Kind |
|---|---|---|
| `ThesisMachine` | `_next_state`: the guarded fold every state is derived by | operators |
| `ThesisContract` | what the lifecycle promises: one edge at a time, VOID needs clearance | abstract spec |
| `ThesisLifecycle` | the verbs and the reviewer, any number of processes, crashes | detailed spec |
| `MoneyContract` | what one account's money path promises | abstract spec |
| `OrderPipeline` | entries, exits, polls, cancels, reconcile, halt, resume | detailed spec |
| `Grading` | one thesis graded against a moving market | spec over an algorithm |
| `LedgerStore` | append and rebuild as retried transactions | detailed spec |
| `Promotion` | series, grants, confirmation, demotion | detailed spec |
| `PolicyGate` | the counting rules of policy.evaluate over an account's log, and fills recorded by hand | detailed spec |
| `Rules` | all eighteen rules, the context assembled from the log, the verdict | detailed spec of an algorithm |
| `Projections` | rebuild's tables beside the live derivations (`ThesisMachine`, `Promotion`) | composition |
| `Venue` | an Alpaca account: submit, poll, reconcile, halt, resume over a lossy venue | detailed spec |
| `Desk` | cadence, HUD ack and operator over the same theses and positions | composition of verbs |
| `Funnel` | build_state and the sizing that binds | detailed spec |
| `Scanner` | scan_markets, its gate order and its audit trace | spec over an algorithm |
| `RegimeModel` | compute_regime over two files, shared by processes | detailed spec |
| `MarketData` | closed bars through cache, providers, retry and token bucket | detailed spec |
| `Feed` | one collector session and its timers | detailed spec |
| `Replay` | books and tapes made of a venue's frames | detailed spec |
| `Perps` | the Hyperliquid universe and its subscriptions, two tasks | detailed spec |
| `TapePoller` | the Binance.US cursor poller | detailed spec |
| `TickArchive` | the sink, compaction, the compaction lock | detailed spec |
| `BinanceArchive`, `ChdPull`, `GapFill` | the three backfills | detailed specs |
| `Repair` | the repair tools beside a compaction | detailed spec |
| `MCThesis`, `MCCollectors`, `MCReadings` | each one TLC instance of several modules that share no state: a behaviour is one of one of them | instances |
| `MC*` | instances for TLC: symmetry sets, contracts, grades | instances |
| `*Proofs` | theorems checked by TLAPS | proofs |

**ThesisLifecycle.** `state[t]` is the fold of `thesis/_machine.py` over t's events, carried along
instead of kept as a log; every append applies `NextState`, so an append that comes late is
ignored exactly when the code's next read would ignore it. `call[p]` is where process p is. A verb
is: a `Begin` (the `require_state` read and its refusal), one step per append (`SubmitSnapshot`,
`SubmitSizing`, `SubmitMarker`), and the reads in between that the code makes again (`VoidProceed`
re-reads the sign-off, `Grade` reads and appends at the market's pace). `Crash(p)` drops a call
anywhere. `reviews`, `attested`, `signoffs`, `graded` hold the part of the log a verb asks for
later. What a reviewer or the market answers is an input.

**OrderPipeline.** `orders`, `fills`, `position`, `halted` are the folds `PaperBroker` computes.
Each step is one append or one read a later step relies on: `Assemble` (the policy context: the
halt), `Allow`/`Deny`, `Verify` (verify_token's second look at the halt and at a newer deny),
`Submit`, `MarketFill`, the three activation steps, `Poll*` and `LimitFill` (order_status),
`Cancel`, and reconcile's two reads. The theses are long, on one symbol, so that orders of
different theses add up in one position. Policy rules other than R-001, bars and quotes are
inputs. Two ghost variables remember how calls lay in time: `overlap`, that a step was taken while
another process was inside a call, and `raced`, the theses two processes were executing at once.
Prices, fees in cash and equity are left out; the fee withheld in kind (`Withheld`) is kept, since
a sell of the bought quantity would otherwise be indistinguishable from a flat exit.

**Grading.** `Tick` moves the clock; the open bar's satisfied predicates may change until it
closes. `GradeNow` is `grade()` at any moment: the lookback in whole days back from then, the
closed bars of that window - those that opened before the activation too, as nothing in the code
drops them - and the scan of `evaluate_criteria` with its deadline tests and priorities. A
predicate is a category, a kind and a deadline. The bar cache is left to `MarketData`.

**LedgerStore.** The event table as `log`, the projections as the events they were rebuilt from
(`tables`: they are a function of those), the SQLite write lock as `writer`. An `append` stamps
its event once, then per attempt begins, reads the last hash, inserts and commits; `Attempt` is
`with_write_retry` after a lock error, from outside (`Busy`) or inside (`Abort`, with rollback)
the transaction. A digest stands for the sequence of events it covers (no collisions).

**Promotion.** The log of one account's grades, violations, grants, confirmations and demotions.
Series statistics are derived at each read as in `series_stats`: counts without voids, expectancy
over measured pnl, drawdown as pairs of equities on the account's running sum. A call of
`promotion_status` reads, closes series, reads the tier, and then either checks and appends a
grant or checks and appends a demotion; each may be ticks apart. A grant keeps the series it was
earned on, which in the code is recoverable only from its `criteria` and time. `Violate` stands
for any denied `evaluate` of the account: each failing rule appends a `GateViolationDetected`. The
default account of the code is a paper account, whose tier in R-002 is T1 whatever this ladder
says; the ladder matters once `default_account_ref` is a live one.

**PolicyGate.** One account of any kind and the rules whose answer depends on what earlier calls
did: R-002 (tier), R-007 (entries of the day), R-009 (trailing drawdown), R-011 (live budget).
`Allow` is `evaluate` reading the log and finding no denial; the order goes out in a later step
(`Submit`, `SubmitRests`), so another process may pass the same count. The other rules are an
input: `Deny` is always possible. A paper market order fills at once, a paper limit order and a
venue's order rest and are filled by a later `Poll`, which stamps a venue's fill with the venue's
time (`FillTimes`). `ManualFill`, `ManualActivate`, `ManualCheck` are the three appends of
`record_manual_fill`. `Curve` is the loop of `_trailing_drawdown_pct` with its running peak,
`Tripped` whether it reached the breaker. `late` is not in the code: it counts the orders sent out
while a limit stands. Live orders presume `live_trading_enabled` and keys, without which
`broker.get` refuses.

**Rules.** `log` is what the queries of `assemble` find for one account; every helper of
`_context.py` is an operator over it, every rule an operator over an action and a log, `Allowed`
the allowlist of `evaluate_pure`. Amounts are whole dollars, dials percentages. What mae makes of
a trade log is whether it earned. The actions are what the rest of the system appends; `Enter` is
an order that was allowed.

**Projections.** The log as records; `Row`, `SeriesRows`, `PromotionState` and the rest are what
`rebuild` materialises from it. A verb stamps its event in one step and appends it in the next, so
stamps and log order differ and two verbs decide on one reading. A series is complete for the
projection at exactly its end and for the policy just after: that tick is excepted by name.

**Venue.** `book` is the venue's, which executes an order in one trade or two, ends it, or loses
the answer to a POST; `submitted`, `fills` are the ledger's. `Status` polls any id, whether or not
the ledger has heard of the order, and records what is filled; `Compare` holds the ledger's fills
against one page of the venue's trades, `Page` long, whichever those are. Ghost variables
(`raced`, `seen`, `flagged`, `owed`, `slipped`) remember which known gaps a behaviour went
through; the property names them.

**Desk.** The verbs at the grain of their last append; `step` walks `run_once` over exits, the
skip set, tickets and the confirm chain; `Confirm` is POST /ack; operator and faults come between.
A position is the set of theses whose buys are in it.

**Funnel, Scanner, RegimeModel, MarketData.** What a market call answers is drawn where the code
makes the call, so two reads may disagree. `Funnel` walks the gates of one symbol after the other
and, at the end, sizes the thesis of each ticket as `thesis.submit` does. `Scanner` keeps the
pinned gate order, the regime cache and the lines of the trace. `RegimeModel` reads and writes
model and sidecar in steps, each file cut before it is written. `MarketData` separates the host's
clock from the venue's.

**The collectors.** `Feed` advances time only when no timer of the loop is due. `Replay` compares
the local book with one that is carried with each frame and that no collector reads; a
subscription has a scope (`Depth` levels at Kraken and Binance, `OkxLevels` at OKX, all at
Coinbase) and no frame says that a level left it because better ones came. `Perps` lets the REST
task change the universe between two sends of one `apply()`. `TapePoller` finds its cursor in the
newest day directory again after each death.

**The archive.** The state of `TickArchive`, the backfills and `Repair` is the directory tree, and
a step is one rename, write or unlink. `TickArchive` reads parts that may each be unreadable: such
a part is `warned` about, left out of the merge and unlinked with the rest (`Read`, `Unlink`). The
lock file is created, found, taken over, created again and given its pid in steps of their own, so
two runs can come upon the lock of a dead one together (`HolderDead`, `TakeOver`, `Recreate`). The
equities poller starts at its cursor or at the floor, whichever is later (`PollFetch`, `skipped`).
`BinanceArchive` may raise at any step between its first part and the marker (`Raises`). `Repair`
has several hours a day and several days: a repartition reads a whole day and re-files rows of any
of its hours to any hour before the cutoff, a downsampling carries the last kept row from hour to
hour, and either may be killed between the files it writes.

The other `MC` modules add nothing but model values. Some definitions are small plausible mistakes
(`GivenOrUnknown` beside `Given`), used to show that each property can fail; nothing in a
specification refers to them.

## 3. What the runs show

| Run | Instance | Shows |
|---|---|---|
| `thesis` | `ThesisLifecycle`: 3 processes, 1 structural thesis, up to 2 ThesisGraded, crashes; `Grading`: 4 contracts, bars of 2 ticks, days of 3, 7 ticks, fairness | `ReviewedFirst`, `VoidIsSigned`; implements `ThesisContract` (`ImplementsContract`); `VerdictStands`, `WindowCovers`, `GradedInTheEnd` |
| `grading_early` | the same | **violated** `FromActivation`: a bar that opened before the activation decides a grade |
| `orders` | 2 processes, a market and a limit thesis, 3 orders (2 once calls overlap), 1 crash, fairness | `NeverRefused`, `HaltBounded`, `ActiveIsBought`, `MarketActivates`; implements `MoneyContract` while calls do not overlap (`ImplementsMoney`) |
| `orders_late_poll` | 1 process, 1 limit order, fairness | **violated** `FilledActivates`: an entry filled by `tk order status` never activates its thesis |
| `ledger` | 3 processes, 3 events, 2 rebuilders, 2 attempts, crashes, fairness | `ChainIntact`, `StoredOnce`, `OnlyGrow`, `CallsEnd` |
| `promotion` | 2 callers, 1 confirmer, 2 confirmations, 2 violations, fairness | `LiveIsEarned`, `ClosedStands`, `DemotedForCause`, `ViolationDemotes` |
| `policy` | 2 processes, 3 theses (1 limit), 3 account kinds, days of 2 ticks, 3 fills, 2 gradings | `EntriesBounded`, `GateBounded`, `BreakerIsWorstFall`, `LockoutShows` |
| `desk` | 2 pairs, 2 theses, 1 fault, fairness of the hourly run | `StandsOnce`, `FlatWhenGraded`, `NothingUnreported`, `EnteredIsGraded` |
| `archive` | a socket or a poller, 3 rows in 2 hours, 2 parts an hour, lookback of 1 hour, 1 compactor, or 2 beside a socket, 1 fault, fairness of a compaction | `NothingLost`, `TapeWhole`, `OneCompactor`, `ClosedHourMerges` |
| `archive_takeover` | 1 row, 2 compactors, 1 fault | **violated** `Exclusive`: two runs take over one dead lock and both are at work |
| `collectors` | `Feed`, `Replay`, `Perps`, `TapePoller`, `BinanceArchive`, `ChdPull`, `GapFill`, `Repair`, each small | `CollectorsFollow`, `BackfillsWhole`, `ArchiveRepaired` |
| `readings` | `MarketData`, `RegimeModel`, `Funnel`, `Scanner`, `Rules`, `Venue` twice, `Projections` twice | `AnalysisIsCurrent`, `ScansEarned`, `VerdictsSound`, `VenueReconciled`, `ProjectionsAgree` |

Each type invariant is checked with the first property of its module or part.

**What the properties say.** *ImplementsContract*: every interleaving of the verbs walks the
lifecycle diagram one edge at a time, and a late append is ignored. *VerdictStands*: a verdict is
one that hindsight gives over the bars since some moment less than a day before the activation,
whatever the market does after it; which of those moments it is depends on the hour `grade()` ran,
as `grading_early` shows. *NeverRefused*: the `IllegalTransition` after a fill takes two
executions of one thesis at once. *ImplementsMoney*: up to the first overlap of two calls, of
whatever processes and across deaths, an order fills once, a halt stops what follows it, and an
exit ends at zero. *OnlyGrow*: the projections are those of a prefix of the log and fall back only
by the commit of a rebuild that another one overtook. *StandsOnce*: of the theses the cadence
bought at most one per pair is active or held. *FlatWhenGraded*: a thesis it bought is graded only
after its exit, unless graded by hand. *NothingUnreported*: the failed entry of an unbought thesis
is in a digest, by its pair, or its run did not live to write one. *NothingLost*: what was renamed
into place stays readable, but for parts a compaction warned about. *TapeWhole*: it is there once,
unless a merge was cut or a cursor misread, and a poller leaves no gap behind what it stored but
the rows older than its lookback. *OneCompactor*: two runs are at work only after a takeover
unlinked the lock of a live one; the other two say nothing past that point. *CollectorsFollow*:
silence is heard in time, keepalives kept, no row waits past its age while frames come, the book
written is the venue's but for levels that left the scope of the subscription and those they hide,
no trade is written twice, the subscriptions end up as the universe, the tape has no hole.
*BackfillsWhole*: what is marked written is whole; it was compared with its checksum if that was
published when asked for; it is filed twice only after a pull that died half way, and nothing a
collector wrote is written over. *ArchiveRepaired*: unless a merge crossed a repair, a row is lost
only if a repair that died held it in no file, thinned only between kept rows, and after a whole
repartition in its own hour and no other; what is open or unreadable is not touched, crossed or
not. *AnalysisIsCurrent*: a bar read is closed and final, pages keep to the rate, a regime comes
from a fit of the asked size that is fresh. *ScansEarned*: a match is exactly its filters and one
regime reading, audited or not; a ticket passed every gate; its size is what R-012 will hold it
to. *VerdictsSound*: an action allowed without a piece of evidence is allowed with it, and a loss
or a losing void never opens a gate that was closed (but for the share of voids, which a loss
dilutes). *VenueReconciled*: a trade on the page that a completed reconcile was shown is recorded
or named by a halt, a recorded fill is of an order the venue filled, an active thesis has a fill
of an order submitted for it, a live-path halt goes only by confirmation. *ProjectionsAgree*: a
rebuild's state, series, tier, principal and grades are those the live verbs derive, and the
results of the days add up to the grades.

**Why the bounds are enough.** *Thesis*: a race needs a loser and a winner, a third process
supplies the sign-off that lands between them; a thesis does not interact with another one except
through its structural or measurable kind, and two ThesisGraded suffice for a late one. Activation
falls inside a bar and inside a day, the horizon off the bar grid, and the run continues past it;
deadlines lie before, at and between bar closes; a bar of the day before the activation is in the
window at one hour and not at another. *Orders*: three ids cover entry, exit and a second thesis's
order resting on the same symbol; calls that overlap share two orders and do not die, which is
enough for each read-then-append window, and the safety properties are proved for any number.
*Ledger*: with two attempts both the retry and the giving-up happen, with two rebuilders one
overtakes the other; the invariants are proved for any number. *Promotion*: two series looked back
on and one needed clean, one grading completes a series; four ticks reach grant, confirmation,
violation, demotion and a second cycle of them. *Policy gate*: two processes overrun a limit by
one, and a third thesis would show one more; a day of two ticks puts two calls in flight across
midnight; two gradings are a peak and a fall, or two falls. *Desk*: one thesis already stands when
the second is drafted in its pair or the other; one fault cuts any run anywhere, and the next one
is whole. *Archive*: three rows are a full hour and the next one's first, three hours of the clock
and a lookback of one put the first out of its reach; one fault - a kill, an exception, an
unreadable part or a refused page - leaves every state the steps can be cut at, and a dead lock is
one for both compactors; a second fault would only repeat the first. Two compactors are checked
beside a socket, one beside a poller, as a compaction touches nothing of the cursor but the files
it reads. *Collectors*: a heartbeat, an age limit and a flush interval of two to four ticks in
every phase to each other; three coins for a universe of two; two hours a day and pages of two for
a tape of six, so that a page ends inside an hour and a day; a depth of one and a scope of two
among three prices, so that a level leaves either unsaid and comes back; two workers and one task
that raises; two days of two hours and a fifth, open one for two rows in the repair, filed at most
an hour early or late by any number of them, in parts or whole: they cross an hour or a day, share
an hour or not. *Readings*: a page of one bar, three attempts' worth of trouble and a clock off by
a tick; a fit that is fresh on its day and stale the next; two symbols and three volatilities;
filters before, at and after the ones the trace leaves out; two gradings on two days, results
beyond each dial; two processes and one order, and one process and two orders, with a page of the
venue's trades that holds some or all of them; three theses in two accounts over three windows.
Named bounds: `MaxGraded`, `OrderIds`, `MaxCrashes`, `MaxTime`, `MaxGrades`, `MaxViolations`,
`MaxConfirms`, `MaxFills`, `MaxManual`, `MaxTheses`, `MaxFaults`, `MaxDeaths`, `MaxKills`,
`MaxDrops`, `MaxGenerations`, `MaxNoise`, `MaxRevokes`, `MaxTokens`, `MaxTrouble`, `MaxDay`,
`MaxHalts`, `MaxAppends`, `MaxPairs`, `NRows`, `NTrades`.

**Assumptions of the instances.** The contracts of `thesis` keep deadlines at or before the
horizon; the code does not validate this. `RedraftAllowed` is FALSE: callers mint an id per draft,
which draft() does not check. In `promotion` an event is stamped and appended in one tick; a retry
of a few seconds across the very end of a 30-day window is not modelled. A venue that sends deltas
is taken to send every change inside the scope of the subscription and nothing about levels that
better ones pushed out of it; the collectors' code does not say, and `apply_update`
(`scripts/collect_ticks.py:296-308`) relies on neither. `Rules` is checked at one size of desk,
where R-003, R-008, R-013 and R-014 never fail alone: what a mutation of those four would do to a
verdict is told by the theorem `RulesSound`, whose dials and sizes are any, not by the run.

**Fairness.** Safety never assumes any. `orders`, `orders_late_poll`, `ledger`: weak fairness of a
process's next step inside a call it began, i.e. a running thread keeps running; no fairness for
starting calls, for halts or for crashes. In `ledger` a lock error is part of that step, so the
bounded retries and not luck make calls end. `thesis`: time passes, and the hourly cadence calls
grade(). `promotion`: only the scheduled caller (the cadence ends each run with
promotion_status()) is fair; every other process may stop for ever wherever it is. `desk`: the
scheduled cadence takes its next step; operator, HUD and faults are not fair. `archive`: a
compaction that runs takes its next step and the daily task starts it again; kills stay possible.

Deadlock is checked except in `desk`, `archive`, `archive_takeover`, `collectors` and `readings`,
whose bounds let a behaviour run out of inputs.

## 4. What is proved

TLAPS checks these for every value of the constants the named assumptions allow.

* `ThesisProofs`, the lifecycle - `TypeCorrect`, `ReviewedFirstHolds`, `VoidIsSignedHolds`, and
  `LifecycleRefines` (`Spec => Contract!CSpec` with ids drafted once). The inductive invariant
  adds to the checked properties what makes them inductive: which steps belong to which thesis
  kind, and that the log's facts (`reviews`, `attested`, `signoffs`) only grow. The refinement has
  one lemma per verb: a step that appends an event the fold ignores stutters, any other is an
  edge.
* `ThesisProofs`, grading - `GradingInvariance`, `GradingTypeCorrect`, `WindowCoversHolds`,
  `VerdictStandsHolds`. `WindowCovers` is arithmetic over whole days and bars, and so is that the
  window never starts a day or more before the activation. `VerdictStands` has no hypothesis but
  `GradingAssumption`: the start of the window that the verdict was given on is the witness, and
  what that window held stays as it was, since closed bars do not change and later ones come after
  the bar that decided. The scan finds the earliest bar by `First`, whose choice the least number
  pins down.
* `OrderPipelineProofs` - `Invariance`, `TypeCorrect`, `ActiveIsBoughtHolds`, `HaltBoundedHolds`.
  `ActiveIsBought` is inductive only with what a call in flight carries (`Carried`): a process at
  an activation step holds an order of its thesis that is a buy and was filled. `HaltBounded`
  counts: the fills since the halt and the processes that are past their last halt check are
  together fewer than the processes, which needs `Procs` finite and nothing else. `NeverRefused`
  rests on `RaceInv`: two processes at an activation of one thesis are both inside execute_order
  for it, and were so from the second one's start on, so it is in `raced`. `MoneyRefines` is
  `ImplementsMoney` for any number of processes: `MoneyContract` is a promise of the
  single-threaded design, and `SerialInv` says what a call still knows when it appends as long as
  none has overlapped: an exit sells the whole position, the order about to fill has no fill,
  nobody halted after its last check; what a dead call left is an order without a caller. Each
  step up to the first overlap then maps to one action of the contract or to a stutter.
* `LedgerStoreProofs` - `Invariance`, `TypeCorrect`, `ChainIntactHolds`, `StoredOnceHolds`. The
  invariant says of each process that it is inside a transaction only as the writer, that its
  pending event is in neither the log nor anyone else's hands, and that the row it inserted
  continues the chain; commits then extend the chain and retries never repeat an event.
  `OnlyGrowHolds` is for any number of rebuilding processes: what a rebuild in flight has read is
  a prefix of the log, and not shorter than the projections unless another one has committed since
  (`overtaken`).
* `PolicyGateProofs` - `TypeCorrect`, `EntriesBoundedHolds`, `GateBoundedHolds`,
  `BreakerIsWorstFallHolds`, `LockoutShowsHolds`. A step lifts a call past the rules, lands one
  (its order is submitted), or does neither (`LiftLandQuiet`). `EntriesBounded` is inductive with
  the calls in flight counted in on the current and every later day, since one that counted before
  midnight enters the next day; `GateBounded` with late orders and calls in flight together at
  most the processes. Both rest on the finiteness of `Procs` and `Theses` and on days that never
  go back. `BreakerIsWorstFall` is about the loop of `_trailing_drawdown_pct`, of any length: the
  function the loop computes exists (`Recursion`), its peak is the largest equity so far, and it
  has tripped by row n exactly when some fall up to n reaches the breaker, by the least n for
  which that would fail (`UpTo`). `LockoutShows` needs that a breaker that tripped at a time stays
  so at that time whatever is graded afterwards (`StaysTripped`), since the second look of
  `record_manual_fill` is a later append than the fill.
* `DeskProofs` - `Invariance`, `TypeCorrect`, `StandsOnceHolds`, `FlatWhenGradedHolds`,
  `NothingUnreportedHolds`. None is inductive, as each depends on what a run read steps before it
  acts. `EntriesCarried`: past the scan, the pair of every bought thesis that stands, but the one
  in hand, is in the skip set. `ExitsCarried`: a thesis the run looks at is past its buy, and one
  whose pair showed no position holds nothing when it is graded. Operator and HUD in between can
  make a pair flatter or a thesis further, never the reverse.
* `ArchiveProofs`, the archive - `Invariance`, `TypeCorrect`, `OneCompactorHolds`,
  `NothingLostHolds`, `TapeWholeHolds`. Past a contested takeover the invariant says no more than
  types; up to there, `LockHolder`: who works, or is about to write its pid, holds the lock.
  `Carried`: what is being merged is still there at the rename, and in the hourly file at the
  unlinks, or was warned about. `LandedIsKept` counts where a row is, `NeverTwice` excepts the
  parts a merge is about to unlink, and `Prefix` has the tape whole up to each row landed or
  buffered, but for what the lookback passed over.
* `ArchiveProofs`, what fills and repairs it - `CollectorsFollowHolds`, `BackfillsWholeHolds`,
  `ArchiveRepairedHolds`: of the specification of `MCCollectors`, one theorem per part first, for
  every value of its constants, the sizes of the instance included. Each part's module ends with
  the invariant: a session waits no longer than its next timer (`Feed`: `Waits`, `Polled`,
  `Aged`); each frame on the wire turns what a collector holds after the one before it into what
  it holds after this one, the best levels and those left unsaid (`Replay`: `Chained`), and a
  trade is on the wire once or written, not both (`Unwritten`); what the universe task aimed for
  is what it sends, unless it was raced (`Perps`: `Aimed`); trades below the cursor are stored or
  in hand (`TapePoller`: `Ahead`); a period is in one pair of hands, and what is unverified is
  named (`BinanceArchive`: `OneEach`, `UnverifiedIsKnown`); every hour still missing is to do, at
  work or absent (`ChdPull`: `Accounted`); the pages read so far tile the span from its start
  (`GapFill`: `Paged`); between any two writes of a repair a row is in one file or in the hand
  that is about to file it (`Repair`: `RepairHolds`, `Single`), and the days behind a repartition
  are in order (`Passed`).
* `ReadingsProofs` - `VenueReconciledHolds`, `AnalysisIsCurrentHolds`, `VerdictsSoundHolds`,
  `ScansEarnedHolds`, of the specification of `MCReadings`. `Venue`: what a poll, a reconcile or a
  resume saw is still so when it appends, or one of the ghosts says why not (`Carried`,
  `RacesKnown`), of orders the ledger never heard of too, and the halt that stands is the last
  live-path one (`LiveHaltIsLast`); it is proved of any account (`Venue(size)`) and used for the
  two of the run. `MarketData`: a page leaves no closed bar behind it unless the clock ran ahead
  (`Caught`), and each page was paid for with a token, of those the bucket held and those that
  came since (`Paid`). `RegimeModel`: what a call is about to write or to answer is of its own
  fit, or of a pair that was mixed (`Fresh`). `Rules`: `VerdictsSound` speaks of one state and is
  no invariant to be strengthened but an argument over every rule, for any history of gradings
  (`RulesSound`, of any dials, sizes and results that are numbers and any windows: `Reasonable`).
  Without a piece of evidence each rule says what it says with it or denies (`UnknownDenies`). A
  grading more leaves the sum of the day, the curve and its falls what they were but for its own
  (`EarnedGrows`, `CurveGrows`, `FallsGrow`), so that a loss lowers the sum and adds a fall, and a
  win adds none deeper than one that was there; the share of voids is that of the last
  `VoidWindow` gradings, of which one leaves as one comes (`ShareOfVoids`). `Scanner` and `Funnel`
  end with their invariants. A scan has done the pairs before the one at hand, each once
  (`InOrder`), so that what is found of a pair is what its own step appended (`FoundOf`), and the
  regime a match was pruned by was asked for and stays (`RegimeRead`); the one stage that shows a
  failure before the candidate was dead is its killer (`StagesTell`). In the funnel, what the walk
  has kept of the legs of a strategy is earned so far by the regime heard for it (`Walking`), and
  a ticket's size and the binding one are one function of equity and stop (`Sizes`), so that R-012
  has nothing to deny when the two agree.
* `PromotionProofs` - `Invariance`, `TypeCorrect`, `ClosedStandsHolds`, `LiveIsEarnedHolds`,
  `DemotedForCauseHolds`. All rest on `WindowStays`: what is graded or violated once a window has
  ended changes nothing `series_stats` says of it. So a call that goes on with what it read ticks
  ago (`CallsStand`), a grant (`GrantsStand`) and a closed series (`SeriesClosedStand`) stay right
  whoever appends in between.

Assumptions: the named `ASSUME` of each module and nothing else: the "no value" constants are
outside the sets they extend; `Procs`, `Theses` or `Compactors` are finite where cardinalities are
taken; lengths, thresholds and bounds are numbers, and those the code divides by, waits for or
tries at least once are not zero (`CollectorsAssumption`, `ReadingsAssumption`, `FunnelAssumption`
and `FiltersAssumption` name them for the two composed runs); in `Repair` rows and hours are
numbered in a row and the cutoff is a midnight (`RepairAssumption`). TLC evaluates each of them on
the runs.

Only model-checked:

* Liveness - `MarketActivates`, `GradedInTheEnd`, `CallsEnd`, `ViolationDemotes`,
  `EnteredIsGraded`, `ClosedHourMerges` - as fairness and ENABLED are out of the prover's reach.
* `ProjectionsAgree`, and so `Projections`: it speaks of folds over sequences and sets.
* What the code does where an exemption applies: several processes on one position, a contested
  takeover, a repair crossed by a merge.

The library's induction theorems cannot be used, as they take an operator as a parameter. Where a
proof needs induction it takes the least counterexample instead; this is done for the loops over
numbers of `PolicyGate`, `TickArchive` and `Rules`, for the first of the filters that fail and for
the stage that dropped most, not for the folds of `Projections`.

## 5. Where the code and its documents part, and what is left out

**Counterexample runs.** Three runs show the code do what a document excludes; they are the
findings of `PROJECT.json`.

* `orders_late_poll`: `docs/DESIGN.md:474` draws the activation behind the fill; a limit order
  filled by a later `tk order status` (`broker/_paper.py:325`) activates nothing.
* `grading_early`: `docs/DESIGN.md:483` fetches the bars "from thesis activation"; whole days back
  from the call (`thesis/_grade_wiring.py:69`) take in bars of up to a day before it, so the same
  thesis may be graded on such a bar at one hour and not at another.
* `archive_takeover`: `scripts/compact_batch.py:58` calls the lock exclusive; of two runs that
  find the lock of a dead holder the second unlinks the lock the first has just made (`:84`), and
  both are inside, where an hour can be merged twice.

**Gaps the properties name.** Each of these is in the models; the property that meets it carries
an exemption for exactly this case, and is violated without it.

* *Orders.* Two executions of one thesis both buy, and the second's activation raises; two polls
  both append a fill; two exits sell one position twice (`NeverRefused`, `ImplementsMoney`). A
  process that dies between `OrderSubmitted` and `FillRecorded` leaves a market order open for
  ever.
* *Ledger.* `rebuild()` reads the log outside its write transaction: of two, the older read can
  commit last, and the projections fall back until the next one.
* *Series.* At exactly a window's end the projection calls it complete (`<=`,
  `ledger/_projections.py:61-71`), the policy not yet (`policy/_series.py:34-36`). A paper
  account's principal is its first `AccountCreated` for the broker, its last for policy and the
  projection. `latest_grades` reads the pnl of the first `ThesisGraded`, although
  `ledger/_models.py:173-185` speaks of the latest. The tier is the last event in log order for
  the projection, in stamp order for the policy.
* *Rules.* A loss dilutes the share of voids and may reopen a gate R-015 had closed.
* *Venue.* `fills()` reads a single page of activities (`broker/_alpaca.py:495-500`), so a
  reconcile is clean of trades it was not shown, and takes a ledger fill whose trade is on no page
  it saw for a phantom. An order executed in two trades, or ended after one of them, never matches
  and halts each reconcile; two pollers record one fill twice, unseen by reconcile; one killed
  between `ReconciliationRun` and `HaltSet` leaves no halt; a lost answer to a POST leaves an
  order the ledger never heard of, whose poll then records a fill of no thesis, after which
  reconcile is clean; a plain halt set after a live-path one hides it.
* *Archive.* A compaction killed between its rename and its unlinks leaves each row twice, against
  the docstring of `compact_hour` (`scripts/collector_core.py:202-206`). A part it cannot read is
  skipped with a warning (`:218-221`) and unlinked with the others (`:228-229`): its rows are
  gone. The equities poller starts at its floor when the cursor is older
  (`scripts/collect_equities_alpaca.py:275`, `287`): an outage longer than `max_lookback_days`
  leaves a gap. A lock file left without a pid is taken over by nobody.
* *Repair.* Repair and compaction use two different locks: a merge that read before a repair can
  rename over its result, and double or drop rows (`docs/ARCHIVE-README.md:255-262`). `tree_lock`
  says that a lock left behind by a killed run costs one manual delete
  (`scripts/repartition_archive.py:258`); a run that dies after it has written over one hour of a
  day and before it has written the others loses the rows it was moving between them
  (`Repair!OneManualDelete`, which the code does not keep).
* *Collectors.* `OrderBookState` speaks of the current top of the book
  (`scripts/collect_ticks.py:283-286`). At a limited depth no delta says that a level left the
  scope, and `apply_update` (`:296-308`) never drops one: it stays, goes stale, and surfaces when
  better levels go (`Replay!RowsAreTrue`, which the code does not keep). The age limit of a buffer
  (`collector_core.py:240-243`) is tested only when a data frame arrives. `Perps` marks the
  generation it ended at, not the one it aimed for. A poller that dies after creating the day's
  directory starts cold the next time.
* *Backfills.* A period whose checksum is not published when asked for is filed unverified and
  marked like the others, for good, against the docstring of
  `scripts/backfill_binance_archive.py:22-24` and `420-421` (`BinanceArchive!Verified`, which the
  code does not keep). A task that raises between its first part and the marker files those rows
  again on the next run. An overshooting page lets `GapFill` write a partial hour; a torn file of
  its counts as present.
* *Market data.* A host clock that is ahead makes a live bar look closed, and the cache keeps it.
  Each call makes a new token bucket, so the rate holds within one call only. Model and sidecar of
  the regime fit are two files: two fits interleaved leave a pair that never was.
* *Funnel.* A swallowed `ProviderError` leaves the stage of another definition as a pair's killer.
  *Scanner.* The trace knows no `ema_above` nor `rsi_band` (`docs/design/SCAN-AUDIT-LOG.md:104`).
* *Desk.* An exception other than the refusals `run_once` catches ends the whole run;
  `CadenceAccountRefused` in mid-run ends it without exits and digest. A refused POST /ack answers
  409 and leaves an approved thesis.

**Seen while modelling, checked by no run.** `void()` of an approved thesis returns normally and
changes nothing (`docs/DESIGN.md:476`, `thesis/_machine.py:80`). A cancelled limit order still
fills (`broker/_paper.py:39-41`). An account eligible for promotion can lose that by a grading in
the open window (`docs/DESIGN.md:364`, `tests/ASSUMPTIONS.md:1487`). An exit sells the position of
the symbol, another thesis's share of it included (`broker/_pipeline.py:403-406`). A failed review
does not stop approve (`docs/DESIGN.md:508`), and `ReviewedFirst` asks for a review, not for a
passed one. Live orders that rest are not counted against R-011's budget
(`policy/_context.py:255`): `GateBounded` bounds the orders sent, not the fills. A run of the
cadence that dies after approve, and a POST /ack that is denied or repeated, leave an approved
orphan or book twice; the properties of `Desk` hold with such theses around. `assemble` passes no
live exposure and no correlations, so R-006 is never a portfolio cap and R-013 always passes;
R-003 takes the starting equity for a balance whatever the account holds; R-009 measures a fall
from the paper dial, R-018 from the principal. The 5 % of R-005 is reached long before the 40 % of
R-014 could matter (`docs/DESIGN.md:346`, `416`). The docstring of `broker/_alpaca.py:67-71` has
fills recorded from activities as they appear; nothing does that.

**Not modelled.** Numerical: indicators and the fit and features of the regime model, metrics, the
Monte Carlo walk of `prop/`, fee tables. Presentation and I/O: rendering of the HUD, report, CLI
output, the TradingView bridge, memory and its retrieval. Data types: the validators of
`contracts/` and the predicate parser, of which the models take the results. The pollers of
Coinbase and OKX trades, which repeat `TapePoller`'s cursor against other pages, are modelled
once, by the Binance.US one. `scripts/migrate_layout.py` and the experiments are one-time
programs. The components table in `PROJECT.json` gives the reason for each.

## 6. Plan

Done, in this order: lifecycle, order pipeline, grading, ledger store, promotion, policy gate;
then the desk, the venue and halt control, the projections, the rules, the funnel with scanner,
regime and market data, the archive, its collectors, backfills and repair tools. The proofs of
section 4 followed, component by component. Next, most important first:

1. `Projections`: that the fold of a rebuild and the live verbs agree, by the least prefix at
   which they would not, as in `RulesSound`; its folds over sets need lemmas of their own.
2. A property for the sizing a losing submit appends after the winner's marker
   (`thesis/__init__.py:89`), which the reviewer and R-012 read as the newest.
3. Counterexample runs for the gaps of section 5 that contradict a docstring: the unverified
   period, the manual delete that costs rows, the book that goes stale.
4. The fills of resting live orders against the budget of R-011, and the sizes of desk at which
   R-003, R-008, R-013 and R-014 decide alone, in the run.
