# Verification of the stock scanner

The scanner is a FastAPI backend (`src/backend`) and a React page
(`src/frontend`) that look for trading setups in the stocks of the A Group.  A
scan is a background job of the backend: it fetches the candles of some six
hundred stocks from Angel One, runs strategies on them, streams its progress to
the browser that started it, keeps its result for 24 hours, copies its rows into
an Excel workbook on OneDrive, and is recorded for ever in the browser's own
database.  Beside the scans there are live charts fed by one WebSocket,
backtests, a ranking of the scanned stocks, and alerts that arrive from
TradingView.

This directory holds TLA+ models of the parts whose behaviour is hard to test,
TLC configurations that check them on small instances, and TLAPS proofs for
every size of the instance.

    tlc -workers 2 -config ScanSafe.cfg MCScanRun.tla    # one run
    tlapm ScanRunProofs.tla                              # one proof module

Paths below are relative to `src/`.

## 1. The system

### 1.1 What is modelled

The concurrent part: jobs, sessions, connections, pages.

| Component | Source | State it keeps | Operations | What must hold |
|---|---|---|---|---|
| Scan job registry | `backend/services/scan_job_manager.py` | `_jobs`: id to job with type, device, status, completion time | `start_job`, `cancel`, end of a job's task, eviction, `get`, `list_jobs` | one running job per device and type, a cap per type, bounded retention that drops the oldest, an end is final |
| Scan runners | `backend/services/scan_service.py`, `cup_scan_service.py`, `expiry_scan_service.py`, `expiry_level_5_scan_service.py`, `backend/api/scan_jobs.py` | a task per job, a child task per stock, a fetch semaphore per job, worker threads, the result cache | start, fresh, cancel, clear cache; per stock: permit, fetch, timeout, analysis, report; finalizer | a completed job has every stock once, jobs do not cancel one another, a failed scan leaves the cache alone, every job ends |
| Scrip master | `backend/providers/angelone_scrip_master.py` | the cached instrument list, one download in flight for the whole process | join, succeed, fail, be cancelled, expire | nobody waits for a download that is gone |
| Angel One session | `backend/providers/angelone_provider.py`, `angelone_client.py`, `backend/api/angelone.py`, `backend/services/angelone_credential_store.py` | saved credentials, one cached session | ensure a session, call, drop the session and retry once; test, connect, disconnect | the retry has a newer session, at most two logins per request, nobody uses an account that was replaced |
| Live feed | `backend/api/live.py`, `backend/live/subscription_manager.py`, `market_data_service.py`, `angelone_ws_transport.py` | reference count per symbol, a lock, symbol routes, the WebSocket task | open and close a chart, connect, restore, lose the connection, stop | every open chart is served and goes on being served; no socket without a reader |
| Scan page | `frontend/src/hooks/useScanJob.ts`, `services/scanJobsApi.ts` | what is shown, the job that is followed, a generation per poll loop, cursors of two streams, one timer, the device's own cached result | run, fresh, stop; poll; restore when opened, leave, reload | a page that says it scans follows a job and stops some day (but for one race in the code), items come once and in order, no poll puts an older result in the place of a newer one |
| Excel sync | `backend/services/excel_sync/` | per scan: rows, dirty rows, worksheet name, a task | queue rows, create the worksheet, flush, retry, finish | no row lost or doubled, no foreign worksheet touched |
| Device history | `frontend/src/hooks/useLocalHistoryWriter.ts`, `services/localHistoryDb.ts`, `services/historyRowMapping.ts` | in IndexedDB: snapshots of scans, rows under deterministic keys, the device's cached result; in the page: cursors of two streams, which scan has been finalized | effects that run when React shows something new, transactions that complete, fail or are cut short, chunks of the final result, reload, deletion | a row is filed under the scan it is of, nothing received is skipped, the rows of a final result are all there when the writing has ended |
| Live chart | `backend/live/candle_builder.py`, `backend/services/chart_service.py`, `frontend/src/chart/TradingViewChart.tsx`, `useLiveChart.ts`, `chartDatafeed.ts` | the running candle of each timeframe, a queue per stream, fetched bars with the timeframe they are of, a cache of histories | trade, stream event, fetch, change of timeframe, reconnect | live and fetched candles make one series: that of the market |

The computing part: pure functions of a price history, called anew with every scan or
backtest. Their hazards lie between two calls, when the history has grown, lost its oldest
candle, or ended with a candle that still moves.

| Component | Source | What it computes | What must hold |
|---|---|---|---|
| Bars and indicators | `backend/indicators/resample.py`, `rsi.py`, `moving_averages.py` | weeks and months with or without the running one, RSI, averages | a running period never decides anything that only an ended one may |
| Reversal strategies | `backend/divergence/`, `strategies/prd.py`, `nrd.py`, `screeners/stock_analysis.py` | swings, divergences, forming and confirmed setups | a setup is not withdrawn by later candles while the history starts where it did |
| Cup detection | `strategies/cup.py`, `cup_levels.py` | a cup in monthly bars, its rims, handle, breakout and status | a confirmed breakout is confirmed once; a cup that waits for its breakout has not had it |
| Rule strategies | `strategies/gfs.py`, `advanced_gfs.py`, `value_buy.py`, `strategy_one.py`, `expiry_level_1.py`, `expiry_level_5.py`, `trendlines/engine.py`, `fibonacci/engine.py` | conjunctions of thresholds, trendline breaks, touches of a zone | an expiry signal does not fire again for one setup |
| Ranking | `ranking/engine.py`, `ranking/scorer.py`, `api/ranking.py` | strengths, bonus, order, best of each strategy, the Strategy One score | better stocks come first, whatever order they were scanned in |
| Backtests | `strategies/top_bottom/`, `system_one_backtest.py`, `gfs_backtest.py`, `breakout15/engine.py` and their services | trades, stops, equity curve, flags for missing data | trades could have been traded candle by candle; a report that rests on gaps says so |

### 1.2 What is not modelled

| Component | Source | Why not |
|---|---|---|
| Layers of the caches | `backend/core/cache.py`, the JSON file behind `scan_job_manager.py`, `services/config_store.py`, `providers/call_metrics.py`, `core/log_buffer.py` | what is cached when is modelled (ScanRun, ScanPage, LocalHistory); the files behind it, written in place, are not: a crash in the middle of a write is listed as a hazard |
| Cup history | `backend/providers/cup_history.py`, `cup_disk_cache.py` | one file per stock with a freshness rule; listed as a hazard.  Its window and its unfinished last candle are in Screens |
| TradingView alerts | `backend/services/tradingview_service.py` | a look-up and an insert; the race between two deliveries is listed as a hazard |
| Registry of backtest runs | `backend/api/breakout15.py`, the spreadsheets of `strategies/breakout15/` | one run at a time, ten kept, in one process; the reading and writing of spreadsheets |
| Long floating-point indicators | `backend/indicators/adx.py`, `macd.py`, `bollinger.py`, `volume.py` | averages over hundreds of candles: their values are inputs of the ranking |
| Volumes, market hours, `finalize_market_close` | `backend/live/candle_builder.py`, `market_hours.py`, `market_data_service.py:236` | nothing a property speaks of; the last is never called: the `backend/live/scheduler.py` its comment refers to does not exist |
| Prices shown with a signal | `backend/strategies/trade_setup.py` | decide nothing |
| What is drawn, formatted, exported and routed | pages, charts, serializers, exports, schemas | no state |
| Scan tables of the database | `backend/services/history_service.py` | nothing writes them any more (`backend/api/scan_jobs.py:128-136`) |
| Universe and instruments | `backend/services/universe_loader.py` and others | spreadsheets read once |
| Pine script | `pinescript/` | runs inside TradingView |

`PROJECT.json` lists every component with its files.

### 1.3 How the parts interact

    user --run/fresh/stop--> page (hook) --start/cancel/poll--> scan API --> JobManager --task--> runner
    page --effects--> history writer --transactions--> IndexedDB --cached result--> page
    runner --child task per stock--> semaphore -> scrip master -> session -> Angel One
    runner --candles--> strategies --signals--> result --> ranking
    runner --thread--> finalizer --> result cache --> next start
    runner --record_progress--> Excel sync --HTTP--> workbook
    charts --SSE--> subscription manager --lock--> WebSocket task <--> Angel One
    ticks --> candle builder --queue--> page --merge--> fetched history
    settings dialog --test/connect/disconnect--> credentials, session

Four things are shared by all jobs of the process, and that is where the hard
behaviour of the backend is: the registry, the scrip-master download, the Angel One
session and the workbook.  Everything in the backend runs on one event loop, apart from
worker threads that cancellation does not reach.  An `await` is a point at which
anything else may run and at which a `CancelledError` may arrive; the models take exactly
one step from one suspension to the next.  In the page, React runs the effects of what it
shows after each step, and IndexedDB runs its transactions later.

The hazards, each with its line and the properties that would catch it, are in
`PROJECT.json`.

## 2. The modules

A comment before each definition names what it translates; `PROJECT.json` maps
definitions to source lines.  Operators named `X_Something` before an operator `Something`,
or `Something_Variant`, are plausible bugs of it: putting one in its place breaks the
property that `PROJECT.json` "mutants" names, which shows that the property depends on that
code.  They appear in no specification.

### JobManager

The registry, and the abstract specification of a scan: a task that returns, raises
or is cancelled.  `jobs` keeps every `ScanJob` object; `registry` is `_jobs`, which
forgets finished ones.  `StartJob`, `CancelJob` and `Finish` (the `finally` of
`_execute` with the eviction) are the three operations.  A cancelled task gets its
`CancelledError` at its next step, so after `CancelJob` it can no longer return;
nothing stops a task from ending as cancelled unasked, because `except CancelledError`
does not ask where the exception comes from.  `finishes` orders the completion times.

`device_id=None` (an older client) is the value `NoDevice`; such a client sees all jobs.

### ScanRun

Extends JobManager with what the runners do: every start, cancel and end of a task in it is
one of the registry's operations, so that what holds of the registry holds here. Each job has
a `phase`, each stock of each job a state, and `gatherResult` is the exception that the
`asyncio.gather` future already holds. A gather that has failed passes no cancellation on and
does not stop its other children, so these run on beside the next job. `CancelScan` goes down
synchronously into whatever the job awaits, including the shared download, as `Task.cancel`
does. The A Group scan (`ThreadedTypes`) has the 75-second timeout per stock, analyses in
threads outside any `try`, and finalizes in a thread; the other three analyse inline. With
`WorkMayRaise` an analysis may raise, and so may the making of a payload or of its Excel rows,
the last after the cache has been replaced. `download` is the process-wide scrip-master task.

### ScanPage

Extends JobManager with one browser page that shows the scan of one type.  A poll loop is
a record with the step it waits in; `Current` is the comparison of job and generation
that the code makes after some of its awaits and not after others.  A step lasts from one
`await` to the next, and what is set in between is shown at once, as React does.  The jobs
report stocks and end as the registry's promises allow; another tab of the device starts
and stops jobs too.  A request may be lost before or after it was served (`Lost`), the
backend may restart and forget its registry, a cache may expire, the page may be reloaded:
`MishapLimit` bounds how many of these happen and `Mishaps` names the kinds.

The user clicks at any time, Stop included, also while an answer is pending.  Two things go
wrong then.  A tick that a Stop or a newer poll overtakes in a request for its stream goes on
as if it were the current one and shows the page as running (`LateTick`, `Misled`); `PageClaims.cfg`
shows it, and the properties of the page say what holds beside it.  And the restore of a page
that has just been opened takes no notice of a start: if it answers late, it puts an older job
and result in front, and Stop cancels that job.  No comment speaks of this and no property
covers it; it is listed as a hazard.  Retention is 2 in these instances, so that a page can
still fetch the older of two results.

### AngelSession

The one session of the process.  Sessions are numbered in the order Angel One issues
them, and Angel One accepts only the newest one of an account: this is what the code
relies on and works around.  A request is `get_intraday_ohlc` or
`get_daily_ohlc_range`: it uses the cached session or logs in, and after any API error
drops the cached session, logs in and tries once more.  The settings dialog and a
login from the owner's phone are the environment.  `logins`, `since` and `earlier` in a
request record its history and guard nothing.

### LiveFeed

Streams, reference counts, the lock of `SubscriptionManager`, and the connection task.
The subscribe callback runs under the lock and suspends, so the step of a stream says
where in `acquire` or `release` it is.  A client that goes away cancels its response,
possibly in the middle of the release; a stream that is just sending is finalised by
the event loop instead.  `served` is what Angel One sends on the present connection.

### ExcelSync

The worksheet of a scan: names tried in order, a header, rows written in runs of
consecutive numbers, every failed request retried, and `finish` with its 60 seconds.  A
request that raises may have been carried out, and a request answered with 504 is
repeated.  Rows stand for their keys.

### LocalHistory

The page again, following one job at a time, but this time with what its rendering triggers:
`Render` runs the writer's effects for the pieces of state that changed, in source order. The
page awaits nothing of what it writes. A write is a transaction in `queue`; one that shares a
store with an earlier one waits for it (`CanRun`), completes, or fails. A final result becomes
`Chunks` of rows and then the snapshot, each waiting for the transaction before. Rows carry
three auxiliary fields that the code does not have: the scan they were filed under, the scan
they are of, and whether a stream or a result brought them. The entries of a stream are a set,
each with its number in the list of the backend (`seq`); the signals of a stock and the
structures of a signal are finite sets, and a strategy has a name (`FoundAssumption`). The id
that the final loop looks for in a result (`result.scan_id`) is null in every result since the
backend stores nothing (`backend/api/scan_jobs.py:128-136`), so that loop writes all rows
whenever it runs; `finals` records how far it has come. `Mishaps` happen once: an answer is
lost, a write fails, the page is reloaded (which cuts off what is not committed), a scan is
deleted.

### Series, and the modules on it

A candle is a record of a day, open, high, low and close.  Three things happen to a history
between two scans: `NextCandle` appends a candle; `OldestDrops` takes the first away, because a
scan fetches so many days up to now (`angelone_provider.py:84`); and `LastCandleMoves` changes the
last one, which for the cup may be that of a day that goes on (`angelone_provider.py:136-138`,
`cup_history.py:104,114`; the scans drop it).  A backtest is run again on a longer history only.
The answer is computed anew each time, as the program does.  A property then relates the answer
of one fetch to that of the next.  A week has two days and a month three or so; an RSI is over
two candles; prices are small whole numbers, 0 is a missing one.

When the oldest candle drops, Wilder's RSI is seeded elsewhere and every value of it moves:
`market_data_router.py:22-30` itself gives 40.04 and 47.03 for the same candles by depth.
Divergences can then be withdrawn (`DivergencesOutliveTheWindow` in section 3), so the properties
about signals compare histories with the same first candle (`SameStart`).  `resample_ohlcv` keeps
a row with missing prices for a period without a trading day; the model drops it, and
`NoEmptyPeriod` says that the screeners' histories have no such period.

- **Reversal**: swings, divergences, NRD and PRD with forming and confirmed setups, and
  which readings of which time frame a stock has at all (`screeners/stock_analysis.py`).
- **Rules**: the threshold strategies, both expiry signals, trendline and key reversal.
- **Cup**: the cup in monthly bars with all of its statuses.
- **Ranking**: not a history but the stocks of a scan, which arrive in any order.
- **LiveChart**: a candle of the history stands for one trade.  The server of the history
  knows them all, the feed those since it subscribed; the page folds the candles it is sent
  into the bars it has fetched.  Fetches are answered late, fail or are overtaken by a change
  of timeframe; events wait in a queue that drops its oldest.
- **Screens** puts these five side by side (`part` says which one a behaviour is about).
- **TopBottom**, **SystemOne** (with the GFS backtests, which share its loop) and
  **Breakout15** are the backtest engines, **Backtests** puts them side by side.
- **TradeBook** is the abstract specification of a backtest: one position at a time, which
  keeps its side and entry; a stop that only moves in its favour; a book that only grows.
  `Backtests` instantiates it with a refinement mapping (`Book`), from the trades that the
  report on the history so far contains.  `Book!Spec` says that an engine run anew on a longer
  history continues the trades of the shorter one: no trade depends on a candle after it.

`Nth` and `Pick` are the k-th of a set of numbers and the elements of a sequence at some
places. What the constants must be is stated where they are declared (`SeriesAssumption`,
`TopBottomAssumption`, `SystemOneAssumption`, `BreakoutAssumption`, `CupAssumption`,
`ReversalAssumption`, `RulesAssumption`, `ChartAssumption`, `ScreensAssumption`); TLC
evaluates it in the runs. `BacktestsAssumption` adds that a history starts before its first
trade (`Untraded`), which is where TradeBook starts, too. For System One it says a little
more. With an average that takes at least three candles longer than the RSI (the code's
defaults are 20 and 14) the service refuses a history of just as many candles as the average
has (`system_one_backtest.py:270`), although one candle more shows a trade that was entered on
the last of them; that trade appears a candle late. It is listed as a hazard, and such a
history has to start a candle later.

### MC modules

`MCJobManager`, `MCScanRun`, `MCScanPage`, `MCAngelSession`, `MCLiveFeed`, `MCExcelSync`,
`MCLocalHistory`, `MCScreens` and `MCBacktests` name the small sets of the configurations
and their symmetries.  Symmetry is used in safety runs only.

## 3. The runs

| Run | Instance | What it shows |
|---|---|---|
| `job_manager` | 4 jobs, 2 devices and none, 2 types, cap 2, retention 2 | limits, eviction order and finality under every order of starts, cancels and ends |
| `scan_safe` | 2 jobs, 1 device, 2 stocks, A Group and an expiry scan, 1 permit, the scrip master missing or kept, analyses and finalizers may raise | a completed job has every stock once and the cache holds whole scans; waiters have a download; while the scrip master is kept and no analysis raises no job disturbs another (451,697 states) |
| `scan_live` | 2 jobs, 1 stock, fairness | every job ends; an accepted cancel ends in `cancelled` |
| `page_follow` | 2 jobs of 1 stock that qualifies, 1 click with a retry, Stop at any moment and another tab, 1 mishap of any kind | items come once and in order, nothing but an overtaken tick makes a page say that it scans what it does not poll, no other poll replaces the result of the followed job (3,118,361 states) |
| `page_ends` | 2 jobs of 1 stock, 1 click without a retry, 2 lost requests or restarts, Stop at any moment, fairness | a scanning page stops scanning, with the result or with a word on what went wrong, unless an overtaken tick has misled it |
| `session_shared` | 2 requests, 2 accounts, 1 login elsewhere, 1 use of the dialog, 1 unrelated error | the retry uses a newer session, logins are bounded, a request that nobody disturbs recovers |
| `live_feed` | 4 charts (2 on one symbol, 1 on another, 1 unlisted), 2 lost connections, 1 failed look-up, fairness | counts cover viewers, the restore misses nobody, sockets have readers, and an open chart is served again after every loss |
| `excel_rows` | 2 scans of one minute (2 rows and none), 5 names, 1 row per request, 2 faults, fairness | no row lost or doubled, no foreign worksheet written, headers first, rows appear during the scan |
| `device_history` | 2 scans of 2 stocks (one fails, one has three signals, one of them a cup), chunks of 3 rows, 1 mishap, transactions done before the next step of the page (`Lag = 0`), fairness | streamed rows are filed under their own scan, what was received is stored, on its way or lost by a mishap, a result whose loop has ended has all of its rows, a result that is being stored is stored (185,880 states) |
| `backtests` | Top-Bottom: all closes 1..4 over 7 candles; System One: 5 candles after 3, out of 4 kinds, with holidays; GFS: 5 after 9, out of 5 kinds; breakout: all days of 3 slots out of 14 kinds of candle, with up to 2 minutes of a candle that breaks both sides | the engines implement TradeBook, the staged stop keeps its risk, an exit by the clock rests on every candle, statistics are those of the trades, reports say what they leave out |
| `screens` | reversal: 8 zigzags and 3 candles after them; rules: 2 histories and 3 candles; cup: 3 histories of months and 1 or 2 candles, with holidays; of each the first candle may drop, and of the cup the candle of the last two days of a month may move; ranking: 3 stocks with 2 to 6 analyses each; chart: 3 trades after the first at 2 prices, 2 timeframes, a queue of one event, 2 disturbances | setups do not repaint, running periods confirm nothing, breakouts are final, cups that wait are unbroken, expiry setups reset, the ranking is fair, the chart is that of the market (807,155 states) |

The bounds are small but let each case happen.  Two jobs are enough to compete for a slot, a
download, a session or a name, and a third adds no new kind of conflict except in the
eviction, which has four; two stocks let one wait for a permit, or outlive the failure of the
other; two faults let a retry fail.  Histories are long enough for every status, side, exit
and flag of the screeners and engines to be answered somewhere, and the starting histories are
chosen so that a few candles more decide.  Every action fires in some run.

Deadlock is not checked: all of these systems may rightly stop, when the ids are used
up, every chart is closed, every task has returned, or the histories have their full length.

### Where the code does less than its documents say

The run `history_old_result` checks the claim that the device's history gets "the exact,
detailed final data" (`frontend/src/hooks/useLocalHistoryWriter.ts:122`) and finds it
violated: the last effect takes whatever result the page shows when a job is completed
(line 128), which at first is the one of the scan before, and files it under the new scan.

More counterexamples can be run by hand.  The `*Claims.cfg` list several claims each: leave
in the one in question.

| Configuration, module | Property | Claim that fails |
|---|---|---|
| `ScanSharedDownload.cfg`, MCScanRun | `OnlyRequestedCancellation` | jobs "run concurrently without cancelling one another" (`scan_job_manager.py:4-6`): every waiter awaits the shared download task itself (`angelone_scrip_master.py:86`), so a cancelled or timed-out waiter cancels it, and with it jobs nobody cancelled |
| `ScanClaims.cfg`, MCScanRun | `CacheOnlyFromSuccess` | "a failed/cancelled fresh scan never destroys a still-valid previous cache" (`api/scan_jobs.py:266-268`): the finalizer thread of a cancelled A Group job runs on and replaces the cache |
| | `BadSymbolNeverFailsScan` | "one bad symbol must never crash the whole scan" |
| | `WorkingJobsCapped` | the cap bounds the jobs of a type that hold results in memory |
| | `PermitsOnlyForFetches` | the semaphore limits only the fetch |
| `SessionClaims.cfg`, MCAngelSession | `SessionIsOfCredentials` | "every consumer picks up the new credentials immediately" (`api/angelone.py:79-81`): a login that began with the old credentials stores its session after the reset |
| | `TestLeavesSessionActive` | testing a connection leaves the active session alone (`api/angelone.py:50-51`) |
| `SessionStorm.cfg`, MCAngelSession | `ConcurrentRequestsRecover` | a request whose session was lost recovers by its one login: three requests invalidate each other's |
| `LiveFeedClaims.cfg`, MCLiveFeed | `LaterViewersHaveStream` | a later `acquire` "reuses the existing stream" (`subscription_manager.py:37-39`): a first subscription that raises leaves a count behind, and no later chart subscribes the symbol |
| | `ReferencesAreViewers` | a reference lasts exactly as long as its connection (`api/live.py:38-40`) |
| | `UnwatchedIsStopped` | after the last release the feed is stopped (`market_data_service.py:161`) |
| `ExcelSecondSheet.cfg`, MCExcelSync | `OneSheetPerScan` | "the same scan never creates a second worksheet" (`scan_sync.py:26`): an add that was carried out and repeated is taken for another scan's |
| `PageClaims.cfg`, MCScanPage | `StopIsFinal` | Stop will "flip back to Run/Fresh Scan immediately" (`useScanJob.ts:304-305`): when a stream request is under way, its answer sets `running` again (line 168), and nothing polls any more |
| `HistoryClaims.cfg`, MCLocalHistory | `NoSignalMeansNone` | the progress stream writes rows for "EVERY other processed" stock (`useLocalHistoryWriter.ts:83`): a stock with a signal is also recorded as one without |
| | `EndedStaysEnded` | a scan recorded as ended stays so: the snapshot of a job is looked for before it is put (`useLocalHistoryWriter.ts:65-68`), and its end may be stored in between |
| | `StoppedIsRecorded` | a stopped scan is recorded as stopped: Stop ends the polls, and no later effect looks at the job |
| | `FinalizedIsWhole` | with `UserDeletes = "any"`: a scan that is deleted while its result is being stored comes back with a part of its rows |
| `ScreensClaims.cfg`, MCScreens | `LiveAndHistoricalAgree` | "a live candle and a historical one for the same period always agree on identity" (`candle_builder.py:9-14`): live keys are the ends of periods, the bars of an intraday history bear their start (`confirmed_bars.py:11-12`) |
| | `ChartStaysInOrder` | candles are never "out of order, crashing lightweight-charts" (`TradingViewChart.tsx:122-127`): an event that waited in the queue is merged after a newer history |
| | `EndedCandlesAreWhole` | "no gap when a chart's series is historical-then-live" (`candle_builder.py`): the event that ends a candle may be dropped from the queue |
| | `ExpiryFiresOnce` | Level 5 fires "exactly once per setup" (`expiry_level_5.py:57-62`): the zone moves, and one touch confirms again |
| | `FormingMonthIsOpen` | BREAKOUT_FORMING "means the still-open current month is above the neckline" (`cup_levels.py:23-25`): on the last day of a month, and after, the month is over |
| | `TodayNeverConfirms` | "an incomplete candle must never be able to confirm a signal" (`indicators/resample.py:28-29`): the cup's history keeps today's unfinished candle, and on the last date of a month the month counts as completed (line 45), so a breakout is confirmed and taken back with the price of the day |
| | `DivergencesOutliveTheWindow` | a divergence is kept from scan to scan: when the oldest candle drops, the RSI is seeded anew (with `OnlyReversal`) |
| `BacktestsClaims.cfg`, MCBacktests | `StoppedDayIsFirst` | "one trade per day: the first breakout in either direction" (`breakout15/engine.py:11`): on a day that ends at its stop nothing looks at the missing candles (lines 225-229); an earlier breakout may have been in one of them, and no flag says so |
| | `FillsWereTraded` | "fills happen at the level" (`strategies/top_bottom/backtest.py:18`): with equal closes a swing is missing, and a trade is closed at a level the price has left behind |

Smaller ones met while reading, without a run: the docstring of `strategies/prd.py:156-172`
calls a fresh divergence with its candle sequence confirmed, the code since line 219 a
confirmed reference swing, and the rest only forming; `indicators/resample.py:33-36` speaks of
its "only caller", but `screeners/stock_analysis.py:185-186` is another; a cup whose last
close is exactly at its rim is EARLY_CUP while one just below is NEAR_BREAKOUT, and a second
breakout after a stale first one is never confirmed; a breakout day may end in a minute before
its entry, which is flagged (`breakout15/engine.py:193-195`); a System One trade may lose more
than its risk, because its stop is the moving average, which moves down too.

### Fairness

- `ScanSpec`: weak fairness of the steps of every runner, every child and the end of the
  download (the event loop runs every ready task, every HTTP call has a timeout, every
  thread ends); strong fairness of taking a permit (the semaphore is first in, first
  out, so a waiting child gets one of those released again and again).  Users and
  timeouts owe nothing.
- LiveFeed's `LiveSpec`: weak fairness of the connection task, strong fairness of a stream's
  steps (the lock is first in, first out, and other streams may take it in between).
  Connections are lost only finitely often.
- `ExcelSync`: weak fairness of the task (requests have timeouts, sleeps end).  No
  scan has to finish.
- ScanPage's `LiveSpec`: weak fairness of each poll loop (requests have an end, timers fire),
  and of the jobs, which `scan_live` justifies.  Users, the other tab and the mishaps owe
  nothing.
- LocalHistory's `LiveSpec`: weak fairness of the answers to the page, of the transactions
  (IndexedDB completes or aborts each) and of the promises that continue after one.  Scans and
  users owe nothing.
- AngelSession, Screens and Backtests are checked for safety only.

## 4. The proofs

TLAPS proves the following for every value of the constants.

**ScanRunProofs**, the registry.  `ManagerInv` is inductive: types, a finite registry, every started
job has a type, running jobs are listed, completion times are distinct and lie in
`1..finishes`, the limits, and that an evicted job has a full set of newer finished jobs
in the registry.  The strict order of completion times is what the eviction needs:
`EvictionExact` shows that with at most one job over the limit it drops exactly the
oldest one, whose existence `OldestExists` derives from the well-foundedness of strict
inclusion on finite sets.  With `RetentionBound` in the invariant there is never more
than one job over the limit.  The theorems read off: `ManagerTypeCorrect`,
`OneJobPerDevice`, `JobsAreCapped`, `RegistryIsBounded`, `EvictionTakesOldest`,
`RunningJobsAreListed`; `ManagerKeepsLimits` and `EvictionIsSound`, which state them as the
run does; and the action property `EndedJobsAreFinal`.  Assumptions: both
limits are positive, and `NoType` is not a type.

**ScanRunProofs**, the runners.  Every step of ScanRun is one of the registry's
or leaves it alone, which the lemma `ScansDriveTheRegistry` says; so every theorem above holds
under the runners, too (`ScansKeepLimits` says it of the limits).
`ScanInv` adds to the registry's invariant that a job's phase matches its status, that the
progress log holds one entry for each child that has reported, that a child's exception is in
its gather, and that a job which finalizes, is completed or is in the cache is `Settled`: its
gather holds no exception and none of its children is at work.  The argument is `ChildrenMove`:
a child that has ended never moves again, and a gather changes only while a child is at work,
so what is settled stays settled (`SettledJobsStay`), whoever is cancelled.  Every action is a
step of the children or of one runner; the first disturbs the log and the download, the second
the outcome.  The theorems: `WhatScansLeaveIsWhole`, `RunnersFitTogether`, and, with the smaller
invariant `KeptInv`, `KeptScansAreIndependent`.  Assumption: finitely many stocks.

**ExcelSyncProofs.** `SyncInv` adds to the properties in which steps a task owns a
worksheet (`SheetWhileFlushing`) and that a task that returned left nothing dirty of what
was queued at `finish` (`DoneLeavesClean`).  A first group of lemmas says what each kind of
request does to the workbook (adding keeps owners and cells, a header keeps both, a run of
rows changes only its rows of the task's own worksheet); then one lemma per action.  The
theorems: `SyncTypeCorrect`, `ScansKeepApart` (nobody writes to another's worksheet),
`NoRowIsLost`, `ReturnedMeansWritten`, and `NothingGetsLost` for both.  `SheetsInv`, on top
of it, says that a key stands at its row's number wherever it stands, and that a task goes on
with a worksheet that has its header; it gives `SheetsStaySound`.  They hold for any number of
scans, names, rows and faults.

**AngelOneProofs**, the session. Logins number the sessions, and `SessionInv` says what a
request knows of the numbers: its own logins are among the sessions issued since it began, an
attempt has one login at most, and the second attempt runs on a login of its own, the newest
it has made. `RequestInvGrows` is why the others' logins do no harm to it: more sessions leave
every one of these facts true. The theorems: `RetriesStaySound` and `LoneRequestRecovers`, for
any number of requests and accounts, and of logins from elsewhere.

**AngelOneProofs**, the live feed. `FeedIsConsistent` is inductive as it stands. It falls into
the streams with their counts (`StreamInv`) and the connection (`ConnectionInv`), and almost
every step disturbs one half only. The argument about the counts is in `AViewerIsCounted` and
`AViewerIsReleased`: a step counts or releases one stream, which moves the cardinality of one
set of viewers by one. The theorems: `FeedStaysConsistent`, and from it the action property
`OpenChartsKeepTheirRoute` (`TheLastLeavesNobody`: a count of one has one viewer). Assumption:
finitely many streams.

**ScanPageProofs.** Invariants in three layers, each proved on the ones below.

1. `TypeInv`.  A poll loop takes a fresh generation, and `GenerationsAreUsed` counts the clicks
   and the restore that have begun one: there is always another.
2. `CollectInv`.  The items of a stream are a prefix of what one job has reported
   (`ItemsGapFree`), the page's cursor is their number, and a loop that waits for an answer asked
   at the cursor.  With `JobsAreKnown` it is inductive for every user.
3. `CompletedInv`.  Whatever is shown, cached or restored, and whatever a loop asks the result of,
   is a completed job; the server's cache is the newest of them.  Completion times are those of
   JobManager.

The theorems hold for every user and for any number of jobs, stocks, clicks, restarts, lost
requests, expiring caches and reloads.  `PageTypeCorrect`, `CollectedItemsAreGapFree` and
`PageStaysConsistent` are read off the first two layers.  `NothingElseMisleads` goes through the
steps: each of them lets the followed loop go on (`QuietFollows`, `TickGoesOn`), begins one
(`BeginFollows`), or says that the page does not scan; what remains is the overtaken tick
(`LoopMisleads`, `StepMisleads`).  `FollowedResultIsNotReplaced` rests on the third layer: a loop
other than the current one brings no result, and the current one brings that of its job
(`FollowedBrings`).

**LocalHistoryProofs.** A rendering runs up to five effects at once, so a first group of lemmas
says what each leaves: rows under one key are the same row (`FiledKeys`), the chunks hold all
rows of the final result and no others (`ChunksAreWhole`, from `SetToSeqLists`), and what
`Render` puts into the queue and the refs (`RenderEffect`).  `PageStepsRender` then gives every
step of the page one form, `Rendering`, and the invariants are proved once for that form and
once for each step of the database.

1. `WritingInv`.  While the page shows a job, the writer's scan is that job; what the page has of
   a stream is of the writer's scan; the writer's cursors are never ahead of the page's, nor those
   of a polling page ahead of what the backend has reported; the writing of a final result has at
   most one transaction on its way, and its rows are filed under its scan.  It is inductive for
   every user, and `RowsAreOwn` follows from it with one more step.
2. `DeletesLeft`.  Nothing is on its way to a scan that is being deleted.
3. `ItemsRecorded`.  What is received is stored, in the queue or lost; it is `ReceivedIsRecorded`
   in terms of the lemmas.
4. `WholeInv`.  Of a final result that is being written, each row is stored or still to come
   (`Covered`); one whose loop has ended is stored, unless its scan is deleted and nothing writes
   to it (`WrittenWhole`).

The theorems: `WritingCorrect` and `RowsAreOwn` for every user; `ReceivedStaysRecorded` and
`FinalizedStaysWhole` for a user who deletes only scans that nothing is written to any more
(`UserDeletes = "left"`, as in the run `device_history`).  The hypothesis is needed:
`HistoryClaims.cfg` with `"any"` finds a scan that comes back with what a deletion left of it.
Neither says anything of a loop that a reload has cut off: then the status is completed all the
same, because the meta effect has put it before (`useLocalHistoryWriter.ts:103-118`), and a page
restored from the device's cache has no job and does not take the loop up again.
Failed writes, lost answers, reloads and restores stay arbitrary.  Assumptions:
`ScanAssumption`, `FoundAssumption` and `HistoryBounds`.

**SeriesProofs.** What the computing modules are built from, for histories of any length.  The
induction theorems of the library take operators as arguments, which no prover here can
instantiate; so induction is derived once, for sets: `LeastNat` finds the least of a set of
numbers by the well-foundedness of strict inclusion on finite sets, `Induction` and `Upward`
follow, and `Recursion` proves that a recursive function exists, step by step.  On these rest
the running totals, Wilder's averages and the RSI (`WilderIs`, `RsiIs`), the k-th of a set
(`NthIs`, `NthOrder`, `NthOfPart`), what `Pick` picks, and the candles of periods
(`PeriodBarsAre`).  The lemmas that later proofs cite most relate a history to a longer one:
`RsiStays` (an RSI is not repainted), `PeriodBarStays`, `EndsGrow` and `ResampleContinues` (so
are ended periods), `NoPeriodEnds` and `PeriodsEnd`.  `NextCandleIs`, `OldestDropsIs` and
`LastCandleMovesIs` are the steps.  Two histories that agree up to their last candle have the same
ended periods, as long as neither ends on a period's last day (`SameUntilLast`, `UnfinishedDay`).

**ScreensProofs.** `HistoryInv`: the candles are a history, and the report is that of the current
one.  With it a theorem about a screener is one about two histories; those about signals are for
two that start with the same candle (`SameStartGoesOn`).

- `DivergencesDoNotRepaint`: a pivot is decided by the candles around it and an RSI stays, so a
  divergence found once is found on every continuation (`DivergencesGrow`), in weeks and months
  too; the reported one gives way to a fresher one or to its age (`SetupStays`).
- `OnlyCompleteCandlesConfirm`: what a strategy reads of weeks and months comes from
  `Resample`, which changes with the end of a period only, also when the candle of an unfinished
  day moves that is not the last of its month (`CupsStay`).
- `CupsAreUnbroken`: from the order in which `detect_cup` looks at its statuses (`StatusRules`)
  and the first month above the rim (`BreakoutMonthIs`).
- `BreakoutIsFinal`, for what finished days say: a month after its confirmation a breakout is
  a recent one (`BreakoutBecomesRecent`). Hypothesis `EveryMonthTrades`: a stock trades in
  each month, and a breakout of the month before counts as recent (the code's default is three
  months). Without the first, a month that nobody traded in leaves no candle and the breakout
  stays confirmed.
- `ExpirySetupsAreReset`: between two crossings the RSI was back (`BackBetweenCrossings`), and
  a touch is confirmed on its first day (`OneTouchOneSignal`).
- `ChartShowsTheMarket`, for every order of trades, answers, events and changes of timeframe,
  with the inductive invariant `ChartInv`.  What the feed sends (`Events`) are candles with
  every trade of their period that was made after `since`, the last one the feed missed
  (`TradeTold`), and the queue holds them in order (`FeedOk`).  What the page shows (`PageOk`,
  `Shown`) begins with the fetched candles but the last, and its last candle has the range of a
  set of trades: all of its period up to the fetch or the latest merge (`EndsWith`,
  `ClosesAt`).  `SpansJoin` is why a merge loses nothing: the fetched candle knows its period
  up to the history, the live one from there on, and the two sets of trades overlap when
  `since` is not after the history.

**BacktestsProofs.** `BacktestsInv` is HistoryInv's counterpart, and `StartedInv` adds that the
history was long enough to start with.  The main theorem is `BacktestsImplementBook`: all four
engines, for any prices and settings and histories of any length, implement TradeBook
(`TradesAreOnline`).  For each engine there is a lemma that run anew on one candle more it
either leaves its trades alone, moves the stop of the open one, ends it on that candle, or enters
one (`TopBottomContinues`, `ScanContinues` for the loop that System One and GFS share,
`DayContinues`), and one that this is a step of the book (`TopBottomKeepsBook`,
`SystemOneKeepsBook`, `GfsKeepsBook`, `BreakoutKeepsBook`).  The loop of System One and GFS jumps
from the end of one trade to the next; `LookInStep` runs the loops on both histories in
lockstep, and what it looks up (averages, signals, exits, staged stops) is shown to stay
(`S1DataStays`, `GDataStays`).  `CandleIsBooked`, `MinuteIsNotBooked` and `NoBookYet` put the
engines together.  From the refinement follow `TradesDoNotOverlap` and `BookedTradesAreKept`, with
the inductive invariant `BookInv` of the book.

`StagedStopHolds` rests on `GTradeOf`: each trade of the report is one that `ManageTrade` makes
of its signal, whose stop is never below its first.  `VerifiedExitsAreWhole` rests on
`NoneMissing`: as many different slots as there are between the base and the exit are all of
them (an injection between finite sets of one size is onto), and on `ResolvedIs` for the
minutes; days that were stopped out are outside it, as `BacktestsClaims.cfg` shows they must be.
`ReportsStayHonest` has a hypothesis, `HistoryIsReached`: a history reaches back to the day before
the request and has no hole of a week, so that the few days fetched beyond the start find a candle.

**What is only model-checked.** The liveness properties of all modules: fairness and ENABLED are
outside the prover's reach.  `StatisticsMatchTrades` and `RankingIsFair`, which rest
on sums over sets (the folds of the community modules) and on products of fractions.
The claims of section 3 that fail have nothing to prove.

## 5. What the models leave out

- Time is an order of events: a timeout may fire whenever its wait is pending.
- ScanRun: prices, strategies and their results (Screens has these); the read-only endpoints;
  a universe of the expiry scans that is empty because Angel One is not configured.
- ScanPage: the answer of a request is taken at the moment it is served, except for the
  job that a poll holds on to while it asks for the streams; the delays; what a page that
  was left still does for the device's cache; answers with status 5xx to a start.
- AngelSession: credentials from `.env`, pacing, the retries inside the HTTP client; the
  callers that ask for a session and never reset it (`api/breakout15.py:104-112`, the
  live feed).
- LiveFeed: ticks (LiveChart has them), the heartbeat.
- LiveChart: volumes, with them the first tick's volume of the whole day
  (`candle_builder.py:95`); trades older than the running candle; the hours of the market.
- ExcelSync: the cells of a row, the token, the intervals; two signals with one key.
- LocalHistory: a page that gets ahead of its database (`Lag` bounds by how much); clearing the
  whole history; two tabs of one browser that write at once.
- Screens and Backtests: prices are small integers and averages are integer divisions, so
  rounding is not that of floating point; a backtest's history has no unfinished last candle;
  weeks and months have two and three days; an RSI is smoothed over two candles. ADX, MACD,
  Bollinger bands and volume ratios are inputs.
- Not modelled at all: section 1.2.

## 6. Plan

1. Proofs: the scores of `RankingIsFair` and the sums of `StatisticsMatchTrades`, from an
   induction over finite sets for `SumFunction`.
2. AngelSession extended by the callers that never reset; the files behind the caches with a
   crash in the middle of a write; TradingView alerts.
