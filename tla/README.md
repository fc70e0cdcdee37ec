# Formal model of the S&P 500 institutional quant platform

TLA+ modules, TLC configurations and TLAPS proofs for the parts of this repository
whose correctness depends on order: orders sent to a broker over a network that loses
answers, jobs that outlive or do not outlive their process, workflows that move one
portfolio table from several threads, a response cache shared by concurrent agents,
imports interrupted between two writes, syncs that rebuild index members and prices next
to them, a walk-forward backtest that must not see the future, rebalance plans that follow
one another, and agent runs that resume from a checkpoint and ask vendors that fail.

    tlc -workers 2 -config MCJobs.cfg MCJobs      # one run
    tlapm JobsProofs.tla                          # one proof module

`PROJECT.json` maps every definition that models code to the source lines it stands
for, lists the runs, one mutation of the code per checked property that the run must
catch, the hazards, the findings and the theorems.

Paths below are relative to `src/`; `iq/` is `institutional_quant/`, `ta/` is
`tradingagents/`.

## 1. Inventory

### 1.1 Components, their state and operations

| component | state | operations | what is hard about it |
|---|---|---|---|
| paper orders, `iq/alpaca.py` | `_previews` in memory; the broker's orders | `preview`, `submit`, (read-only: `synchronize`) | a POST that times out after the broker booked it; two submits of one preview; restart between POST and answer |
| job manager, `iq/jobs.py` | `jobs` table, one asyncio task per job | `submit`, the runner, progress reports | the final write is outside the `try`; tasks die with the process, rows do not |
| cadence operations, `iq/operations.py`, `iq/portfolio.py` | `portfolios` table | weekly, monthly, research, full cycle, daily monitor | weekly runs on the event loop, builds run in a worker thread: read, compute, save without a lock |
| research committee, `iq/agents.py` | `agent_cache`, `consensus_decisions` | analysts in parallel, two debate rounds, a judge | read-miss-call-put on a shared cache; the two stores resolve a double put differently |
| source import, `iq/ingestion.py` | manifest `source_files`, data tables, archive, issues | `import_file` | separate writes; server and command line import the same file at once, into tables that syncs write too |
| walk-forward backtest, `iq/backtest.py`, `iq/ml.py`, `iq/factors.py` | month frames, training history, preloaded tables, observations | `run` | the order in which months are trained and labelled; calendars with gaps; imports during the run |
| point-in-time tables, `iq/storage.py`, `iq/factors.py` | `fundamentals`, `estimates` | merge of an import, `_latest_metrics` | what a past signal sees must not change when a later snapshot arrives |
| trading graph, `ta/graph`, `ta/agents` | agent state, checkpoint databases, the decision log file | `propagate` | resume after a crash; a log that is read, rewritten and appended by several processes |
| index membership sync, `iq/index_data.py` | `index_membership`, its bundles in `source_files` | `sync` | delete, insert and register are separate transactions; company ids change under it |
| market data sync, `iq/market_data.py`, `ParquetPriceLake` of `iq/storage.py` | the price lake, its files in `source_files`, issues | the Alpaca and the Yahoo `sync` | members and symbols read at different times; a lake replaced by two processes |
| TradingAgents vendors, `ta/dataflows` | one configuration per process, the day's price cache | `route_to_vendor`, the vendors' functions | what an unanswered call says; parallel calls on one file |
| benchmark, `iq/benchmark.py` | benchmark results | `evaluate` | accounting by differences over a shared table |
| rebalance advice, `iq/rebalance.py` | none of its own | `build_rebalance_advice` | each plan starts from what the last one left |
| reports, calculations, case study | none of their own | pure | arithmetic |
| scheduler, `iq/scheduler.py` | three timers | readiness issue | none |
| HTTP API, `iq/api.py` | – | starts all of the above | which code runs on the loop and which in `to_thread` |
| stores, `iq/storage.py` | all tables | `insert_frame`, `upsert_*`, `save_*` | DuckDB replaces a row, Postgres keeps or merges it |
| model clients, CLI, pages, demo, preflight, configuration | – | I/O and rendering | none modelled |

### 1.2 How they interact

The API process holds one event loop. Every long request becomes a row of `jobs` and an
asyncio task (`jobs.py:15-38`). Tasks run coroutines of `operations.py` and `agents.py` on
the loop, and `_build_portfolio` and `BacktestEngine.run` in worker threads (`api.py:361`,
`to_thread`). They meet only in the store: `portfolios`, `agent_cache`, `source_files` and
the data tables. The command line is another process on the same store, and imports, index
syncs and price syncs are commands of it (`cli.py:164-229`). Alpaca is reached over HTTP
with an 8 s timeout. TradingAgents runs are processes of their own that share a log file and
one SQLite database per ticker.

### 1.3 What makes each part correct

* Orders: nothing is placed that its user did not approve in time; each at most once;
  a receipt tells the truth; a failed submit can be repeated.
* Jobs: a success has its result, a terminal row is final, no error is lost silently,
  every job ends unless the process or the store fails.
* Operations: one portfolio per run; the cutoff in force never falls; the turnover cap
  is exceeded only by overlapping jobs; a failed workflow leaves a portfolio only where the
  code saves it before a later step; no committee portfolio with a case missing.
* Committee: runs diverge only by racing; the saved provenance is
  that of the answer used; a verdict rests on every role's answer.
* Import: what the manifest says of a file is so; rows keep their accepted entry unless
  their file was imported twice at once or its import stopped.
* Index members: on every day the table holds exactly that day's roster, each company once
  and under the ticker it had.
* Prices: a bar is booked under the company and the ticker of its day; registered rows stay
  in the prices; an extreme return keeps the data from being certified.
* Rebalance: a plan stays within its budget and the limits of each name; the next plan does
  not undo it without a reason.
* Backtest: months are trained on earlier months only; holding periods tile the time
  line; all months see one version of the inputs.
* Point in time: importing later snapshots changes no past signal; no signal falls back
  to an older fiscal period.
* Trading runs: the agenda of agents is followed through every resume; no lesson from
  the future; no decision lost, duplicated or rotated away.
* Vendors: an agent hears "no data" only when a vendor's function said so (a torn cache or
  an error that yfinance swallows says so too); data comes from a vendor its configuration, or
  that of another graph of the process, allows; Yahoo's bars fit the day they were loaded for
  and are no older than that day allows.

## 2. Modules

| module | models | abstract state |
|---|---|---|
| `OrderApproval` | the promise of the order workflow | status and deadline of each preview |
| `PaperOrders` | `alpaca.py` and the broker behind a lossy network | previews, calls, wire, broker |
| `PaperOrdersProofs` | proofs | |
| `JobContract` | what a client that polls a job relies on | status and result of each job |
| `Jobs` | `jobs.py`, with the work functions of `api.py` | record in memory, row in the store, task |
| `JobsProofs` | proofs | |
| `Operations` | `operations.py`, `portfolio.py` | portfolios as points on a line |
| `ResearchGraph` | `ResearchGraph` of `agents.py` | cache by key, answers by author and fingerprint |
| `ResearchGraphProofs` | proofs | |
| `SourceImport` | `import_file`, and the tables it shares with the syncs | manifest, rows, issues; index members, prices, the lake's file |
| `IndexMembership` | `PublicSP500MembershipSync`, over `SourceImport` | intervals by company and day, bundles, syncs |
| `MarketData` | both price syncs and the price lake, over `IndexMembership` | bars by ticker and day, the lake, its files |
| `DataSyncProofs` | proofs about imports and syncs together | |
| `WalkForward` | `BacktestEngine.run` and what it calls | days, signals, versions |
| `PointInTime` | the merge of imports and `_latest_metrics` | rows by key, snapshot and period |
| `BacktestProofs` | proofs about `WalkForward` and `PointInTime` | |
| `TradingGraph` | the agent graph as pure functions | who speaks after whom |
| `TradingRuns` | `propagate`, the log and the checkpoints, over `TradingGraph` | log entries, checkpoints, runs |
| `TradingRunsProofs` | proofs | |
| `Rebalance` | `build_rebalance_advice`, `_allocate_notional` | positions and targets in whole units |
| `PortfolioProofs` | proofs about `Operations` and `Rebalance` | |
| `Vendors` | `ta/dataflows` and the tools that call it | configurations, tool calls, one cache file |
| `VendorsProofs` | proofs | |
| `MC*` | instances for TLC | |

Composition: `PaperOrders` instantiates `OrderApproval` and `Jobs` instantiates
`JobContract`, each under a refinement mapping;
`TradingRuns` extends `TradingGraph`; `MarketData` extends `IndexMembership`, which extends
`SourceImport`: an import brings company ids, members or prices, an index sync books its
members under the ids of workbooks and prices, a price sync joins bars through instruments and
members, and `DataNext` interleaves the three; `Operations` and
`ResearchGraph` both contain the store's saving rules for their tables, in both backends
(`backend` is chosen in `Init`).

### 2.1 PaperOrders

`CreatePreviews` is `preview`: it stores a batch in `_previews` with one expiry. With
`returned = FALSE` it raised on a later target (`KeyError`, line 67): what was stored
stays and is shown to nobody. `SubmitAccepted` and `SubmitRefused` are the checks of
`submit` before its first await. `PostOrder`, `OrderConfirmed` and `OrderFailed` are one
iteration of its loop, split at the await. `BrokerBooks`, `BrokerRefuses` and
`RequestLost` are the network: a request may be lost, booked with its answer lost, or
refused because the `client_order_id` exists. `Restart` empties the memory. `Tick` moves
the clock. The Alpaca service is external; it is modelled from how `alpaca.py` uses it,
with the documented rejection of a used `client_order_id` as the one thing relied on.

### 2.2 Jobs

The `JobRecord` in memory and the row in the store are two variables, because they are
written at different moments. Any store write may raise, up to `MaxFaults`; `Restart`
kills the tasks and leaves the rows. `Inline` are the jobs whose result is a part of
their row (operations); the others save a document first (`SaveResult`).

### 2.3 Operations

A portfolio is a point, one-way turnover is distance, so the optimizer is "any point
within the cap" (`Reachable`). `loop` names the job whose code is between two awaits;
`BuildRead` and `BuildSave` run in a thread and ignore it. `Save` differs by backend:
DuckDB's replacement renews `created_at`, Postgres keeps it. The committee's cases run
under `Semaphore(Parallel)`; `gather` propagates the first exception while the other
cases run on. The writes that follow a save may be refused too: the second
`save_portfolio`, the result document of a research run, the progress of the job. `refused`
records the jobs that failed so.

### 2.4 ResearchGraph

`Enter` starts a stage and reads the cache for each of its roles; `Answer` is the return
of one model call with its put; `CallRaises` fails the run and lets its siblings
continue. A cache key is `<<role, model>>`: the packet is fixed, and neither the
fingerprint nor the answers judged are part of the key (`agents.py:321-329`).
`FingerprintChanges` is the provider replacing the model behind an alias.

### 2.5 SourceImport

One action per write of `import_file`: issue, rows, manifest; the archive comes before them
and decides nothing. `Call` hashes and looks the digest up; until its entry is written another
process may find it unknown too (`excused` records such files, and those whose import stopped).
`Stop` ends an importer between any two writes. A file is offered as one dataset or another and
fits some of them. `Load` writes the rows of its dataset: names of companies, which later
identify them (`Names`), members (`Spells`) or prices (`Closes`). Prices are a table in DuckDB
and a Parquet file next to Postgres; there they take the two steps of `ParquetPriceLake.persist`
(`WriteTemp`, `TakePlace`), whose lock other processes do not share and whose temporary file
they do: a process whose file another one has moved away raises. `raced` records that two
processes were between the steps at once. Of equal keys the row that arrives last stays; the
lake orders them by `ingested_at`, which two processes may take in the other order.

### 2.6 WalkForward

The set of trading days is chosen freely in `Init`, so weekends, holidays and months
without prices are all covered. The phases are those of `run`: certify, preload table by
table, load prices with the tail after `End`, the monthly loop, evaluation, save.
`Import` raises the version of any table between any two steps. A month's frame records
the versions it saw and the months it was trained on.

### 2.7 PointInTime

A row has a fiscal period, a period type, `effective_at`, `as_of_date` and the import
that wrote it. `Merged` is the upsert under the table's primary key, `Latest` the
ranking of `_latest_metrics`. `period_type` is in the key but not in the ranking, so an
FY and an FQ row of one period may tie; `Latest` is then a set.

### 2.8 TradingGraph and TradingRuns

`TradingGraph` has the conditional edges as written (`should_continue_*`) and, apart
from them, `Agenda`: the sequence of speakers a configuration promises. `TradingRuns`
runs it in several processes. A run settles matured entries (`ReadForUpdate`), writes the
new text to a temporary file and moves that over the log (`OpenTmp`, `WriteTmp`,
`ReplaceLog`): the path is the same for every process, so two rewriters may overwrite each
other's text, or move it away (`ReplaceNothing`) while it is being written. It decides whether to resume (`Open`), enters the graph with the lessons (`EnterGraph`),
saves a checkpoint after each node, scans the log and appends (`ScanLog`,
`AppendDecision`), clears the checkpoint. `Die` is a crash or an exception between any
two steps, `HitLimit` is LangGraph's recursion limit. Checkpoints are enabled
(`checkpoint_enabled`); without them every run starts afresh.

### 2.9 IndexMembership

`Roster` replays the event log, removals before additions; `Collapsed` reduces a roster to
one representative ticker per company; `Play` is one event day of `_build_intervals`, which
closes a member whose company leaves or goes on under another ticker, `Replay` all of them
and `Intervals` its result. `Frame` are the rows a bundle inserts. `Reconciles` are the refusals
of `sync`. `SyncIndex`, `ReadPrior`, `DeleteSuperseded`, `InsertIntervals` and
`RegisterBundle` are its transactions; `StopSync` ends a sync between any two. `Identities` is
`_ticker_company_map` with the fallback of `_collapse_roster`: instruments, fundamentals,
estimates and, in DuckDB, the stored prices name a ticker's company, the first of them wins and
a group of share classes has one id; prices that were booked under a public id therefore come
back as identities of the next sync. An imported workbook of members is never deleted by a sync,
but shares its key with it: either may replace the other's row.

### 2.10 MarketData

`SyncPrices` reads the symbols, `FetchBars` reads the members and joins the provider's bars
(`Joined`, `TickerAt`), `StoreBars` merges them in DuckDB, `MergeIntoLake` and `ReplaceLake` in
two steps next to Postgres, `RegisterPrices` writes the manifest entry and `CheckReturns` is the
outlier check, over returns of a company under one ticker (`Series`, `Jumped`). A symbol is that
of the newest instrument, otherwise of the latest member (`SymbolMap`): it may pass from one
company to another. A request that raises fails the sync (`FailFetch`); an answer that is an
error only costs Yahoo the symbol, and Alpaca the sync.
`Certified` is what `certify_point_in_time` asks of members and prices. History variables
record the frames merged (`merged`), those joined to a whole reconstruction with the bundle and
the identities it was read under (`joined`), and the instruments and members that price syncs
have read (`views`).

### 2.11 Rebalance

`Gate` computes every `desired_delta_value`; `SellNext`, `CountProceeds` and `BuyNext` are
`_allocate_notional`, `Advise` the filter of small changes. There are finitely many names,
as a broker's snapshot has. The code places no order:
`Follow` is its reader doing what the plan says and asking again. Positions are integers,
so an equal share of a sector's excess is rounded.

### 2.12 Vendors

`Build` is a graph created in the process: `set_config` merges its settings into those of
the process. `Turn` is a message whose tool calls run in parallel (`Ask`). `Serve` is one
vendor's attempt with every result its function can give (`Results`), and `Verdict` what
`route_to_vendor` makes of a chain without an answer. `OpenCache`, `CheckAge`, `Download`
and `Written` are `load_ohlcv`, split where another thread can get between; a file being
written, or left by a death, may show any part of its content, also a part that ends inside
its last row. When the bars of an indicator cannot be had, the function asks again for each day
of its look-back (`Failed`, `Loaded`, `DayBefore`): an earlier day is taken from the file
whatever its age, a failure is an empty string, and a day without data ends the whole as no
data. `FilteredByDate` is Alpha Vantage's filter of prices, which passes everything on when it
fails. One symbol and one cache file are modelled; data is reduced to the newest day it knows of.

## 3. Runs

### 3.1 Passing

| run | question | bounds | states |
|---|---|---|---|
| `paper_orders` | are orders safe under loss, retry, restart and two submits? | 2 previews, 2 calls of up to 2 orders, TTL 1, clock 2, 1 restart | 431,372 |
| `jobs` | what can a job's row say, and does it end? | 3 jobs (one inline), 1 report, 1 store fault, 1 restart | 10,458 |
| `operations` | can two workflows break the portfolio table? | any 2 workflows, 2 cases, semaphore 1, 4 points, caps 1 and 2, 2 cutoffs | 931,694 |
| `research_graph` | do concurrent runs share the cache soundly? | 2 runs, 1 analyst, 2 models, 1 fingerprint change | 836,900 |
| `data_sync` | do imports, index syncs and price syncs keep each other's data true? | 3 files, 4 datasets, 2 importers, 2 index syncs, 2 price syncs, 6 tickers of 4 companies, 3 days, any 3 commands, all at once, 2 stops, both stores | 111,157 |
| `walk_forward` | is the order of months right on every calendar? | 10 days, months of 2 days, years of 2 months, window 3..7, tail 2, 1 import | 428,652 |
| `point_in_time` | does an import change the past? | 3 dates, 2 periods, 2 types, 2 imports of up to 2 rows | 79,706 |
| `trading_runs` | do runs survive crashes and each other? | 2 runs, 2 tickers, 2 days, 2 graph shapes, 1 death, 14 steps | 1,315,438 |
| `rebalance` | does a plan keep its limits, and does the next one undo it? | 3 names, 2 sectors, 4 values, limit 4, budget 5, minimum 2, 1 plan followed | 1,536,280 |
| `vendors` | who answers a tool, what does a failure say, which bars are served? | 2 graphs, 2 configurations, 2 parallel calls, look-back 1, 1 message per process, 1 tick, 1 death | 2,263,638 |

Why these are enough:

* Two of each racing actor produce every pairwise race; no guard in the code counts
  beyond one competitor. One restart or stop can fall between any two steps; a second
  meets no state the first does not leave.
* `operations` has a line of four points and caps 1 and 2, so a target can be out of
  reach of both cadences; `Parallel = 1` with two cases makes one case wait for another.
* `walk_forward`: the window spans two model years and months with zero, one or two
  sessions occur; `TailDays = 2` is shorter than some gaps in the chosen calendars.
* `point_in_time`: three dates are a snapshot before, at and after a signal. The two
  restating rows of one file and two imports give every overwrite; the theorems of
  section 5 remove the bound.
* `trading_runs`: two graph shapes of one ticker and date share a database and differ in
  thread; the initial logs hold pending, settled and rotatable entries; the news
  analyst's tool loop reaches the recursion limit.
* `data_sync`: one file is offered as two datasets, only one of which it fits; another brings a
  member row whose key a reconstruction uses too, a third a price under the key of no sync. In
  the event log a company leaves and its ticker is used again, one joins, one gets a second share
  class that becomes its canonical one and one changes its ticker; the feed has bars of all of
  them, and returns that are extreme under one ticker or only across two. The names give the
  ticker of the company that leaves to another one later, and the company that changes its ticker
  the id of its old one alone, so that an import, or a stored price, between two syncs moves
  members and prices to other ids. Three commands (`MaxCommands`), all of which may run at once
  (`MaxBusy`), are two that race after or next to a third; section 5.5 proves every property for
  any number of them.
* `rebalance`: the values are a short, nothing, a share below and one above the name limit;
  two names share a sector, whose excess they divide. One plan is followed, so each of these
  snapshots is planned for twice in a row, the second time from what the first left.
* `vendors`: the configurations are one with a fallback and a vendor that does not offer the
  tool, and one that moves a tool and opens a category to every vendor; what they leave out
  comes from the default. Two calls are the readers and writers of one file; a call to a vendor
  that keeps nothing is alone in its message (`Apart`), as such calls do not meet. Both keys are
  set: a vendor then has all its results, and a key that is refused ends as one not set does.
* Symmetry is used where a cfg says so: over the two runs (`research_graph`, whose
  `Variants` are closed under swapping), the two processes (`trading_runs`), the two index
  syncs and the two importers (`data_sync`) and the graphs and calls (`vendors`); only safety is checked there.

`CHECK_DEADLOCK` is off everywhere: every system comes to rest when its calls, jobs or
months are used up.

### 3.2 What the properties say

`AtMostOnce`, `ReceiptsTruthful`, `PreviewKeptUntilPlaced`: a retry with the same
`client_order_id` never places a second order, a confirmed position of a batch is an order
at the broker, and what has not been placed stays submittable. `ImplementsOrderApproval`:
every behaviour is one of the abstract workflow. `SucceededHasResult`, `NoSilentDeath`,
`EveryJobSettles`: see 1.3. `ImplementsJobContract`: what a poll answers is a behaviour of
`JobContract`: the status moves one way and ends in one final answer, a result never
disappears, and none is missing behind a success; `TerminalIsFinal` follows from it. `CapHoldsWithoutOverlap`,
`WeeklyStartsFromDeployed`, `CutoffNeverFalls`, `OneRowPerRun`, `WhatFailuresLeave`,
`EveryOperationEnds`: a new portfolio in force is within its cap of the one it replaces,
unless its job started from another one. A failed workflow has left one only as a full cycle
(its weekly part) or because the store refused a later write of it; the console's
"Your existing portfolio and paper orders were not changed" (`templates/page.html:416`) is
true of the other failures only. `CapHoldsWithoutOverlap` bounds a workflow against the
portfolio it read: of jobs that overlap it says nothing, and nothing else does. `DivergenceNeedsRace`, `ProvenanceUnlessRaced`, `VerdictIsComplete`:
what two runs hold for one key differs only if both asked the model at once.
`ManifestIsTrue`: an accepted entry has its rows, a rejected one none and an issue, for the
dataset the entry names. `RowsAreRegistered` is the converse, and the reason it must except
files imported twice at once: the later entry replaces the earlier one, even a rejected one an
accepted one, and the rows stay. `UniverseIsTheRoster`: whatever earlier bundles, identities,
workbooks and stops left behind, a sync that ran through by itself makes its rows the roster of
every day; a workbook's row may stand where its key is that of a member.
`PricesFollowTheRoster`, `BroughtPricesStay`, `OutliersBlockCertification`: each with the
condition the code leaves it: a whole reconstruction when the bars were joined, no workbook row
for their company, and a symbol that has stood for it in the index; no two processes in the
lake at once; price syncs that all read the instruments and members there are now, and no stop
before the check.
`WalkForwardOrder`, `HoldingPeriodsTile`, `FrozenInputs`, `SelectionOfTheYear`: a month is
trained on exactly the labelled months before it; each position is sold on the day the next
is bought. `NewestPeriodWins`, `PastIsClosed`: of fundamentals, whose key holds the
snapshot. `AgendaIsFollowed`, `LessonsAreKnown`, `LogKeepsDecisions`: the last only as long
as no process acts on a stale reading of the file and no two rewrite it at once (`raced`):
the code has no lock, a rewrite can lose an append made since its read, and two rewriters
share the temporary file (`memory.py:186-229`). `PlanFitsBudget`,
`LimitsAreKept`, `ReversalNeedsAReason`: turnover within the budget and purchases within
reductions up to what the filter of small changes leaves out; a name bought by one plan is
sold by the next only if it is weak or its sector crowded. `VerdictIsJustified`,
`VendorsAreChosen`, `BarsAreDue`: see 1.3; settings of another graph of the process, a file
renewed by a parallel call and prices of Alpha Vantage whose filter failed are the exceptions
the code makes. `BarsAreDue` speaks of the day the bars were loaded for: an indicator that fell
back to single days may give an agent the values of earlier days only, from a file that the
current day was not allowed to use.

### 3.3 Runs that end in a violation

| run | property | what the repository says |
|---|---|---|
| `lookahead` | `SignalsUsePastDataOnly` | the note saved with every backtest; a training label ends at the open after the signal that trains on it |
| `reexport` | `AvailableStaysAvailable` | `docs/CIQ_EXPORT_TEMPLATES.md:17`; the key of `estimates` lacks `as_of_date`, so a later export hides an estimate from the signals in between |

### 3.4 Other disagreements met while modelling

These have no run of their own; the models contain what the code does.

* `iq/templates/page.html:416` tells the user of a failed workflow "Your existing portfolio and
  paper orders were not changed"; a full cycle that fails in its committee has deployed its
  weekly portfolio, and a workflow whose result or progress the store refuses has deployed its own.
* `README.md:205`: a changed fingerprint starts a new experiment version; the cache key has
  no fingerprint (`agents.py:321-329`).
* A bundle the manifest knows answers an index sync at once, also when a later bundle has
  superseded its rows (`index_data.py:320-334`).
* `rebalance.py:246-247` calls the plan cash-neutral; the minimum change is applied after
  the allocation, so purchases may exceed the reductions that remain (`PlanFitsBudget`
  bounds by how much).
* `docs/OPERATING_RUNBOOK.md:167-168` says that imported Capital IQ members "take precedence"
  over the public ones; an index sync that comes later replaces a workbook's row that has the key
  of one of its own, and any others stand next to them (`index_data.py:404-410`).
* Two share classes of one company and day collide in the price table's key; the symbol that
  sorts last wins. A symbol that never stood for its company in the index has no validity to be
  rejected by, and keeps its own ticker (`market_data.py:92-94`); and the 430 days before
  membership (`market_data.py:81`) admit bars of an earlier owner of the ticker.
  `PricesFollowTheRoster` is about the other bars.
* Prices that a workbook brings are never checked for extreme returns: only the syncs call
  `active_membership_return_outliers`.
* `certify_point_in_time` relies on the outlier check made when a file was synced. When an
  index sync makes another company active, or an import moves a company to another id, the
  stored prices are not checked again; and a file whose digest is known is merged, with
  rows that may now carry other companies, without a check (`market_data.py:300-322`).
  `OutliersBlockCertification` therefore asks that nothing the syncs read has changed; without
  that condition the instance of `data_sync` has a counterexample.
* `y_finance.py:334-338` and `alpha_vantage_indicator.py:213-216` put failures into words, so
  the router takes them for an answer and tries no other vendor.
* An optional tool raises when the configuration names no vendor that offers it
  (`interface.py:168-193`).
* `alpha_vantage_stock.py:21` promises prices "filtered to the date range"; with an `end_date`
  that cannot be parsed all of them are returned (`alpha_vantage_common.py:148-151`).
* `stockstats_utils.py:215-217` treats an empty cache file as a miss; a file of no bytes makes
  `read_csv` raise before that test.

## 4. Fairness

* `PaperOrders`: weak fairness of posting and of the end of an outstanding POST. The HTTP
  client has a timeout (`alpaca.py:30-33`), so a POST ends whatever the broker does.
  Nothing is assumed of the broker or the network.
* `Jobs`: weak fairness of a task's first and last step: asyncio runs every ready task,
  and work functions are assumed to return or raise. `EveryJobSettles` excludes restarts
  and store faults explicitly.
* `Operations`: weak fairness of the steps of each job, which includes that the optimizer
  and the model calls end.
* The other modules check safety only and assume no fairness.

## 5. Proofs

All proofs are for every value of the constants, under the named assumptions of the
modules.

### 5.1 PaperOrdersProofs (assumption `BoundsAssumption`)

`AtMostOnce` is not inductive: it rests on the link between a request on the wire, the
answer its call waits for and the `client_order_id` the broker has booked. `IInv` is
`TypeOK` with

* `CallsInv`: a call in progress stands at one of its orders, all of them approved;
* `WireInv`: a request on the wire carries an approved order under its preview's
  reference and, while its call waits, is that call's only one and unanswered;
* `BookInv`: the broker has booked exactly the references of the orders it placed;
* `ReceiptInv`: an order that was confirmed, or answered and not yet read, is placed, and
  no other position of any call holds a receipt for it;
* `ApprovedInv`: an order is placed only on an approved preview, a minted one.

From `IInv` follow `TypeCorrect`, `PlacedAtMostOnce`, `ReceiptsAreTruthful` and the action
property `PreviewsKept`. `ImplementsContract` proves `Spec => Approval!Spec`: each step is
a `Quote`, `Approve`, `Place` or `Tick` of `OrderApproval` or leaves its state alone.

### 5.2 JobsProofs (assumption `JobsAssumption`)

A row is written from the record its runner holds, so the invariant ties the record to
the task and to the row: `IInv` is `JobsTypeOK` with `RunnerInv` (the record of a created
task and its row both say queued, those of a running task running, neither with a result), `TerminalInv` (only a task that ended leaves a terminal
row), `SucceededHasResult` and `NoSilentDeath`. It gives `JobsTypeCorrect`,
`SuccessIsBacked`, `NothingStrandsSilently` and, as an action property,
`TerminalRowsAreFinal`. `JobsImplementContract` proves `JobsSpec => Contract!Spec`, where the
status is that of the row and the results are the documents and the inline references:
`Submit`, `Begin`, `SaveResult`, `Succeed` and `Fail` are steps of the contract, or stutter
when the store refuses the write; a report writes what the row already says (`RunnerInv`),
and a restart changes nothing a client can see.

### 5.3 BacktestProofs: PointInTime (assumptions `DatesAreOrdered`, `MaxFilesIsNat`)

`PointInTimeTypeOK` is inductive as it stands (`TableIsKeyed`). `FundamentalsPastIsClosed`
needs it for two facts: the rows of an import are new, so they are exactly
`rows' \ rows`; and what they replace has their key, which holds `as_of_date`, so neither
side of a replacement is visible to an earlier signal. `NewestPeriodAlwaysWins`: what the
earlier signal took is still visible to the later one and would rank first.

### 5.4 BacktestProofs: WalkForward (assumption `CalendarAssumption`)

`WInv` has `LoopInv` (nothing is predicted before the loop, and only labelled days are),
`PrefixInv` (what is done is a prefix of the labelled days), `WalkForwardOrder`, `SawInv`
(a frame saw the tables as they are frozen) and `YearsInv` (a year's cached parameters are
those of a finished month of that year). The step that needs an argument is the prediction
of the first remaining month: by `PrefixInv` the history is exactly its past, so `predict`
never refuses (`HistoryIsThePast`). Results: `MonthsAreTrainedInOrder`, `InputsAreFrozen`,
`ParametersAreOfTheYear`, for every calendar.

### 5.5 DataSyncProofs (assumptions `ImportAssumption`, `MembershipAssumption`, `MarketAssumption`)

All of these are theorems of `DataSpec`: imports, index syncs, price syncs and stops in any
interleaving. The manifest entry is the last write of an import, so its truth rests on how
far its importer has come: `ProgressInv` says what each stage of an importer has already
written. `OnlyInv` says that an import of a file that is not excused is the only one of its
file, which the manifest does not know yet: so no entry of it is ever replaced. With the type
invariant they make `ManifestIsTrue` and `RowsAreRegistered` inductive, for any number of
importers, calls and stops; a sync leaves what they speak of alone.

`BroughtPricesAreKept` treats importers and price syncs alike (`Stands`, `Owed`): as long as one
process at a time is between writing the temporary file and moving it, that file is the present
lake with its own rows over it (`MergeInv`), a process that stored its rows and has not
registered them finds them there (`LoadedInv`), and an upsert loses no key (`UpsertKeepsKeys`).

*The roster.* `UniverseShowsTheRoster` has two halves. The first is about the replay alone, for
every event log and calendar. `Roster` and `Replay` are recursive functions, so that they
satisfy their equations is proved first (`RecursionExists`, `RosterUnfolds`, `ReplayUnfolds`);
the induction over days, which the library states for an operator parameter, is done by taking
the first day that would be wrong (`FirstNumber`). Its statement is `DayIsRight`: on every day
played so far each member is in exactly one spell that covers the day, closed or open. A day's
events leave the earlier days right (`EarlierDaysStay`) and make the day itself right
(`TodayIsRight`); `FrameShowsTheRoster` reads it off the rows. The second half is about
transactions. That a sync leaves exactly its own rows needs that it deletes all others, and it
deletes only rows of bundles the manifest lists. `UInv` therefore says where every reconstructed row comes
from (`RowsHaveSources`: a registered bundle, one being registered, or one whose sync was
stopped), what a sync that has its writes to itself has reached (`AloneInv`), and that unless
the last writes were torn only one sync writes and the rows are those of the last bundle
(`WholeInv`). Workbooks write the table in the meantime, so "the rows of a bundle" is `Carries`:
no other reconstructed rows, and a row is missing only where a workbook's row has its key.

*Prices.* `JoinedFollows` needs of the table only that it carries a bundle and that the bar's
company has no workbook row: if the index has shown the company under the symbol, the symbol has
a validity there, so the day lies in it or at most `Lookback` before it, and on a day of
membership the one row that covers the day has the ticker. Nothing is asked of the symbol map: it
may give the symbol to any company. What was joined is never changed, so `JInv` says it of all
frames and each bundle's own identities.

*Outliers.* The first form of `OutliersBlockCertification` was not inductive, and proving it
showed why: it held on the instance only because no company became active or changed its id
after its prices were checked (3.4). The invariant is stated for an arbitrary view `v` that all
price syncs have read: the rows at work are those the digest and `v` determine (`WorkInv`), a
frame merged is that of a registered file or of one about to be (`OriginInv`), and a
registered file with an outlier is flagged or about to be checked (`CheckInv`). Stated for the
present view it would not survive members that change and change back.

### 5.6 PortfolioProofs: Operations (assumption `OperationsAssumption`)

A save either adds the newest row or takes the place of the job's own row, at the same
cutoff and never older (`Replaces`, `SaveReplaces`): the portfolio in force can only stay or
be replaced by the row just saved (`ReplacesKeeps`). `OInv` is `OpsTypeOK` with `BookInv`
(one row a run and cadence, `created_at` unique, a job saves for its own cutoff, one row
heads the table), `LoopInv` (the loop belongs to the weekly adjustment under way), `StageInv`
(what each stage says of the workflow and its cases), `RowInv` (where a job stands that has a
row, and who failed after a save) and `WeeklyStartsFromDeployed`. `StageInv` and `RowInv` are there for
`FailuresLeaveOnlyThis`; `CutoffsRise` and `CapHolds` are action properties of the same
invariant.

### 5.7 ResearchGraphProofs (assumption `ResearchAssumption`)

A call only ever waits on an empty cache entry, so an entry changes under a waiting call only
when two runs asked for it, and that is recorded. `RInv` says so: `WaitInv` (a run waits for
roles of the node it is in), `MissInv` (it waits on an empty entry or a raced one), `RaceInv`
(two waiting for one entry race), `StageInv` (a run has the answers of the stages it passed),
`DecisionInv`, with the type invariant and the two properties. Results:
`RunsAgreeUnlessRaced`, `ProvenanceHolds`, `VerdictsAreComplete`.

### 5.8 BacktestProofs: HoldingPeriodsTile

First the calendar: the first session after a day moves on (`FirstAfter`, from the
well-foundedness of `<`), so a period opens before it closes (`PeriodOpensFirst`), the periods
of two labelled signals do not overlap (`PeriodsAreDisjoint`), and a labelled signal before
another is followed by a labelled one whose period opens where its own closes
(`PeriodsMeet`). Then the run: `TileInv` says that the labels are those of the one load of
prices, that every labelled day is walked before the evaluation, and that each record is the
period of a labelled day in the window, once. `EvaluatedMonthsTile` follows for every
calendar, window and number of imports.

### 5.9 TradingRunsProofs (assumptions `ConfigAssumption`, `LogAssumption`, `RunLimitsAreNat`)

`ConfigAssumption` gives a graph distinct analysts and each debate at least one round: with
no rounds the first debater would still speak, and there is no such agenda.

*The agenda.* `AgendaAt` reads off `Agenda` who has the k-th turn. `OnAgenda` says of a graph
state that what was spoken is the beginning of the agenda and that its node and both counters
are those of the next turn, phase by phase (`AtAnalyst` to `AtEnd`). One lemma for each phase
shows that the code's routes, which look only at a counter and the last speaker, lead to the
agenda's next turn (`StepsKeepTheAgenda`); the two alternations are arithmetic modulo 2 and 3.

*The log.* `NthIsABijection` makes rotation a selection of positions, so it keeps every pending
entry, and no two equal ones (`RotateKeepsPending`); `OutcomesSettle` does the same for a
rewrite, which takes exactly the settled keys off the pending ones. `WindowOK` says that
without a race one process at most is between opening the temporary file and moving it, and
that the file then holds exactly what this process makes of its reading, whatever a death
left there before.

*The runs.* `TInv` has `OnAgenda` for every run in the graph and every checkpoint, of the
thread's own configuration; what was read from the log and injected from it was known by then;
what will be settled has matured; and a run about to append saw no pending entry of its key.
From it follow `RunsFollowTheAgenda`, `RunsLearnFromThePast` and `RunsKeepDecisions`, for any
number of processes, runs, deaths and resumptions.

### 5.10 VendorsProofs (assumptions `VendorsAssumption`, `ConfigAssumption`)

`ConfigAssumption` says that a configuration maps categories and tools to lists of names. The
first part is about the operators, for any such configurations: what each vendor's function can
give (`ResultsGive`), that prices are due for their day (`StocksAreDue`), and that
the chain of a tool holds only chosen vendors and starts with one that offers it
(`ChainGives`, `OnwardGives`). `VInv` has `SettingsInv`, since settings of several graphs are
merged into one process (each list is that of a graph built, or the default's where none has
one), and `CallInv` for every tool call: while it is on its way the vendors still to come are
chosen and those tried had no answer (`OnItsWay`), a call that fell back holds a sound result
of one day of its look-back or none (`ByDay`), and once it is over the three properties hold of
its verdict. One lemma for each step of a call; the calls next to it matter only
through the cache file, of which `VInv` says that a reader may find anything in it. Results:
`CallsAreSound`, `VerdictIsJustifiedThm`, `VendorsAreChosenThm`, `BarsAreDueThm`, for any number
of graphs, parallel calls, messages and deaths.

### 5.11 PortfolioProofs: Rebalance (assumption `RebalanceAssumption`)

Sums are folds of the community modules, so their laws come first: `TotalIsSum` (the fold is a
recursive function on subsets that exists), `SumsAgree` (two such functions agree), and from
them what is used: taking one name out (`TotalTakeOut`), splitting (`TotalSplit`), bounds
(`TotalFloor`, `TotalCeiling`) and changing one value (`TotalUpdate`). `RInv` is `Valued` with
`InRange` (what is staged for a name lies between nothing and what is desired, purchases after
all reductions), `Balanced` (what is staged and what is left of the budget, then of the
proceeds, add up) and `PlanKnown`. `PlanFits` is then a bound on what the filter of small
changes leaves out, `LimitsHold` follows from the limits of `DesiredDelta`, and
`ReversalsHaveReasons` from what was bought having been within its limit. For any finite set of
names, any sectors, limits, values and number of plans.

### 5.12 Checked only

Every safety property of a passing run is a theorem. Liveness (`CallReturns`,
`EveryJobSettles`, `EveryOperationEnds`) is outside the prover's reach and stays with TLC. The
refinements of `OrderApproval` and `JobContract` are safety; the contracts promise no progress.

## 6. Not modelled

* Numbers: factor formulas, the ridge regression, covariance, optimisation, returns, costs
  and metrics. They have no order to get wrong; their inputs do, and are modelled.
* Column normalisation and unit conversion of workbooks.
* What a language model says: an answer is its author, fingerprint and whether it is in range.
* Read-only endpoints, pages, the command line's rendering, model clients, configuration,
  demo and preflight.
* Of the syncs: paging, CSV and bar parsing, price adjustment, archives, warnings. Of the
  vendors: payloads beyond the newest day they know of, symbol normalisation, indicators.
* Of the rebalance advice: scores, evidence texts, the parser of broker exports and the
  target optimizer; floats are integers.
* Hazards that are known and not covered, because the code promises nothing that could be
  stated: quantities of two previews of one symbol (`alpaca.py:71`); repeated weekly runs on
  one day (`operations.py:187`); cache keys without fingerprint and judge keys without the
  views judged (`agents.py:321-329`); which variant's decision is kept (`agents.py:520`); a
  rejected file uploaded again, which is answered as already imported
  (`ingestion.py:1095`); and the benchmark's totals over a shared table (`benchmark.py:60`).
* Of the decision log: entries from before the resolution date was stored, the limits of
  five and three lessons, and `update_with_outcome`, which only tests call.
* The remaining components of the table in 1.1; `PROJECT.json` says for each why.

## 7. Plan

Order of work, most important behaviour first; steps 1 to 12 and 14 are done.

1. `OrderApproval`, `PaperOrders`: money moves here.
2. `Jobs`: everything else runs inside it.
3. `Operations`: the portfolio table.
4. `ResearchGraph`: the cache.
5. `SourceImport`: the manifest.
6. `WalkForward`, `PointInTime`: no look-ahead.
7. `TradingGraph`, `TradingRuns`: resumption and the log.
8. Proofs of `PaperOrders`, `Jobs`, `PointInTime`, `WalkForward`, `SourceImport`.
9. `IndexMembership`, `MarketData`: the data the platform rests on, composed with imports.
10. `Rebalance`, `Vendors`.
11. Proofs of `Operations`, `ResearchGraph`, `MarketData` and of `HoldingPeriodsTile`.
12. Proofs of `TradingRuns`.
13. An abstract specification of the portfolio table (one deployed portfolio, moved within
    its cap) that `Operations` without overlap implements.
14. Proofs of `Rebalance`, `Vendors`, and of members and prices in `DataSync`: done.
15. The accounting of the benchmark.
