# Trading bot: TLA+ models

An algorithmic trading bot for MetaTrader 5. A Python process (the bot) runs the
strategy and talks over HTTP to a bridge server on the same host; an expert advisor
(EA) inside the trading terminal polls the bridge for commands and pushes prices,
account data and results. In paper mode a simulated broker inside the bot takes the
EA's place. Around them run a parameter search, a supervisor that repeats it and files
and patches regressions, and a process supervisor that keeps the bot up.

All paths below are under `src/`.

## Inventory

| component | source | state | operations | talks to |
|---|---|---|---|---|
| trading loop | bot/main.py | BotState (peak, start of day, cooling_off_until), taken tickets | one pass per second: gate, account and breakers, orders, management, sleep; stop and resume | broker, bridge client, breakers, checkpoint, autoresearch thread |
| paper broker | bot/core/execution/paper_broker.py | positions, closed trades, ticket counter, state file, CSV journal | place, close, partial close, modify stop, save, load, reseed | bridge client for prices |
| order manager | bot/core/execution/order_manager.py | none | passes calls to a broker, break-even stop | broker |
| live broker | bot/core/execution/live_broker.py | none | commands through the bridge, positions and results from it | bridge client |
| breakers, sizing | bot/core/risk/manager.py | limits | three breakers; Kelly and ATR sizing, adjustment by drawdown | loop, backtest engine |
| checkpoint | bot/core/checkpoint/state.py | pickles | save, load newest, rotate | loop |
| bridge client | bot/core/bridge/http_client.py | none | GETs and POSTs, three attempts each | bridge server |
| bridge server | bot/core/bridge/http_server.py | command queue, result log, last tick and account, bars per symbol and timeframe, parquet files | order, command, result, results; tick, history, history-batch; flush thread, reload | bot, EA, bar fetchers |
| EA | bot/mql5/PythonBridgeHTTP.mq5 | the terminal's account | timer: tick, account, poll and execute, history in chunks | bridge server |
| position monitor | bot/core/monitoring/position_monitor.py | last snapshot, seen tickets | poll, diff, events, alerts | broker |
| history data | bot/core/data/, bot/scripts/backfill_history.py | bar files shared with the bridge | fetch, cache, merge, backfill | bridge client |
| autoresearch | bot/autoresearch/loop.py | params.yaml, visited set, results | ideate, modify, verify, guard, decide, keep or roll back | engine; params.yaml is read by the loop |
| supervisor meta-loop | bot/supervisor/ | SQLite database, pid file, base parameters and snapshots, the working tree | phases 1 to 8, resume, promote, roll back; issues, patches, CI gate, escalation | autoresearch, git, GitHub, ntfy |
| process supervisor | bot/scripts/supervisor.py | child, restart count, health file | market gate, spawn, back-off, stop | bot process |
| backtest engine | bot/backtest/engine.py | none | event loop over bars, guard, purged k-fold | strategies, risk manager |
| strategies, filters | bot/core/strategy, filters, regime | none | signals from bars | loop, engine |
| research pipeline | research/pipeline | a checkpoint per book, SR counter, specs, trial log, notes | read, extract, spec, backtest, note; rank | language model, engine |
| dashboard, scripts | bot/dashboard, bot/scripts | none | display | |

What is hard here: the bot may be killed between any two steps and is restarted by
script with `--resume`; calls over HTTP are repeated when their answer is late; the
queue is bounded and everything the bridge knows about orders is in memory; two
threads drain one result log; management of a position is two calls of which the
second may fail; several writers share parameter files, bar files and the database;
long offline jobs (sweeps, patches, the study of books) are resumed from what they had
saved. `PROJECT.json` lists these hazards line by line.

What makes each component correct:

- paper broker: tickets are never issued twice, a closed trade stays closed, no open
  position vanishes, and one thread sees a book of positions;
- loop: a pause after losses is honoured across restarts and ends, a target is taken
  once and then protected, and positions are managed in every pass past the gate;
- live path: commands are conserved, results are read once, order is kept, and what the
  bridge accepts is executed or known to be lost;
- bars: the newest bar is kept, sealed bars reach the file, nothing made up is saved;
- autoresearch: after every search the file holds accepted parameters, judged against
  the right baseline;
- supervisor: one search per combo and iteration, parameters promoted on their own score,
  one open event per regression, budgets and slots kept, people's changes kept, alerts
  spaced;
- process supervisor: one child, which a stop ends and an exit brings back;
- research: answers paid for are kept, numbers are unique, notes match specs, runs end;
- backtest: folds are purged, breakers bite and stay, the day's limit counts all of the day.

## Modules

| module | models | state and actions |
|---|---|---|
| `Book` | what a broker promises (abstract) | `book`, ticket to volume and stop; Open, Reduce, MoveStop, Close, and Lose for an unreadable state file |
| `PaperBroker` | paper_broker.py | memory (`positions`, `closed`, `ticketSeq`), disk (`stateFile`, `journal`), and `call`, where each thread stands. A method is cut at the end of each critical section and before the journal append: `PlaceOrder`, `ClosePop` then `CloseStale` or `CloseCommit`, `PartialRead` then `PartialRaise` or `PartialCommit`, `ModifySl`, and `Journal`. `Crash`, `CorruptStateFile`, `CorruptJournal`, `Restart` |
| `MCPaperBroker` | | symmetry of threads |
| `PaperBrokerProofs` and seven more `...Proofs` | | theorems about the modules they are named after; `HistoryProofs` is about `BarStore` and `Backtest`, and `BotLoopProofs` also about `ProcessSupervisor` |
| `BotLoop` | main.py with the breakers and the checkpoint, over `Book` | `at` is the place in the pass; `Start`, `GateClosed`/`GateOpen`, `AccountStale`/`AccountFresh`, `PlaceOrder`/`NoOrder`, `GetTick`, `PartialClose`/`PartialCloseStale`, `SetBreakeven`/`ManagementError`, `EndOfPass`, `Tick`, `Midnight`, `Stop`, `Crash` |
| `LivePath` | http_client, http_server, EA and the readers of results | `calling`, `wire`, `queue`, `ea`, `executions`, `results`, `read`; `SendOrder`, `AttemptFails`, `BridgeSendOrder`, `BridgeSendFetch`, `GetCommand`(`Lost`), `ExecuteTrade`, `FetchHistory`, `GetResults`, `EaRestart`, `BridgeRestart` |
| `BarStore` | the bars of http_server, core/data and backfill_history | the buffer (`bars`, `open`, `dirty`), the EA's `chunks`, `file` and `tmp`, and for each of four writers where it is, its rows and the name its open file has by now. `Tick`, `PushHistoryBatch`, `EnsureBars`, `WorkerWakes`, the steps of a write (`Snapshot`, `Guard`, `Create`, `Written`, `Replace`), `Fetch`, `BackfillReads`/`BackfillMerges`, `StartBridge`, crashes |
| `Autoresearch` | autoresearch/loop.py `run()`, its thread in main.py, the guard line of backtest/engine.py | `at` is the place in a search; `file` is params.yaml, `visitedFile` visited.json, the rest locals of `run()` and fields of the object. `Review`, `ScoreCurrent`, `ScoreChallenger`, `Baseline`, `ProposeNear`/`ProposeFar`/`ProposeAgain`, `JudgeKeep`/`JudgeRollback`, `Finish`, `Abort` (a backtest times out), and on main's side `Boot`, `Reload`, `StartSearch`, `Crash` |
| `MCAutoresearch` | | the parameters of each strategy |
| `Promotion` | supervisor/loop.py phases 1 to 3, autoresearch_runner.py, the tables iterations and autoresearch_runs | `pc` is the place in an iteration; `results` in memory, `params` per combo, `base` the bot's parameters. `BeginIteration` (or resume), `BeginCombo`, `SearchCombo`, `RecordRun`, `CheckRollback`, `RecordRollback`, `PromoteCombo`, `RecordPromotion`, `CompleteIteration`, `Crash` |
| `Regressions`, `MCRegressions` | supervisor/loop.py phases 4 to 7, patch_agent, ci_gate, notifier and their tables | events, budget and alert rows, pull requests, the working `tree` and `stash`. `InsertEvent`, `FileIssue`, `CheckBudget`, `CountAttempt`, `StashTree`, `EditFiles`, `TestAndCommit`, `CreatePr`, `RestoreTree`, `RecordPatch`, `CheckPr`, `ApplyUpdate`, `Escalate`, `PostNtfy`, `Clock`, `UserEdits`, `Crash` |
| `ProcessSupervisor` | scripts/supervisor.py `run()` | `pc` is the place in `run()`; the child, the count, the back-off and the hour of the week. One action per place, and `RequestStop`, `ChildExits`, `HourPasses` |
| `Research`, `MCResearch` | research/pipeline | `at` gives each book's agent its place; its checkpoint `cp`, the counter, specs, trial log and notes are the disk. One action per await or save of `run_book_agent`, five for a backtest and its row in the trial log (they run in threads), `Launch`, `AgentsDone`, `Coordinate`, `CoordinatorOnly`, `Crash` |
| `Backtest` | backtest/engine.py with the breakers of risk/manager.py | `bar` and `state` (equity, peak, start of day, position, closed trades) of the fold under way. `Load`, `NextFold`, `ProcessBar` (one pass of the loop: day, exits, breakers, entry, peak), `EndFold`, `Finish`. `Folds` is the purged split as a function |

`PaperBroker` is shown to implement `Book` (`ImplementsBook`, with the positions a crash
would leave as the refinement mapping), and `BotLoop` is written against `Book`.
Definitions whose comment begins with "Mutant:" are faulty variants of the definition
that follows; no specification uses them. They show that a property can fail. Where one
module of proofs extends two models, one of the two has names of its own for what every
module has: `StoreInit`, `StoreNext`, `StoreSpec` in `BarStore`, `SupervisorInit` and so
on, with `SupervisorTypeOK`, in `ProcessSupervisor`.

How the parts meet: `BotLoop` and `LivePath` share the bridge client's calls, `LivePath` and
`BarStore` the queue entry by which history is asked for (an order may evict it; `BarStore`
lets any of its chunks fail to arrive), `Autoresearch` is what `Promotion` runs per combo
(there only its outcomes), and what `Promotion` leaves in `base` is the file that
`Autoresearch`'s `Boot` loads. `Backtest` prints what `Autoresearch` and `Research` read.

### Abstractions

In `PaperBroker` the state file and the journal may each become unreadable while the bot is
down. A journal that parses but has lost rows, and a state file that somebody deletes, are
left out. `blind` remembers a restart that found both unreadable.

Prices are a market that is or is not at a position's target and a trade that is a win
or a loss. Volumes count 0.01 lots; `HalfRounded` allows either neighbour where the
binary value of `volume * 0.5` decides. Equity is one of a few values. `BotLoop` counts
time in ticks of the sleep, and `cooling_off_until` as ticks left of it. One symbol is
traded, the sole instrument the loop falls back to, so at most one order is placed in a
pass. In `LivePath` a command is a value per call, a result the index of an execution.
The EA answers one timer event at a time, so it holds one command.

In `Autoresearch` a backtest prints any of a few Sharpes or none, since the bars it runs
on change; a guard run is whether it passes and its true win rate, and `ReadWinRate` is
what the search reads of it. All parameters share one range and one step. The strategy
main() trades with is what `file` holds at `Boot` and `Reload`. The deflated Sharpe is
reported and never decided on. The search is modelled as enabled; `config.yaml` ships
with it off.

In `BarStore` a bar is its period and whether it is made up. A file being written cannot
be read; two who write the same open file leave the last one's rows or rubbish. The clock
of the model moves freely, so a "period" stands for any stretch without a new bar. The
paginated form of GET /history is left out: the padded answer is never short, so the
client's second page is never asked for against this bridge. Of two bars of one time the
file's sort keeps the first and the merge of a batch the last.

In `Promotion` parameters are the combo they were searched for and the score measured of
them; `MAX_CRASHES` deaths fall anywhere, SQL statements are atomic, and the snapshot a
rollback looks for may be missing. In `Regressions` uncommitted changes are of three kinds:
the people's to files git tracks, their files it does not track, which `git stash` leaves
where they are, and what the agent wrote. Whether two changes touch the same file is open,
and branches are left out. What people had staged may be committed with the patch when the
stash failed. People change the tree between iterations only. Time passes between any two
steps, and each attempt to post an alert is a step that arrives or not and is seen to
succeed or not; the seconds between attempts are an interval or none. In
`ProcessSupervisor` an uptime is beyond the reset limit or not, at any time.

In `Research` a strategy is a name and a number of parameters, which are what
`_dedup_candidates` compares; a chunk holds one strategy or none, of a new name or of one
found before; one orchestrator runs at a time. A saved strategy always reads back: that a
resume drops those that no longer validate (book_agent.py:359-363) can happen only when the
schema has changed between the runs. Saving the end of extract is one step, although a book
with nothing found saves twice. The code's ten slots are as many as its books, so all run at
once, threads of backtests included.

In `Backtest` prices are pips and a pip of one lot step is one unit of money; thresholds
are percents, there is no commission (the default), and `size_position` and the strategy
are any size and any signal. The regime filter, statistics and the meta labeller are left
out.

## Runs

| run | question | bounds |
|---|---|---|
| `paper_broker` | are tickets unique, closes final, positions safe, with two threads, kills and damaged files (up to the restart that finds both damaged)? is it a Book for one thread? | `threads` is any non-empty set of two callers; tickets 10 to 11, so several restarts reuse or collide if they can; three journal rows, enough for open, partial and close or two opens around a restart; orders of 0.03 lots |
| `bot_loop` | pauses, targets, management | two orders and a streak of two losses: one ticket can be retried after an error or both can lose; a pause of two ticks, so that the gate is found closed once and a resume can fall into it; equities 80 and 100 with a halt at 20 % |
| `live_path` | conservation, order, single reading, progress | two orders with up to two attempts each and one history request over a queue of two places, so it overflows; the code has three attempts and ten places |
| `bar_store` | is the newest bar kept, does a sealed bar reach the file? | a buffer of two bars while three are wanted, so it is padded and it drops; chunks of two, so a request takes two posts; four periods; one call of a script and one death |
| `bar_store_made_up` | does a made-up bar get into the file? (violation) | as above |
| `autoresearch` | is what trading loads what a search accepted? is the baseline the right one? does every search end? | two parameters for one strategy, one for the other, shared; two values each, so that all are soon visited and the search starts over (a larger step happens from the empty file a crash leaves); three iterations and two keeps in a row for convergence (the code: five and three), so that a search can converge early, after a rollback or not at all; any number of searches and restarts |
| `promotion` | is each combo searched once, and promoted on its own score? | three combos, so a resume can leave one or two; two iterations, so a promotion can be followed by a rollback; two deaths, so a resumed iteration can be resumed |
| `regressions` | one event each, limits, alerts, people's changes | two interchangeable regressions over a budget and a slot of one, so both run out; one cause that is not about a regression; days and a cooldown of two intervals and three points in time, so midnight falls between any two steps, that of count and launch included, and a cause is alerted again; two attempts per alert (the code: three), so one can arrive twice; one death |
| `regressions_restore` | does a failed patch leave the tree as it was? (violation) | as `regressions` |
| `process_supervisor` | is the child owned, does a stop end it, does the bot come back? | four restarts with delays 2, 4, 6 (the cap); every hour of the week. The default, no limit, is not run, since the count of restarts has then no bound; the theorems about the supervisor include it |
| `research` | are answers kept, and numbers and notes right, after kills, errors and dry runs? does a run end? | two books with two chunks and one, both at once; the first can find one name twice, with one parameter or two, in one run or over two; two runs, one of them killed |
| `backtest` | do breakers bite, and are folds purged? | series of 2 and 11 bars: two folds of five and six, one cut, and one too short; prices of three values, so gaps, stops, targets and bars that reach both occur; an equity of 20 on which two losses or one large one trip each breaker; the split for every length up to 24, four folds and embargo 3 |

Deadlock is checked in `paper_broker`, `bot_loop` and `autoresearch`, which can always be
killed and started again; in the others calls, crashes, runs or bars are used up.

Every property of a passing run has a mutant in `PROJECT.json`.

### What the violations say

- `NeverMadeUp` (core/data/history.py:157-161): the bridge pads a short answer with made-up
  bars and calls it `live+synthetic`; the fetcher treats everything that is not `synthetic`
  as real and saves it, although its comment says it never persists such bars.
- `FailureRestoresTree` (supervisor/patch_agent.py:343): "On failure: restore working tree
  and delete branch"; the edits are staged, and checkout and stash pop leave them there.

### Observations without a run of their own

Seen while reading and modelling:

- When the state file is unreadable and the journal cannot be parsed either,
  `_reseed_ticket_seq_from_csv` (paper_broker.py:141-142) returns the first ticket, and
  tickets are issued again; bot/CHANGELOG.md:10 says the counter is reseeded from
  `max(ticket) + 1`. What is said of tickets and of the journal holds up to there (`blind`).
- The journal row of a close is written after the state is saved
  (paper_broker.py:247-249): a kill in between leaves the trade open in `trades.csv`.
- The cooling-off gate skips position management, which main.py:325 says runs regardless
  of the breakers; and a process that stays up halts again after its pause, the streak
  being still the end of its list of closed trades (`TargetsManaged` and `PauseHonoured`
  are stated accordingly).
- A POST is retried after time-outs too, so one order can be queued three times
  (`Conserved` counts attempts, not calls).
- The guard line shows the win rate only when it is what failed; otherwise it reads as 0,
  and with such a baseline a candidate is kept whatever its win rate.
- A search that dies leaves its candidate, or the other strategy, in params.yaml and
  main() trades with it, so `AcceptedIsLoaded` is stated for searches that ran to their
  end; with a negative Sharpe the 10% margin of a switch (autoresearch/loop.py:483) lowers
  the bar; and when all values are visited `ProposeAgain` may judge a candidate that
  changes nothing.
- A flush compares its rows with the file before it writes; the three writers of the
  temporary file use one name. With a second writer rows can be lost and a rename can
  raise, so `SealedReachesDisk` is stated for a flush nobody interferes with.
- A resumed sweep has results for the remaining combos only, and phase 3 pairs them with
  the first combos: `FirstPromotionEarned` is false after a resume. It is stated for the
  first promotion of a combo, since a combo promoted before is searched once more for the
  rollback, and the gate then promotes what that search left on the score of the sweep's.
- When `git stash` fails, the `return` in the agent's `finally` replaces its result, and
  the supervisor ends with a TypeError. Events written in a dry run block later real ones
  of the same kind. A death between `patching` and the agent's end leaves an event that
  nothing takes up again.
- An attempt is counted before midnight and the agent launched after it: that day may see
  one launch more than the limit (`WithinBudget` says so). `_post_ntfy` posts again when
  only the answer was lost, so one alert may arrive up to three times (`AlertsSpaced`).
- `git stash` is called without `-u`: files git does not track stay, and an answer that
  names one writes over it, whether the stash succeeded or not (`OwnKept` excepts them).
- Of two strategies of one name, `_dedup_candidates` keeps the one with more parameters: an
  answer of an earlier chunk can give way to one of a later (`AnswersKept`).
- In the process supervisor the first restart already waits 60 s (the count is raised
  first), `max_restarts` of N means N spawns, and its default command has no `--resume`.
- A dry run of the research pipeline completes the books it passes, so a later real run
  skips them. `_ensure_trial_log_header`, said to be safe concurrently, can replace a log
  that has rows or end an agent with FileNotFoundError. A resumed agent pairs its strategies
  with the results of the remaining tests, so `AdrOfOwnStrategy` excepts books that left a
  run between two tests.
- In the engine a breaker that trips without a position never clears (`HaltIsFinal`
  states that); the peak may be marked with a position entered at the next bar's open; a
  stop is filled at its price although the bar opened beyond it; with `--cv` too few bars
  end with code 0 or 1, where the module's documentation says 2; the train sets are
  computed and not used; and the cached file may hold the made-up bars of the first item.

### Fairness

`BotLoop`: weak fairness of the pass while the process runs. The loop is one thread,
every call in it has a time-out, and its sleep is one second. Nothing is assumed of
starts, stops, kills or the market. `LivePath`: weak fairness of the EA (its timer polls
the bridge) and of the client's time-out; loss is unrestricted, and a loss is what
`AcceptedIsHandled` allows. `BarStore`: weak fairness of the flush thread and of a handler
once entered. `Autoresearch`: weak fairness of the search and of the loop's
look at its thread; backtests have a time-out. Nothing is assumed of the cooldown.
`ProcessSupervisor`: weak fairness of the main thread and of time, and strong fairness of
the market gate, which polls every minute a market that is open for days. `Research`: weak
fairness of each agent and of the orchestrator: engines are stopped after 600 seconds and
the retries of a request are counted. `Promotion`, `Regressions` and `Backtest` have
action properties and invariants, which need none.
`PaperBroker` has no liveness: each call is a few steps.

## Proofs

Eight modules hold the theorems that TLAPS checks, and between them they prove every
invariant and every action property that a passing run checks: for any set of callers, books, combos, orders, causes and parameters, for any
value of the limits and delays, and for any value of the bounds. Each follows from an
inductive invariant, with one step of the proof per action. `PROJECT.json` lists the
theorems with the property of a run each states.

| module | proved | the inductive invariant and why the property needs it |
|---|---|---|
| `PaperBrokerProofs` | `TypeOK`, `TicketsFresh`, `UniqueOpenRows`, `ClosedForGood`, `NoSilentLoss`, `ImplementsBook`, `VolumeConserved` | `IInv`: a call that has saved and not yet journalled has a row to come that must not collide, and a popped position is neither in memory nor closed, so it says who holds a popped ticket (one caller), that pending open rows are unique and pending closes exclude the position everywhere, and (`Bookkeeping`) that the file carries the counter in use. For the refinement `LedgerInv`: with one thread, memory and file agree but for the call under way, and what a partial close computed still fits the position it read. For the volumes `Balanced`: what the journal shows closed of a ticket, what a call has still to journal and what the file holds together are no more than the volume of the row that opened it |
| `BotLoopProofs` | `TypeOK`, `TargetTakenOnce`, `TakenIsProtected`, `TargetsManaged`, `PauseHonoured`; of the process supervisor `ChildIsOwned`, `SupervisorTypeOK`, one child at a time, the restart limit | `LoopInv`: what was taken is remembered or being taken, and these are apart from what the pass has still to manage; in a pass without trouble every position at its target is one of the three; a pause that nothing forgot is the loop's, or the newest checkpoint's while it is down, and no pass is beyond the gate in it. `ChildOfPc`: what the child can be at each place of `run()`; `Counted`: the count stays below the limit while `run()` goes on |
| `LivePathProofs` | `Conserved`, `AcceptedInOrder` | `CopiesInv`: the copies queued, with the EA, executed and lost add up to those that arrived, and these are bounded by the attempts; `OrderInv`: calls are made one after another, so when the later order is called the earlier one's copies are ahead of it in queue, EA and executions taken as one line. The steps rest on lemmas about the copies in a sequence that is appended to, or loses its head |
| `AutoresearchProofs` | `AcceptedIsLoaded`, `BaselineIsTheirs`, `NothingTriedTwice` | `SearchInv`: between candidates the file holds the accepted parameters, the baseline is theirs, and what was tried is the visited set in memory or, before it is loaded, in its file. That a proposal is new where there is something new rests on lemmas by which the near and far moves reach every value of a range, wrapped around at its end |
| `PromotionProofs` | `OneRunPerCombo`, `FirstPromotionEarned` | `SweepInv`: `last_combo_index` bounds the combos the iteration has rows of, strictly while one is searched or about to be recorded, and the sweep is always beyond it. For the promotion `Undisturbed`: without a death the results in memory stand at their combos' places, and the file of a combo never promoted still holds what its search measured |
| `RegressionsProofs` | `OneOpenEvent`, `WithinBudget`, `WithinSlots`, `AlertsSpaced`, `OwnKept` | `EventsInv` (a row that is watched or waits for its update is still patching and waits once, so no update takes a merged row back), `BudgetInv` (a day's launches are its attempts or one more, and one more only when an earlier day has an attempt to spare; none is counted for a day to come), `SlotsInv` (the count of slots is that of pull requests watched), `AlertsInv` (what arrived of one row lies within one call's posts, and rows of a cause are a cooldown apart). `TreeInv` (tree and stash hold nothing but the three kinds of changes) |
| `HistoryProofs` | `BarStore`: `TypeOK`, `NewestKept`, the file is in order of time; `Backtest`: `FoldsPurged` for every cut, `HaltIsFinal`, `DailyLossStops` | `StoreInv`: nothing in the buffer, in a chunk or in a file is of the future, what is about to be written is sorted, and (`Newest`) the newest period seen is that of the last bar, or of the bar before it, and then the bar under way is as new: `_accumulate_bar` may seal one older bar behind a batch, but not a second. `SimInv`: equity is the start and all profits, the start of the day is the start and those of earlier days, and no trade is of a day to come |
| `ResearchProofs` | `AnswersKept`, `SpecIdsUnique`, `AdrOfOwnStrategy` | `ResearchInv`: the counter is past every number in use; answers are counted and none is asked for when all have been, and what each found is kept or outdone in the checkpoint; a checkpoint past phase spec names one spec file per strategy; saved results are those of the first specs in order, the one under test next, and those of the run are all of them but in books torn between two backtests |

`TypesKept` (the type invariant of `BotLoop`), `OneChildAtATime`, `RestartsLimited`,
`EveryCutPurged` and `FileInOrder` state properties that no run repeats.

Where a sum, a sort or a split is over data of any size, the proof takes a smallest
counterexample instead of an induction: `WFMin` on the strict subsets of a finite set, or
on the naturals, gives a least set or number of which the claim is false, and one step
below it the claim is true. The power in the back-off and the sum of a backtest's trades
are therefore recursive functions, the sum over `PaperBroker`'s journal is the community
modules' fold, which is one, and sorting
(`InOrder`) by ranks: a row's place is the number of rows up to it, which is a bijection of
the rows kept to their places, so what comes out has the same times, in order.

The assumptions used are those the modules name (`ConstantsAssumption`, `LoopConstants`,
...), which TLC evaluates in the runs: types of limits and delays; that the callers of a
process and the regressions a scan can find are finitely many; that a range of parameters
is not empty and starts inside its limits; that no trade is a history request; that the
drawdown limits are in order; and that the buffer of bars has room for two (the code's
smallest `_TF_MAX_BARS` is 500; with room for one, the older bar sealed behind a batch
would push out the newest). Nothing is assumed of steps. `NothingTriedTwice`,
`AdrOfOwnStrategy`, `FirstPromotionEarned`, `OwnKept`, `WithinBudget` and `PauseHonoured`
keep the exceptions their statements name (all values visited, a book torn between tests, a
resumed iteration, a failed stash or an untracked file, a launch counted the day before, a
kill, a failed save or a start without `--resume`). `TicketsFresh` for journalled tickets,
`UniqueOpenRows`, `ClosedForGood` and `VolumeConserved` end with a restart that finds state
file and journal damaged (`~blind`), and `VolumeConserved` is about a process with one
thread. These are behaviours of the code, described under the observations or in the module.

Model-checked only, and why:

- `PauseEnds`, `AcceptedIsHandled`, `SealedReachesDisk`, `SearchIsReloaded`, `StopEnds`,
  `ComesBack` and `RunEnds` are liveness under fairness, out of reach of these provers, as
  is anything about ENABLED.
- `NeverMadeUp` and `FailureRestoresTree` are false; their runs show how.

## Plan

1. Done: all modules above and the proofs listed.
2. Next: what holds of a sweep that was resumed, in place of the exception in
   `FirstPromotionEarned`; at most one pause per streak of losses.
3. After that, if wanted: the pairs loop of the engine, the diffs of the position monitor,
   `Promotion` and `Regressions` in one state space.

## Not modelled

Indicators, sizing formulas, statistics and prices are arithmetic on floats without control;
strategies, filters and regimes are pure functions of bars and stand as "any signal".
The dashboard, review scripts and knowledge base only read and render files. The position
monitor's diffs and alerts observe the broker and change nothing else. The engine's pairs
loop repeats the single-symbol loop for two legs. The health thread of the process
supervisor writes a file for people; the pid file of the meta-loop and SIGUSR1 guard against
a second start and ask for an alert, and are left out. A failing file system (a save that
raises) is left out of `PaperBroker`. The live mode of the loop is `LivePath` up to the
answer of `send_order`. Ranking page, novel combinations, prefetch and the mapping to
templates of the research pipeline are output or wording.
