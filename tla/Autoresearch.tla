---------------------------- MODULE Autoresearch ----------------------------
(***************************************************************************)
(* bot/autoresearch/loop.py: the parameter search, run in a daemon thread  *)
(* of the trading loop (bot/main.py), which trades with the parameters the *)
(* last search left in params.yaml.                                        *)
(*                                                                         *)
(* A search scores the strategy in use and the other one, then changes one *)
(* parameter per iteration, backtests, and keeps or rolls back.  Every     *)
(* candidate is written to the very file that trading is loaded from.      *)
(*                                                                         *)
(* Backtests answer anything: the bars they run on change with time.  All  *)
(* parameters have one range, LO .. HI, and step 1; one symbol is scored.  *)
(***************************************************************************)
EXTENDS Integers, Sequences, Functions

CONSTANTS
  EMA, MR,      \* _PARAMS_EMA, _PARAMS_MR: sequences of parameter names
  LO, HI,       \* the range of every parameter
  START,        \* the value of every parameter at first
  Sharpes,      \* Sharpe ratios a backtest prints, in tenths
  TARGET,       \* the 1.5 of the convergence rule, in tenths
  WinRates,     \* win rates of a guard run, in percent
  MIN_WR,       \* the guard's min_win_rate
  CONVERGE,     \* the 3 keeps in a row of the convergence rule
  MAX_ITER      \* iterations_per_run

ASSUME SearchConstants ==
  /\ \A names \in {EMA, MR} : names \in Seq(Range(names)) /\ names # << >>
  /\ {LO, HI, START} \subseteq Nat \ {0} /\ START \in LO .. HI
  /\ Sharpes \subseteq Int /\ TARGET \in Int
  /\ WinRates \subseteq 1 .. 100 /\ MIN_WR \in Nat
  /\ {CONVERGE, MAX_ITER} \subseteq Nat \ {0}

VARIABLES
  at,            \* where the thread stands; "ended" is dead, "idle" is None, "down" no process
  file,          \* params.yaml
  params,        \* run(): the parameters accepted so far
  trial,         \* run(): new_params, the candidate being judged
  baseline,      \* run(): baseline, or current_sharpe in phase_compare_strategies
  guard,         \* the guard run that baseline_wr comes from
  keeps,         \* run(): consecutive_keeps
  converged,     \* run(): last_decision is "converged"
  rows,          \* results.tsv: the decisions this search has logged
  visited,       \* _visited
  cursor,        \* _param_cursor
  visitedFile,   \* visited.json
  scored,        \* history: the parameters that baseline is the score of
  tried,         \* history: values tried since the last start over
  died           \* history: the last search raised, or none has ended

locals == <<trial, baseline, guard, keeps, converged, rows, scored>>
search == <<params, locals>>
memory == <<visited, cursor, tried>>
vars == <<at, file, search, memory, visitedFile, died>>

-----------------------------------------------------------------------------
Names == Range(EMA) \cup Range(MR)

\* What an empty params.yaml reads as.
Emptied == [strategy |-> "ema_crossover", vals |-> [n \in Names |-> 0]]

\* _strategy_params: the parameters searched.
Space(p) == IF p.strategy = "mean_reversion" THEN MR ELSE EMA

Challenger(p) ==
  [p EXCEPT !.strategy = IF @ = "ema_crossover" THEN "mean_reversion" ELSE "ema_crossover"]

\* No SHARPE line in the output: float("-inf").
NoSharpe == -1000
Scores == Sharpes \cup {NoSharpe}

\* challenger_sharpe > current_sharpe * 1.10
Beats(challenger, current) ==
  challenger # NoSharpe /\ (current = NoSharpe \/ challenger * 10 > current * 11)

\* What a guard run finds; it passes only if, among others, the win rate is
\* above the minimum.
Guards == {g \in [pass: BOOLEAN, wr: WinRates] : g.pass => g.wr > MIN_WR}

\* The win rate phase_guard reads from the output: a GUARD FAIL line lists only
\* what failed, and a missing win rate counts as 0.
ReadWinRate(g) == IF g.pass \/ g.wr <= MIN_WR THEN g.wr ELSE 0

Clamp(v) == IF v < LO THEN LO ELSE IF v > HI THEN HI ELSE v

Move(p, name, delta) == [param |-> name, new |-> Clamp(p.vals[name] + delta)]

\* One step up and one down, for every parameter from the cursor on.
Near(p) ==
  LET n == Len(Space(p))
  IN [k \in 1 .. 2 * n |->
        Move(p, Space(p)[((cursor + (k - 1) \div 2) % n) + 1], IF k % 2 = 1 THEN 1 ELSE -1)]

\* Two, three and five steps, up and down.
Far(p) ==
  [k \in 1 .. 6 * Len(Space(p)) |->
     Move(p, Space(p)[(k - 1) \div 6 + 1], <<2, -2, 3, -3, 5, -5>>[((k - 1) % 6) + 1])]

Fresh(move) ==
  move.new # params.vals[move.param] /\ <<move.param, move.new>> \notin visited

-----------------------------------------------------------------------------
\* The locals of run() but params: gone when it returns, raises or dies.
NoLocals ==
  /\ trial' = Emptied /\ scored' = Emptied
  /\ baseline' = NoSharpe
  /\ guard' = CHOOSE g \in Guards : TRUE
  /\ keeps' = 0 /\ converged' = FALSE /\ rows' = << >>

Init ==
  /\ at = "down"
  /\ file \in [strategy: {"ema_crossover", "mean_reversion"}, vals: {[n \in Names |-> START]}]
  /\ params = Emptied /\ trial = Emptied /\ scored = Emptied
  /\ baseline = NoSharpe
  /\ guard = CHOOSE g \in Guards : TRUE
  /\ keeps = 0 /\ converged = FALSE /\ rows = << >>
  /\ visited = {} /\ cursor = 0 /\ tried = {}
  /\ visitedFile = {}
  /\ died = TRUE

\* main() loads its strategy and starts a search at once.
Boot ==
  /\ at = "down"
  /\ visited' = visitedFile /\ cursor' = 0
  /\ at' = "review"
  /\ UNCHANGED <<file, search, visitedFile, tried, died>>

\* Phase review, and the file written back as it was read.
Review ==
  /\ at = "review"
  /\ params' = file
  /\ keeps' = 0 /\ rows' = << >>
  /\ at' = "score"
  /\ UNCHANGED <<file, trial, baseline, guard, converged, scored, memory, visitedFile, died>>

\* The strategy in use is scored, and the other one written to the file.
ScoreCurrent(sharpe) ==
  /\ at = "score"
  /\ baseline' = sharpe /\ scored' = params
  /\ file' = Challenger(params)
  /\ at' = "challenge"
  /\ UNCHANGED <<params, trial, guard, keeps, converged, rows, memory, visitedFile, died>>

\* The challenger stays if it beats the current strategy by more than 10%.
ScoreChallenger(sharpe) ==
  /\ at = "challenge"
  /\ params' = IF Beats(sharpe, baseline) THEN file ELSE params
  /\ file' = params'
  /\ at' = "baseline"
  /\ UNCHANGED <<trial, baseline, guard, keeps, converged, rows, scored, memory, visitedFile, died>>

\* Mutant: the score of the comparison serves as the baseline.
BaselineReused(sharpe, g) ==
  /\ at = "baseline"
  /\ guard' = g
  /\ at' = "ideate"
  /\ UNCHANGED <<file, params, trial, baseline, keeps, converged, rows, scored>>
  /\ UNCHANGED <<memory, visitedFile, died>>

\* Baseline score and guard of the strategy chosen.
Baseline(sharpe, g) ==
  /\ at = "baseline"
  /\ baseline' = sharpe /\ scored' = file
  /\ guard' = g
  /\ at' = "ideate"
  /\ UNCHANGED <<file, params, trial, keeps, converged, rows, memory, visitedFile, died>>

\* Phase modify of a move: the candidate goes to the file.
Try(move, seen, seenEver) ==
  /\ visited' = seen \cup {<<move.param, move.new>>}
  /\ tried' = seenEver \cup {<<move.param, move.new>>}
  /\ trial' = [params EXCEPT !.vals[move.param] = move.new]
  /\ file' = trial'
  /\ at' = "judge"
  /\ UNCHANGED <<params, baseline, guard, keeps, converged, rows, scored, visitedFile, died>>

\* The index of the first fresh move, if there is one.
FirstFresh(moves) ==
  {k \in DOMAIN moves : Fresh(moves[k]) /\ \A j \in 1 .. k - 1 : ~Fresh(moves[j])}

\* Phase ideate: the first fresh value one step away.
ProposeNear ==
  /\ at = "ideate"
  /\ \E k \in FirstFresh(Near(params)) :
       /\ cursor' = (cursor + (k - 1) \div 2 + 1) % Len(Space(params))
       /\ Try(Near(params)[k], visited, tried)

\* Phase ideate: none is left nearby, a larger step.
ProposeFar ==
  /\ at = "ideate"
  /\ FirstFresh(Near(params)) = {}
  /\ \E k \in FirstFresh(Far(params)) : Try(Far(params)[k], visited, tried)
  /\ UNCHANGED cursor

\* Phase ideate: everything was tried, start over with the first parameter.
ProposeAgain ==
  /\ at = "ideate"
  /\ FirstFresh(Near(params)) = {} /\ FirstFresh(Far(params)) = {}
  /\ Try(Move(params, Space(params)[1], 1), {}, {})
  /\ UNCHANGED cursor

\* Phase decide.
Keep(sharpe, g) ==
  g.pass \/ (sharpe > baseline /\ ReadWinRate(g) >= ReadWinRate(guard))

\* The search is over: three keeps in a row, the last of them good, or no
\* iteration left.
AfterDecision(good) ==
  /\ converged' = (good /\ keeps' >= CONVERGE)
  /\ at' = IF converged' \/ Len(rows') = MAX_ITER THEN "finish" ELSE "ideate"

\* Verify, guard, decide and log: the candidate is kept.
JudgeKeep(sharpe, g) ==
  /\ at = "judge"
  /\ Keep(sharpe, g)
  /\ params' = trial
  /\ baseline' = sharpe /\ scored' = file
  /\ guard' = g
  /\ keeps' = keeps + 1 /\ rows' = Append(rows, "keep")
  /\ AfterDecision(g.pass /\ sharpe > TARGET)
  /\ UNCHANGED <<file, trial, memory, visitedFile, died>>

\* Mutant: only the row is written, not the file.
RollbackUnsaved(sharpe, g) ==
  /\ at = "judge"
  /\ ~Keep(sharpe, g)
  /\ keeps' = 0 /\ rows' = Append(rows, "rollback")
  /\ AfterDecision(FALSE)
  /\ UNCHANGED <<file, params, trial, baseline, guard, scored, memory, visitedFile, died>>

\* Mutant: only iterations that are kept count.
RollbackUncounted(sharpe, g) ==
  /\ at = "judge"
  /\ ~Keep(sharpe, g)
  /\ file' = params
  /\ keeps' = 0
  /\ at' = "ideate"
  /\ UNCHANGED <<params, trial, baseline, guard, converged, rows, scored, memory, visitedFile, died>>

\* Verify, guard, decide and log: the candidate is rolled back (and forgotten).
JudgeRollback(sharpe, g) ==
  /\ at = "judge"
  /\ ~Keep(sharpe, g)
  /\ file' = params
  /\ keeps' = 0 /\ rows' = Append(rows, "rollback")
  /\ AfterDecision(FALSE)
  /\ trial' = params
  /\ UNCHANGED <<params, baseline, guard, scored, memory, visitedFile, died>>

\* Mutant: the visited values stay in memory.
FinishUnsaved ==
  /\ at = "finish"
  /\ at' = "ended"
  /\ died' = FALSE
  /\ NoLocals
  /\ UNCHANGED <<file, params, memory, visitedFile>>

\* run() returns.
Finish ==
  /\ at = "finish"
  /\ visitedFile' = visited
  /\ at' = "ended"
  /\ died' = FALSE
  /\ NoLocals
  /\ UNCHANGED <<file, params, memory>>

\* A backtest exceeds its 120 seconds: nothing catches the exception, and the
\* thread ends with the file as it is.
Abort ==
  /\ at \in {"score", "challenge", "baseline", "judge"}
  /\ at' = "ended"
  /\ died' = TRUE
  /\ NoLocals
  /\ UNCHANGED <<file, params, memory, visitedFile>>

\* main() finds the thread dead and rebuilds its strategy from the file.
Reload ==
  /\ at = "ended"
  /\ at' = "idle"
  /\ UNCHANGED <<file, search, memory, visitedFile, died>>

\* The cooldown is over: the next search, by the same object.
StartSearch ==
  /\ at = "idle"
  /\ at' = "review"
  /\ UNCHANGED <<file, search, memory, visitedFile, died>>

\* The process ends, its daemon thread with it; a file being written is empty.
Crash ==
  /\ at # "down"
  /\ file' \in {file} \cup
       IF at \in {"review", "score", "challenge", "ideate", "judge"} THEN {Emptied} ELSE {}
  /\ visitedFile' \in {visitedFile} \cup IF at = "finish" THEN {{}} ELSE {}
  /\ tried' = IF at \in {"ended", "idle"} /\ ~died THEN tried ELSE visitedFile'
  /\ params' = Emptied /\ NoLocals
  /\ visited' = {} /\ cursor' = 0
  /\ at' = "down"
  /\ died' = TRUE

Search ==
  \/ Review
  \/ \E s \in Scores : ScoreCurrent(s) \/ ScoreChallenger(s)
  \/ \E s \in Scores, g \in Guards : Baseline(s, g) \/ JudgeKeep(s, g) \/ JudgeRollback(s, g)
  \/ ProposeNear \/ ProposeFar \/ ProposeAgain
  \/ Finish \/ Abort

Next == Boot \/ Search \/ Reload \/ StartSearch \/ Crash

Spec == Init /\ [][Next]_vars

\* The thread is scheduled, its backtests have a timeout, and the trading loop
\* comes by.
FairSpec == Spec /\ WF_vars(Search \/ Reload)

-----------------------------------------------------------------------------
\* "either keeps or rolls back" (loop.py:6): what the trading loop loads after a
\* search that ran to its end are the parameters that search accepted last,
\* whatever was written to the file on the way.
AcceptedIsLoaded == at = "ended" /\ ~died => file = params

\* A candidate is compared with the score of the very parameters it would
\* replace, across a switch of strategy and any row of keeps and rollbacks.
BaselineIsTheirs == at \in {"ideate", "judge", "finish"} => scored = params

\* What a search can reach from p in one iteration.
Reach(p) ==
  {<<n, Clamp(p.vals[n] + d)>> : n \in Range(Space(p)), d \in {-5, -3, -2, -1, 1, 2, 3, 5}}

\* A value that was tried is tried again only when all within reach have been,
\* also after a restart; of a search cut short only what visited.json has counts.
NothingTriedTwice ==
  [][at = "ideate" /\ at' = "judge" =>
       \A n \in {x \in Names : trial'.vals[x] # params.vals[x]} :
         <<n, trial'.vals[n]>> \in tried =>
           \A m \in Reach(params) : m \in tried \/ params.vals[m[1]] = m[2]]_vars

\* Every search ends, and the trading loop takes up its result.
SearchIsReloaded == at = "review" ~> at \in {"idle", "down"}

=============================================================================
