------------------------------ MODULE Backtest ------------------------------
(***************************************************************************)
(* backtest/engine.py: the bars are loaded and cut into folds (_run_cv) or *)
(* to their tail, each of which is simulated afresh, bar by bar, with the  *)
(* strategy's signals, the costs and the risk manager of the live bot      *)
(* (_run_event_loop); the exit code tells the outcome.                     *)
(*                                                                         *)
(* Prices are pips, volumes lot steps, a pip of one lot step is one unit   *)
(* of money and thresholds are percents.  The strategy and its filters are *)
(* any signal, size_position any size: the size it computes from the ATR,  *)
(* the equity and the Kelly fraction is left out, as are the statistics.   *)
(***************************************************************************)
EXTENDS Integers, Sequences, FiniteSets

CONSTANTS
  LENGTHS, BARS,             \* lengths a series may have; --bars
  SPLITS, EMBARGO, TRAIN,    \* --cv kfold:SPLITS, --embargo, --wf-train-pct as a percent
  MIN_CACHE, MIN_FOLD, MIN_TRADES,  \* 100, 50, --min-trades
  WARMUP,                    \* bars the strategy needs
  START,                     \* backtest.starting_equity
  SPREAD, SLIPPAGE,          \* spread_pips, an even number, and slippage_pips; no commission, as by default
  PRICES, DISTANCES, SIZES,  \* what bars, stops and lot sizes are drawn from
  WARN, REDUCE, HALT,        \* trailing_dd_*
  LOSSES, DAILY              \* consecutive_loss_halt, daily_loss_limit

ASSUME BacktestConstants ==
  /\ {BARS, SPLITS, EMBARGO, TRAIN, MIN_CACHE, MIN_FOLD, MIN_TRADES, WARMUP} \subseteq Nat
  /\ LENGTHS \subseteq Nat
  /\ {START, LOSSES, DAILY, WARN, REDUCE, HALT} \subseteq Nat \ {0}
  /\ WARN =< REDUCE /\ REDUCE =< HALT
  /\ {SPREAD, SLIPPAGE} \subseteq Nat
  /\ PRICES \subseteq Nat /\ {DISTANCES, SIZES} \subseteq SUBSET (Nat \ {0})

-----------------------------------------------------------------------------
(* _purged_kfold_indexes: folds [train, test] of n bars numbered from 0 *)

Larger(x, y) == IF x > y THEN x ELSE y
Smaller(x, y) == IF x < y THEN x ELSE y

\* Too few bars for the folds: the last part is the test of a single one.
SingleFold(n, splits, embargo) ==
  LET parts == Larger(splits, 2)
      cutoff == (n * (parts - 1)) \div parts
  IN [train |-> 0..(Larger(0, cutoff - embargo) - 1), test |-> cutoff..(n - 1)]

\* Mutant: the embargo is kept on one side of the test block only.
FoldOneSided(n, splits, embargo, k) ==
  LET size == n \div splits
      from == (k - 1) * size
      to == IF k < splits THEN k * size ELSE n
  IN [train |-> (0..(Larger(0, from - embargo) - 1)) \cup (to..(n - 1)),
      test |-> from..(to - 1)]

Fold(n, splits, embargo, k) ==
  LET size == n \div splits
      from == (k - 1) * size
      to == IF k < splits THEN k * size ELSE n
  IN [train |-> (0..(Larger(0, from - embargo) - 1)) \cup (Smaller(n, to + embargo)..(n - 1)),
      test |-> from..(to - 1)]

Folds(n, splits, embargo) ==
  IF splits < 2 \/ n < splits * (embargo * 2 + 2)
  THEN <<SingleFold(n, splits, embargo)>>
  ELSE [k \in 1..splits |-> Fold(n, splits, embargo, k)]

\* _run_cv simulates the test blocks that are long enough, and no train set.
TestLengths(n) ==
  LET folds == Folds(n, SPLITS, EMBARGO) IN
  SelectSeq([k \in DOMAIN folds |-> Cardinality(folds[k].test)], LAMBDA len : len >= MIN_FOLD)

\* _apply_walk_forward: the bars after the train part.
AfterTraining(n) == n - (n * Smaller(TRAIN, 99)) \div 100

-----------------------------------------------------------------------------
VARIABLES
  at,        \* "load", "fold", "bar" or "done"
  cv,        \* --cv is given
  tests,     \* lengths of the series to simulate
  fold,      \* the one under way, of tests
  i, bar,    \* the bar under way: its index and [open, high, low, close, day]
  state,     \* _SimState: [equity, peak, day_start, last_day, pos, closed]
  trades,    \* trades of the folds so far
  exit       \* the exit code; -1 before

vars == <<at, cv, tests, fold, i, bar, state, trades, exit>>

NoPos == [side |-> "none"]
NoBar == [day |-> 0]
FreshState == [equity |-> START, peak |-> START, day_start |-> START, last_day |-> 0,
               pos |-> NoPos, closed |-> << >>]
BarsOf(day) ==
  {b \in [open: PRICES, high: PRICES, low: PRICES, close: PRICES, day: {day}] :
     b.low =< Smaller(b.open, b.close) /\ Larger(b.open, b.close) =< b.high}

Init ==
  /\ at = "load" /\ cv = FALSE /\ tests = << >> /\ fold = 0 /\ i = 0 /\ bar = NoBar
  /\ state = FreshState /\ trades = 0 /\ exit = -1

-----------------------------------------------------------------------------
(* main *)

\* _load_ohlcv_with_source: a long enough cache, what the bridge has, or a random
\* walk as long as asked for.
Loaded(source) ==
  CASE source = "cache" -> {n \in LENGTHS : n >= Larger(MIN_CACHE, BARS \div 2) /\ n =< BARS}
    [] source = "bridge" -> LENGTHS
    [] source = "synthetic" -> {BARS}

\* The series is refused, too short (no folds are too short) or cut.
Load(source, n, allow, with_cv) ==
  LET refused == source = "synthetic" /\ ~allow
      short == ~with_cv /\ AfterTraining(n) < MIN_FOLD
  IN
  /\ at = "load" /\ cv' = with_cv
  /\ IF refused \/ short
     THEN at' = "done" /\ exit' = 2 /\ UNCHANGED tests
     ELSE /\ tests' = IF with_cv THEN TestLengths(n) ELSE <<AfterTraining(n)>>
          /\ at' = "fold" /\ UNCHANGED exit
  /\ UNCHANGED <<fold, i, bar, state, trades>>

-----------------------------------------------------------------------------
(* Trade accounting *)

Gross(pos, price) == (IF pos.side = "BUY" THEN price - pos.entry ELSE pos.entry - price) * pos.volume
Costs(volume, is_stop) == (SPREAD + (IF is_stop THEN SLIPPAGE ELSE 0)) * volume

\* _close_position.
Closed(s, price, is_stop) ==
  LET profit == Gross(s.pos, price) - Costs(s.pos.volume, is_stop) IN
  [s EXCEPT !.equity = @ + profit, !.pos = NoPos,
            !.closed = Append(@, [profit |-> profit, day |-> bar.day])]

\* A bar that reaches the stop and the target counts as a stop; each is filled at
\* its own price, wherever the bar opened.
StopHit(pos) == IF pos.side = "BUY" THEN bar.low =< pos.sl ELSE bar.high >= pos.sl
TargetHit(pos) == IF pos.side = "BUY" THEN bar.high >= pos.tp ELSE bar.low =< pos.tp

Exits(s) ==
  IF s.pos = NoPos THEN s
  ELSE IF StopHit(s.pos) THEN Closed(s, s.pos.sl, TRUE)
  ELSE IF TargetHit(s.pos) THEN Closed(s, s.pos.tp, FALSE)
  ELSE s

\* A new day starts from the equity of the trades closed before it.
DayBoundary(s) ==
  IF s.last_day # bar.day THEN [s EXCEPT !.day_start = s.equity, !.last_day = bar.day] ELSE s

\* Mutant: the day's baseline is taken after the exits of its first bar.
SettledLate(s) == DayBoundary(Exits(s))
Settled(s) == Exits(DayBoundary(s))

-----------------------------------------------------------------------------
(* Risk manager *)

Drawdown(s, percent) == (s.peak - s.equity) * 100 >= percent * s.peak
LastLost(closed, n) ==
  Len(closed) >= n /\ \A j \in (Len(closed) - n + 1)..Len(closed) : closed[j].profit < 0
LostToday(s) ==
  s.day_start > 0 /\ (s.equity - s.day_start) * 100 =< -DAILY * s.day_start

\* Mutant: only the losses of the day count as a streak.
BreakersOkToday(s) ==
  /\ ~Drawdown(s, HALT)
  /\ ~LastLost(SelectSeq(s.closed, LAMBDA t : t.day = bar.day), LOSSES) /\ ~LostToday(s)

\* check_circuit_breakers on the equity of closed trades.
BreakersOk(s) == ~Drawdown(s, HALT) /\ ~LastLost(s.closed, LOSSES) /\ ~LostToday(s)

\* get_position_adjustment, in tenths, and the rounding to LOT_STEP, half to even.
Adjustment(s) ==
  CASE Drawdown(s, HALT) -> 0
    [] ~Drawdown(s, HALT) /\ Drawdown(s, REDUCE) -> 5
    [] ~Drawdown(s, REDUCE) /\ Drawdown(s, WARN) -> 7
    [] OTHER -> 10
Rounded(tenths) ==
  LET q == tenths \div 10 IN
  q + (IF tenths % 10 > 5 \/ (tenths % 10 = 5 /\ q % 2 = 1) THEN 1 ELSE 0)

\* What the strategy signals on bar, its stop and target that far from the close.
Signals ==
  {[action |-> a, sl |-> IF a = "BUY" THEN bar.close - d ELSE bar.close + d,
    tp |-> IF a = "BUY" THEN bar.close + e ELSE bar.close - e] :
     a \in {"BUY", "SELL"}, d \in DISTANCES, e \in DISTANCES}

\* The entry at the next bar's open, half the spread against it.
Entered(s, sig, size, open) ==
  LET volume == Rounded(size * Adjustment(s))
      half == SPREAD \div 2
  IN IF volume = 0 THEN s
     ELSE [s EXCEPT !.pos = [side |-> sig.action, sl |-> sig.sl, tp |-> sig.tp, volume |-> volume,
                             entry |-> IF sig.action = "BUY" THEN open + half ELSE open - half]]

\* The peak is marked to the close of the bar, for a position entered at the next
\* bar's open as well.
Marked(s) ==
  LET mtm == s.equity + (IF s.pos = NoPos THEN 0 ELSE Gross(s.pos, bar.close)) IN
  [s EXCEPT !.peak = Larger(@, mtm)]

-----------------------------------------------------------------------------
\* One pass of the loop, which needs the open of the bar after; an entry asks for
\* closed breakers, no position and a signal that the filters let through.
ProcessBar(next) ==
  LET s == Settled(state) IN
  /\ at = "bar" /\ i < tests[fold] - 1
  /\ \/ state' = Marked(s)
     \/ /\ BreakersOk(s) /\ s.pos = NoPos
        /\ \E sig \in Signals, size \in SIZES : state' = Marked(Entered(s, sig, size, next.open))
  /\ bar' = next /\ i' = i + 1
  /\ UNCHANGED <<at, cv, tests, fold, trades, exit>>

\* The last bar is only closed at; its high and low are not looked at.
EndFold ==
  LET s == IF state.pos = NoPos THEN state ELSE Closed(state, bar.close, FALSE) IN
  /\ at = "bar" /\ i >= tests[fold] - 1
  /\ at' = "fold" /\ trades' = trades + Len(s.closed)
  /\ state' = FreshState /\ i' = 0 /\ bar' = NoBar
  /\ UNCHANGED <<cv, tests, fold, exit>>

\* The bars before the first one are not replayed; a fold that is too short for the
\* strategy has no trades.
NextFold(first) ==
  /\ at = "fold" /\ fold < Len(tests)
  /\ fold' = fold + 1
  /\ IF tests[fold'] < WARMUP + 2 THEN UNCHANGED <<at, i, bar>>
     ELSE at' = "bar" /\ i' = WARMUP /\ bar' = first
  /\ UNCHANGED <<cv, tests, state, trades, exit>>

\* The guard passes or not on the mean of the folds; without folds or with too few
\* trades on average the Sharpe ratio is 0 and it fails.  Without --guard it is not
\* asked.
Finish(guard, passes) ==
  /\ at = "fold" /\ fold = Len(tests) /\ at' = "done"
  /\ passes => fold > 0 /\ ~(cv /\ MIN_TRADES > 0 /\ trades < MIN_TRADES * fold)
  /\ exit' = IF guard /\ ~passes THEN 1 ELSE 0
  /\ UNCHANGED <<cv, tests, fold, i, bar, state, trades>>

Next ==
  \/ \E source \in {"cache", "bridge", "synthetic"} :
       \E n \in Loaded(source), allow, with_cv \in BOOLEAN : Load(source, n, allow, with_cv)
  \/ \E d \in {bar.day, bar.day + 1} : \E b \in BarsOf(d) : ProcessBar(b)
  \/ \E b \in BarsOf(1) : NextFold(b)
  \/ EndFold
  \/ \E guard, passes \in BOOLEAN : Finish(guard, passes)

Spec == Init /\ [][Next]_vars

-----------------------------------------------------------------------------
(* Properties *)

Purged(n, splits, embargo) ==
  LET folds == Folds(n, splits, embargo) IN
  /\ \A k, l \in DOMAIN folds : k # l => folds[k].test \cap folds[l].test = {}
  /\ \E from \in 0..n : UNION {folds[k].test : k \in DOMAIN folds} = from..(n - 1)
  /\ \A k \in DOMAIN folds : \A a \in folds[k].train, b \in folds[k].test :
       a < b - embargo \/ a > b + embargo

\* A series that is cut into folds, here any of up to 24 bars: the tests share no bar
\* and together are a tail of the series (all of it unless it is too short), and no
\* training bar lies within the embargo of a test block, as _purged_kfold_indexes says.
FoldsPurged ==
  cv /\ at = "fold" /\ fold = 0 =>
    \A n \in 0..24, splits \in 0..4, embargo \in 0..3 : Purged(n, splits, embargo)

\* A streak of losses or a drawdown beyond the limit while no position is open ends
\* the trading of a fold: nothing closes and the peak stays, so the breaker never
\* clears, and the fold's numbers are those of the bars before it.
Stuck == at = "bar" /\ state.pos = NoPos /\ (Drawdown(state, HALT) \/ LastLost(state.closed, LOSSES))
HaltIsFinal == [][Stuck /\ at' = "bar" => Stuck' /\ state'.closed = state.closed]_vars

\* No position is opened on a bar of a day whose closed trades lost the limit, those
\* that closed on this bar and those carried over midnight included.
Earned(closed, days) ==
  LET sum[k \in 0..Len(closed)] ==
        IF k = 0 THEN 0 ELSE sum[k - 1] + (IF closed[k].day \in days THEN closed[k].profit ELSE 0)
  IN sum[Len(closed)]
Opens == at = "bar" /\ at' = "bar" /\ state'.pos \notin {NoPos, state.pos}
DailyLossStops ==
  [][Opens =>
      LET base == START + Earned(state'.closed, Nat \ {bar.day})
      IN base > 0 => Earned(state'.closed, {bar.day}) * 100 > -DAILY * base]_vars

=============================================================================
